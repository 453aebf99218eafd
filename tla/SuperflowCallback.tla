------------------------- MODULE SuperflowCallback -------------------------
(***************************************************************************)
(* SuperflowCallback.send (src/callback/superflow.ts): one POST to         *)
(* SuperFlow for each call that ended, which triggers a follow-up email.   *)
(*                                                                         *)
(* app.ts starts a send for every onTerminal notification and does not     *)
(* wait for it.  A send first claims the call with one conditional UPDATE; *)
(* only the winner posts, up to MaxAttempts times, with a timeout on each  *)
(* attempt.  What SuperFlow does with a request whose answer is lost is    *)
(* its own affair: it may have processed it.                               *)
(***************************************************************************)
EXTENDS CallTable

CONSTANT MaxAttempts   \* "attempts" of the retry around the POST

ASSUME CallbackAssumption == MaxAttempts \in Nat \ {0}

VARIABLES
    taken,       \* notifications of each call a send was started for
    post,        \* where the send that won the claim of a call stands
    attempt,     \* its current attempt
    payload,     \* the status it reports
    delivered,   \* how many times SuperFlow processed a POST for the call
    answerLost   \* history: calls with a processed POST that looked failed

callbackVars == <<taken, post, attempt, payload, delivered, answerLost>>

CallbackInit ==
    /\ taken = [c \in Calls |-> 0]
    /\ post = [c \in Calls |-> "none"]
    /\ attempt = [c \in Calls |-> 0]
    /\ payload = [c \in Calls |-> "created"]
    /\ delivered = [c \in Calls |-> 0]
    /\ answerLost = {}

\* Mutant: the column is set but not looked at.
ClaimUnconditionally(c) ==
    /\ taken[c] < Len(onTerminal[c])
    /\ taken' = [taken EXCEPT ![c] = @ + 1]
    /\ calls' = [calls EXCEPT ![c].post_call_callback_sent_at = TRUE]
    /\ post' = [post EXCEPT ![c] = "posting"]
    /\ attempt' = [attempt EXCEPT ![c] = 1]
    /\ payload' = [payload EXCEPT ![c] = onTerminal[c][taken[c] + 1]]
    /\ UNCHANGED <<dialled, onTerminal, disturbed, delivered, answerLost>>

\* The next notification of c starts a send, whose first statement is
\* claimPostCallCallback: it wins when the column is still NULL.
Claim(c) ==
    /\ taken[c] < Len(onTerminal[c])
    /\ taken' = [taken EXCEPT ![c] = @ + 1]
    /\ IF calls[c].post_call_callback_sent_at
         THEN UNCHANGED <<calls, post, attempt, payload>>
         ELSE /\ calls' = [calls EXCEPT ![c].post_call_callback_sent_at = TRUE]
              /\ post' = [post EXCEPT ![c] = "posting"]
              /\ attempt' = [attempt EXCEPT ![c] = 1]
              /\ payload' = [payload EXCEPT ![c] = onTerminal[c][taken[c] + 1]]
    /\ UNCHANGED <<dialled, onTerminal, disturbed, delivered, answerLost>>

\* An attempt failed with a transient error (408, 429, 5xx, a timeout, a
\* broken connection): try again unless this was the last one.
RetryOrFail(c) ==
    IF attempt[c] < MaxAttempts
      THEN /\ post' = [post EXCEPT ![c] = "posting"]
           /\ attempt' = [attempt EXCEPT ![c] = @ + 1]
      ELSE /\ post' = [post EXCEPT ![c] = "failed"]
           /\ UNCHANGED attempt

\* One POST.
Post(c) ==
    /\ post[c] = "posting"
    /\ \/ \* processed, and the answer arrives
          /\ delivered' = [delivered EXCEPT ![c] = @ + 1]
          /\ post' = [post EXCEPT ![c] = "recording"]
          /\ UNCHANGED <<attempt, answerLost>>
       \/ \* processed, but the answer does not arrive in time
          /\ delivered' = [delivered EXCEPT ![c] = @ + 1]
          /\ answerLost' = answerLost \cup {c}
          /\ RetryOrFail(c)
       \/ \* not processed, transient
          /\ RetryOrFail(c)
          /\ UNCHANGED <<delivered, answerLost>>
       \/ \* not processed, refused for good
          /\ post' = [post EXCEPT ![c] = "failed"]
          /\ UNCHANGED <<attempt, delivered, answerLost>>
    /\ UNCHANGED <<calls, dialled, onTerminal, disturbed, taken, payload>>

\* recordCallbackAttempt of a delivered callback.  It runs inside the retried
\* function: when the INSERT fails with what reads as a network error, the
\* callback is posted again.
RecordSuccess(c) ==
    /\ post[c] = "recording"
    /\ post' = [post EXCEPT ![c] = "done"]
    /\ UNCHANGED <<calls, dialled, onTerminal, disturbed, taken, attempt,
                   payload, delivered, answerLost>>

\* Mutant: a failed delivery gives the claim back.
RecordFailureAndRelease(c) ==
    /\ post[c] = "failed"
    /\ post' = [post EXCEPT ![c] = "done"]
    /\ calls' = [calls EXCEPT ![c].post_call_callback_sent_at = FALSE]
    /\ UNCHANGED <<dialled, onTerminal, disturbed, taken, attempt, payload,
                   delivered, answerLost>>

\* The failed delivery is recorded, as well as can be, and swallowed.
RecordFailure(c) ==
    /\ post[c] = "failed"
    /\ post' = [post EXCEPT ![c] = "done"]
    /\ UNCHANGED <<calls, dialled, onTerminal, disturbed, taken, attempt,
                   payload, delivered, answerLost>>

\* The claim fails, before or after it took effect, and the send with it; or
\* the record of a success does.
CallbackFault(c) ==
    /\ Disturb("fault")
    /\ \/ /\ taken[c] < Len(onTerminal[c])
          /\ taken' = [taken EXCEPT ![c] = @ + 1]
          /\ \/ UNCHANGED calls
             \/ calls' = [calls EXCEPT ![c].post_call_callback_sent_at = TRUE]
          /\ UNCHANGED <<post, attempt, answerLost>>
       \/ /\ post[c] = "recording"
          /\ \/ RetryOrFail(c)
             \/ post' = [post EXCEPT ![c] = "failed"] /\ UNCHANGED attempt
          /\ answerLost' = answerLost \cup {c}
          /\ UNCHANGED <<calls, taken>>
    /\ UNCHANGED <<dialled, onTerminal, payload, delivered>>

\* A send dies with the process; its claim stays.
LoseSends ==
    /\ taken' = [c \in Calls |-> Len(onTerminal[c])]
    /\ post' = [c \in Calls |-> IF post[c] \in {"none", "done"} THEN post[c]
                                                               ELSE "lost"]

CallbackStep(c) ==
    Claim(c) \/ Post(c) \/ RecordSuccess(c) \/ RecordFailure(c)
=============================================================================
