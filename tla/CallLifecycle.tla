--------------------------- MODULE CallLifecycle ---------------------------
(***************************************************************************)
(* A call from the request to the report: Placement puts it on the line,   *)
(* StatusFlow follows it through Twilio's webhooks and the media stream,   *)
(* SuperflowCallback reports its end, and long after that CloneCleanup     *)
(* takes its agent away.  All of them write the same row, and nothing but  *)
(* the database orders their statements.                                   *)
(*                                                                         *)
(* The clock stands still here: only the contact rules read it.            *)
(***************************************************************************)
EXTENDS CloneCleanup

VARIABLE overlapped  \* history: calls two status updates of which overlapped

requestVars == <<now, pc, reply, verified, clones, raced>>

vars == <<placementVars, flowVars, callbackVars, cleanupVars, overlapped>>

\* Tasks that have decided on a status for c and have yet to write it.
PendingWrites(c) ==
    Cardinality({h \in Handlers : /\ handler[h].pc = "update"
                                  /\ handler[h].call = c})
    + (IF stream[c] \in {"connecting_update", "streaming_update"} THEN 1 ELSE 0)
    + (IF c \in dialled /\ pc[c] \in {"queue", "failing"} THEN 1 ELSE 0)

Init ==
    /\ PlacementInit
    /\ FlowInit
    /\ CallbackInit
    /\ CleanupInit
    /\ overlapped = {}

\* Overlapping updates are remembered as they arise.
Track == overlapped' = overlapped \cup {c \in Calls : PendingWrites(c)' > 1}

\* A step of one component leaves the variables of the others alone.
InPlacement(A) ==
    A /\ UNCHANGED <<flowVars, callbackVars, cleanupVars>> /\ Track
InFlow(A) ==
    A /\ UNCHANGED <<requestVars, callbackVars, cleanupVars>> /\ Track
InCallback(A) ==
    A /\ UNCHANGED <<requestVars, flowVars, cleanupVars>> /\ Track
InCleanup(A) ==
    A /\ UNCHANGED <<requestVars, flowVars, callbackVars>> /\ Track

\* The process dies with everything it was doing.
Crash ==
    /\ Disturb("crash")
    /\ LoseRequests /\ LoseHandlers /\ LoseSends /\ LoseSweeps
    /\ UNCHANGED <<calls, now, reply, dialled, verified, clones, onTerminal,
                   raced, carrier, mail, missed, attempt, payload, delivered,
                   answerLost, deleted, forgotten>>
    /\ Track

Next ==
    \/ \E c \in Calls :
           \/ InPlacement(Receive(c) \/ Advance(c) \/ DatabaseFault(c))
           \/ InFlow(CarrierStep(c) \/ StreamStarts(c) \/ StreamStep(c)
                       \/ StreamFault(c))
           \/ InCallback(CallbackStep(c) \/ CallbackFault(c))
    \/ \E h \in Handlers :
           InFlow(ReceiveWebhook(h) \/ HandlerStep(h) \/ HandlerFault(h))
    \/ \E w \in Sweepers : InCleanup(SweepStep(w) \/ ClearFault(w))
    \/ Crash

Spec == Init /\ [][Next]_vars

\* What is under way: requests, calls at Twilio, media sessions, callbacks, and
\* webhooks, each of which is delivered in the end.
Working ==
    \/ \E c \in Calls :
           \/ InPlacement(Advance(c))
           \/ InFlow(CarrierStep(c) \/ StreamStep(c))
           \/ InCallback(CallbackStep(c))
    \/ \E h \in Handlers :
           InFlow(\/ HandlerStep(h)
                  \/ ReceiveWebhook(h) /\ UNCHANGED disturbed)

\* As long as something can go on, something does; the interval keeps starting
\* sweeps; and Lyzr does not fail to delete an agent for ever.  Requests, streams
\* and disturbances need not happen.
Fairness ==
    /\ WF_vars(Working)
    /\ WF_vars(\E w \in Sweepers : InCleanup(SweepStep(w)))
    /\ SF_vars(\E w \in Sweepers, c \in Calls : InCleanup(AgentDeleted(w, c)))

FairSpec == Spec /\ Fairness

-----------------------------------------------------------------------------
(* Properties. *)

\* README, "Call states": backwards moves are refused and terminal states are
\* final.  This holds of a call as long as no two of its updates overlap.
LegalUnlessOverlapped ==
    [][\A c \in Calls :
          LET from == calls[c].status
              to   == calls'[c].status
          IN  Exists(c) /\ to # from /\ c \notin overlapped' =>
                  from \notin Terminal /\ CanTransition(from, to)]_vars

\* The columns agree with the status whatever the interleaving: an ended call
\* has completed_at (the cleanup sweep relies on it), an answered one
\* answered_at.
TimestampsFollowStatus ==
    \A c \in Calls :
        /\ calls[c].status \in Terminal => calls[c].completed_at
        /\ calls[c].status \in {"answered", "stream_connecting", "streaming"}
               => calls[c].answered_at

\* The report goes out with the status the row keeps, a terminal one, unless
\* updates of the call overlapped.
ReportMatchesRow ==
    \A c \in Calls \ overlapped :
        post[c] # "none" => /\ payload[c] \in Terminal
                            /\ payload[c] = calls[c].status

\* SuperFlow processes a second POST for a call only when it had processed one
\* whose success the service did not see; duplicate and overlapping terminal
\* webhooks never cause one.
RepeatOnlyAfterLostAnswer ==
    \A c \in Calls : /\ delivered[c] > 1 => c \in answerLost
                     /\ delivered[c] <= MaxAttempts

\* superflow.ts: at most once, SuperFlow never emails twice.
DeliveredAtMostOnce == \A c \in Calls : delivered[c] <= 1

\* README, "Call states": terminal states are final.
TerminalIsFinal ==
    [][\A c \in Calls :
          calls[c].status \in Terminal => calls'[c].status = calls[c].status]_vars

\* Phases of a call as its row shows them, for the refinement of CallReport.
PhaseOf(c) == CASE calls[c].post_call_callback_sent_at -> "claimed"
                [] ~calls[c].post_call_callback_sent_at
                   /\ calls[c].completed_at             -> "ended"
                [] OTHER                                -> "open"

Report == INSTANCE CallReport WITH phase <- [c \in Calls |-> PhaseOf(c)]

\* Every call is open, then ended, then claimed once: CallReport.
ImplementsCallReport == Report!Spec

FaultFree == disturbed["fault"] = 0 /\ disturbed["crash"] = 0

\* A row does not stay in a preparation status: placeCall brings it to
\* "queued" or "failed".  Only a crash or a failing statement can leave it
\* behind, and then nothing in the code picks it up again.
NoRowLeftInPreparation ==
    \A c \in Calls :
        Exists(c) ~> calls[c].status \notin Preparation \/ ~FaultFree

\* When Twilio's call is over the row learns of it, unless the webhook that
\* said so came before placeCall had written the sid and "queued" and was
\* dropped, or updates overlapped.
CarrierEndReachesRow ==
    \A c \in Calls :
        c \in dialled /\ carrier[c] \in CarrierFinal
            ~> \/ calls[c].status \in Terminal
               \/ c \in missed \cup overlapped
               \/ ~FaultFree

\* A call that ended is reported: delivered, or given up on after the last
\* attempt.
EndIsReported ==
    \A c \in Calls :
        calls[c].status \in Terminal ~> post[c] = "done" \/ ~FaultFree

\* The clone that a prospect was called with is on record until it is gone,
\* whatever fails and however many tasks and sweeps write the row: it can always
\* be found again.  Nothing is said of a clone whose call never came to the dial,
\* because the answer to its creation, or the UPDATE that records it, was lost:
\* the code keeps no trace of it.
ForgottenOnlyWhenGone ==
    /\ forgotten \subseteq deleted
    /\ \A c \in dialled :
           Cloning => calls[c].lyzr_call_agent_id \/ c \in deleted

\* An agent on record is deleted and forgotten in the end, however often that
\* fails on the way, unless its call never got a completion time; and that takes
\* a fault, a crash, or a last webhook that came too early.
ClonesGo ==
    \A c \in Calls :
        calls[c].lyzr_call_agent_id ~>
            \/ c \in deleted /\ ~calls[c].lyzr_call_agent_id
            \/ ~calls[c].completed_at /\ (c \in missed \/ ~FaultFree)
=============================================================================
