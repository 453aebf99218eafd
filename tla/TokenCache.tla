----------------------------- MODULE TokenCache -----------------------------
(***************************************************************************)
(* The access tokens for Google: GoogleServiceAccountAuth.getAccessToken   *)
(* (src/google/calendar.ts).  A token is kept for the user it acts as,     *)
(* until a margin before Google says it expires; whoever asks meanwhile    *)
(* for one that is not there joins the exchange that is under way.         *)
(*                                                                         *)
(* Google counts a token's life from when it issues it, the service from   *)
(* when it is told.  The checker and the booker abort what they began when *)
(* their time is up (DemoBookingChecker.check, DemoBooker.withTimeout);    *)
(* the scheduler gives getAccessToken no signal and never does.            *)
(***************************************************************************)
EXTENDS Naturals

CONSTANTS
    Subjects,   \* users a token acts as
    Callers,    \* checks, bookings and sweeps
    Timed,      \* those of them that have a timeout: all but the sweeps
    NoToken,
    NoExchange,
    Life,       \* expires_in
    Margin,     \* TOKEN_REFRESH_MARGIN_MS
    Timeout,    \* DEMO_CHECK_TIMEOUT_MS
    Delay,      \* a message takes no longer to arrive, or never does
    MaxClock    \* bound: how far the clock goes

\* The timeout is configured and the margin is not: nothing in the code keeps
\* the one below the other.
ASSUME TokenAssumption ==
    /\ Timed \subseteq Callers
    /\ {Life, Margin, Timeout, Delay, MaxClock} \subseteq Nat
    /\ Delay <= Timeout /\ Timeout + Delay <= Margin /\ Margin < Life

\* What is kept of an exchange; that there is none is not one of them.
Exchange == [until : Nat, issued : Nat, failed : Nat]

ASSUME ExchangeAssumption == NoExchange \notin Exchange

VARIABLES
    clock,
    token,     \* GoogleServiceAccountAuth.tokens, with when each token `dies`
    exchange,  \* GoogleServiceAccountAuth.inflight: when each is aborted, and
               \* when Google issued the token, if it did
    caller     \* what each caller is doing; when the token it has `dies`, or
               \* the exchange it was told of `failed`

tokenVars == <<clock, token, exchange, caller>>

Never == MaxClock + Timeout + 1

Idle == [pc |-> "idle"]

TokenInit ==
    /\ clock = 0
    /\ token = [s \in Subjects |-> NoToken]
    /\ exchange = [s \in Subjects |-> NoExchange]
    /\ caller = [c \in Callers |-> Idle]

\* A sweep sends what it needs the token for at once.
Limit(c) == IF c \in Timed THEN Timeout ELSE Delay

Overdue(c) == clock >= caller[c].since + Limit(c)

-----------------------------------------------------------------------------
(* getAccessToken. *)

\* Mutant: a token is used until it expires.
UsableToTheEnd(s) == token[s] # NoToken /\ token[s].expiresAt > clock

Usable(s) == token[s] # NoToken /\ token[s].expiresAt > clock + Margin

\* A check reads one calendar after the other in the time it has, each as its
\* own user.
Ask(c, s) ==
    /\ caller[c].pc \in {"idle", "ready"}
    /\ caller[c].pc = "ready" => c \in Timed /\ s # caller[c].subject
    /\ LET since == IF caller[c].pc = "idle" THEN clock ELSE caller[c].since IN
       /\ caller' = [caller EXCEPT ![c] =
              IF Usable(s)
                THEN [pc |-> "ready", subject |-> s, since |-> since,
                      dies |-> token[s].dies]
                ELSE [pc |-> "waiting", subject |-> s, since |-> since]]
       /\ exchange' = IF Usable(s) \/ exchange[s] # NoExchange THEN exchange
                      ELSE [exchange EXCEPT ![s] =
                              [until  |-> IF c \in Timed THEN since + Timeout ELSE Never,
                               issued |-> Never, failed |-> Never]]
    /\ UNCHANGED <<clock, token>>

\* Google receives the assertion.
Issue(s) ==
    /\ exchange[s] # NoExchange /\ exchange[s].issued = Never
    /\ exchange' = [exchange EXCEPT ![s].issued = clock]
    /\ UNCHANGED <<clock, token, caller>>

Waiting(s) == {c \in Callers : caller[c].pc = "waiting" /\ caller[c].subject = s}

\* The token is handed to everybody who waits; what a caller then does with a
\* signal that was aborted fails at once.
Answer(s) ==
    /\ exchange[s] # NoExchange /\ exchange[s].issued # Never
    /\ LET dies == exchange[s].issued + Life
           Given(c) ==
               IF c \in Timed /\ Overdue(c) THEN Idle
               ELSE [pc |-> "ready", subject |-> s, dies |-> dies,
                     since |-> IF c \in Timed THEN caller[c].since ELSE clock]
       IN  /\ token' = [token EXCEPT ![s] = [expiresAt |-> clock + Life, dies |-> dies]]
           /\ caller' = [c \in Callers |-> IF c \in Waiting(s) THEN Given(c) ELSE caller[c]]
    /\ exchange' = [exchange EXCEPT ![s] = NoExchange]
    /\ UNCHANGED clock

\* Everybody who waits is told of the failure.
Fails(s, when) ==
    caller' = [c \in Callers |->
        IF c \in Waiting(s)
          THEN [pc |-> "failed", since |-> caller[c].since, failed |-> when]
          ELSE caller[c]]

\* Mutant: what was begun is not forgotten when it fails, and answers whoever
\* asks next.
ExchangeFailsForGood(s) ==
    /\ exchange[s] # NoExchange
    /\ LET when == IF exchange[s].failed = Never THEN clock ELSE exchange[s].failed
       IN  /\ Fails(s, when)
           /\ exchange' = [exchange EXCEPT ![s].failed = when]
    /\ UNCHANGED <<clock, token>>

\* The time of whoever began it is up, or Google refuses, or the network does.
ExchangeFails(s) ==
    /\ exchange[s] # NoExchange
    /\ Fails(s, clock)
    /\ exchange' = [exchange EXCEPT ![s] = NoExchange]
    /\ UNCHANGED <<clock, token>>

\* The caller has done what it wanted the token for, or its time is up, or it
\* has been told that there is none; another begins.
Leave(c) ==
    /\ caller[c].pc \in {"ready", "failed"}
    /\ caller' = [caller EXCEPT ![c] = Idle]
    /\ UNCHANGED <<clock, token, exchange>>

-----------------------------------------------------------------------------
(* Time. *)

\* An abort and an answer that arrives are not put off.
TokenTick ==
    /\ clock < MaxClock
    /\ \A c \in Callers : caller[c].pc = "ready" => ~Overdue(c)
    /\ \A s \in Subjects : exchange[s] # NoExchange =>
          /\ clock # exchange[s].until
          /\ exchange[s].issued # Never => clock < exchange[s].issued + Delay
    /\ clock' = clock + 1
    /\ UNCHANGED <<token, exchange, caller>>

TokenNext ==
    \/ \E c \in Callers : Leave(c) \/ \E s \in Subjects : Ask(c, s)
    \/ \E s \in Subjects : Issue(s) \/ Answer(s) \/ ExchangeFails(s)
    \/ TokenTick

TokenSpec == TokenInit /\ [][TokenNext]_tokenVars

-----------------------------------------------------------------------------
(* Properties. *)

\* Whatever a caller sends in the time it has, its last request after a token
\* from the cache included, Google still accepts the token.
TokensAccepted == \A c \in Callers : caller[c].pc = "ready" => clock < caller[c].dies

\* A caller that is told there is no token is told of an exchange that failed
\* while it waited, its own or the one it joined, not of an earlier one.
FailuresCurrent ==
    \A c \in Callers : caller[c].pc = "failed" => caller[c].since <= caller[c].failed

\* Who waits, waits for an exchange that is under way; its own signal does not end
\* the wait.  One that a check or a booking began may keep it up to twice its
\* timeout, one that a sweep began for ever: nothing aborts it.
WaitsBounded ==
    \A c \in Callers : caller[c].pc = "waiting" =>
        /\ exchange[caller[c].subject] # NoExchange
        /\ c \in Timed /\ clock > caller[c].since + 2 * Timeout
           => exchange[caller[c].subject].until = Never

\* What callers that share tokens and exchanges can rely on.  It is less than each
\* would have alone.  A caller that joins an exchange depends on the first caller:
\* it fails when that one's signal aborts, although it has time left itself
\* (calendar.ts:127), and it may wait longer than its own timeout.  What remains
\* is that a token it is given lasts, that a failure is of an exchange it waited
\* for, and that its wait is bounded unless it joined one of a sweep.
CallersServed == TokensAccepted /\ FailuresCurrent /\ WaitsBounded
=============================================================================
