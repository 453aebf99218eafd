----------------------------- MODULE DemoProofs -----------------------------
(***************************************************************************)
(* Proofs about TokenCache, OwnerWait and DemoSlots, what a call needs of  *)
(* the demo calendar and of HubSpot before it books.                       *)
(*                                                                         *)
(* Tokens: for any users, callers and times that keep TokenAssumption,     *)
(* that is, nothing is longer on its way than a caller has time, and both  *)
(* together are within the margin.  CallersServed speaks of the clock and  *)
(* of when a token dies; what relates the two are times the service never  *)
(* compares: when Google issued the token and when the service heard of    *)
(* it, when a caller began and when the one whose exchange it joined did.  *)
(*                                                                         *)
(* Owners: for any waits, times and changes of leads and owners.           *)
(* OwnerFound speaks of what HubSpot knew when a wait was over or shortly  *)
(* before; what it was told, and when, is all that waitForOwner has.       *)
(*                                                                         *)
(* Slots: for any hours, zones, calendars and queries, provided the clocks *)
(* change when QueriesRegular says they may.                               *)
(***************************************************************************)
EXTENDS TokenCache, OwnerWait, DemoSlots, FiniteSetTheorems, TLAPS

-----------------------------------------------------------------------------
(* Tokens: the inductive invariant. *)

Token == [expiresAt : Nat, dies : Nat]

Doing == [pc : {"idle"}]
    \cup [pc : {"waiting"}, subject : Subjects, since : Nat]
    \cup [pc : {"ready"}, subject : Subjects, since : Nat, dies : Nat]
    \cup [pc : {"failed"}, since : Nat, failed : Nat]

TokenTypeOK ==
    /\ clock \in 0..MaxClock
    /\ token \in [Subjects -> Token \cup {NoToken}]
    /\ exchange \in [Subjects -> Exchange \cup {NoExchange}]
    /\ caller \in [Callers -> Doing]

\* Google's clock for a token is ahead of the service's by no more than the
\* answer took.
TokensLast ==
    \A s \in Subjects : token[s] # NoToken => token[s].expiresAt <= token[s].dies + Delay

\* An exchange is aborted in time, by whoever began it with a timeout; an answer
\* is not longer on its way than it may be.
ExchangesTimely ==
    \A s \in Subjects : exchange[s] # NoExchange =>
        /\ exchange[s].until # Never
           => clock <= exchange[s].until /\ exchange[s].until <= clock + Timeout
        /\ exchange[s].issued # Never
           => exchange[s].issued <= clock /\ clock <= exchange[s].issued + Delay

\* Who has a token has time left for it, and it does not die in that time.
ReadyInTime ==
    \A c \in Callers : caller[c].pc = "ready" =>
        /\ caller[c].since <= clock /\ clock <= caller[c].since + Limit(c)
        /\ caller[c].since + Limit(c) < caller[c].dies

\* Who waits joined an exchange that had no more than a whole timeout to go.
WaitersInTime ==
    \A c \in Callers : caller[c].pc = "waiting" =>
        /\ caller[c].since <= clock
        /\ exchange[caller[c].subject] # NoExchange
        /\ c \in Timed /\ exchange[caller[c].subject].until # Never
           => exchange[caller[c].subject].until <= caller[c].since + 2 * Timeout

TokenInv ==
    /\ TokenTypeOK
    /\ TokensLast
    /\ ExchangesTimely
    /\ ReadyInTime
    /\ WaitersInTime
    /\ FailuresCurrent

-----------------------------------------------------------------------------
(* Every step keeps it. *)

\* What the times may be.
LEMMA Times ==
    /\ Life \in Nat /\ Margin \in Nat /\ Timeout \in Nat /\ Delay \in Nat
    /\ MaxClock \in Nat /\ Never \in Nat
    /\ Delay <= Timeout /\ Timeout + Delay <= Margin /\ Margin < Life
    /\ MaxClock + Timeout < Never
    /\ \A c \in Callers : /\ Limit(c) \in Nat /\ Limit(c) <= Timeout
                          /\ c \in Timed => Limit(c) = Timeout
                          /\ c \notin Timed => Limit(c) = Delay
BY TokenAssumption DEF TokenAssumption, Never, Limit

LEMMA TokenInit_Inv == TokenInit => TokenInv
BY Times DEF TokenInit, TokenInv, TokenTypeOK, TokensLast, ExchangesTimely, ReadyInTime,
       WaitersInTime, FailuresCurrent, Idle, Doing

LEMMA Leave_Inv ==
    ASSUME TokenInv, NEW c \in Callers, Leave(c)
    PROVE  TokenInv'
<1> USE DEF TokenInv, Leave
<1>1. /\ caller' = [caller EXCEPT ![c] = Idle] /\ Idle \in Doing
      /\ caller'[c].pc = "idle"
  BY DEF Idle, Doing, TokenTypeOK
<1>2. TokenTypeOK'
  BY <1>1 DEF TokenTypeOK
<1>3. TokensLast' /\ ExchangesTimely'
  BY DEF TokensLast, ExchangesTimely
<1>4. ReadyInTime' /\ WaitersInTime' /\ FailuresCurrent'
  BY <1>1 DEF ReadyInTime, WaitersInTime, FailuresCurrent, TokenTypeOK, Limit
<1> QED
  BY <1>2, <1>3, <1>4
\* How a caller that asks is timed: from now, or from when it began.
LEMMA AskedSince ==
    ASSUME TokenInv, NEW c \in Callers, NEW s \in Subjects, Ask(c, s),
           NEW since, since = IF caller[c].pc = "idle" THEN clock ELSE caller[c].since
    PROVE  /\ since \in Nat /\ since <= clock /\ clock <= since + Limit(c)
           /\ c \in Timed => clock <= since + Timeout /\ since + Timeout < Never
<1>1. /\ caller[c].pc \in {"idle", "ready"} /\ clock \in 0..MaxClock
      /\ caller[c] \in Doing
  BY DEF Ask, TokenInv, TokenTypeOK
<1>2. CASE caller[c].pc = "idle"
  BY <1>1, <1>2, Times
<1>3. CASE caller[c].pc = "ready"
  <2>1. since = caller[c].since /\ since \in Nat
    BY <1>1, <1>3 DEF Doing
  <2>2. since <= clock /\ clock <= since + Limit(c)
    BY <1>3, <2>1 DEF TokenInv, ReadyInTime
  <2> QED
    BY <1>1, <2>1, <2>2, Times
<1> QED
  BY <1>1, <1>2, <1>3

LEMMA Ask_Inv ==
    ASSUME TokenInv, NEW c \in Callers, NEW s \in Subjects, Ask(c, s)
    PROVE  TokenInv'
<1> DEFINE since == IF caller[c].pc = "idle" THEN clock ELSE caller[c].since
           ready == [pc |-> "ready", subject |-> s, since |-> since,
                     dies |-> token[s].dies]
           waits == [pc |-> "waiting", subject |-> s, since |-> since]
           begun == [until  |-> IF c \in Timed THEN since + Timeout ELSE Never,
                     issued |-> Never, failed |-> Never]
<1>1. /\ since \in Nat /\ since <= clock /\ clock <= since + Limit(c)
      /\ c \in Timed => clock <= since + Timeout /\ since + Timeout < Never
  BY AskedSince
<1>2. /\ clock \in 0..MaxClock /\ token[s] \in Token \cup {NoToken}
      /\ exchange[s] \in Exchange \cup {NoExchange}
      /\ caller' = [caller EXCEPT ![c] = IF Usable(s) THEN ready ELSE waits]
      /\ exchange' = IF Usable(s) \/ exchange[s] # NoExchange THEN exchange
                     ELSE [exchange EXCEPT ![s] = begun]
      /\ clock' = clock /\ token' = token
      /\ TokenTypeOK /\ TokensLast /\ ExchangesTimely /\ ReadyInTime
      /\ WaitersInTime /\ FailuresCurrent
  BY DEF Ask, TokenInv, TokenTypeOK
<1> HIDE DEF since
<1>3. CASE Usable(s)
  <2>1. /\ token[s].expiresAt > clock + Margin
        /\ token[s].expiresAt <= token[s].dies + Delay
        /\ token[s] \in Token
    BY <1>2, <1>3 DEF Usable, TokensLast
  <2>2. ready \in Doing /\ since + Limit(c) < token[s].dies
    BY <1>1, <1>2, <2>1, Times DEF Doing, Token
  <2>3. caller' = [caller EXCEPT ![c] = ready] /\ exchange' = exchange
    BY <1>2, <1>3
  <2>4. /\ caller'[c].pc = "ready" /\ caller'[c].since = since
        /\ caller'[c].dies = token[s].dies
        /\ \A d \in Callers \ {c} : caller'[d] = caller[d]
    BY <2>3, <1>2 DEF TokenTypeOK
  <2>5. TokenTypeOK'
    BY <1>2, <2>2, <2>3 DEF TokenTypeOK
  <2>6. ReadyInTime'
    BY <1>1, <1>2, <2>2, <2>4 DEF ReadyInTime, Limit
  <2>7. WaitersInTime' /\ FailuresCurrent' /\ TokensLast' /\ ExchangesTimely'
    BY <1>2, <2>3, <2>4 DEF WaitersInTime, FailuresCurrent, TokensLast, ExchangesTimely
  <2> QED
    BY <2>5, <2>6, <2>7 DEF TokenInv
<1>4. CASE ~Usable(s)
  <2>1. waits \in Doing /\ begun \in Exchange /\ begun # NoExchange
    BY <1>1, Times, ExchangeAssumption DEF Doing, Exchange
  <2>2. caller' = [caller EXCEPT ![c] = waits]
    BY <1>2, <1>4
  <2>3. /\ caller'[c].pc = "waiting" /\ caller'[c].since = since
        /\ caller'[c].subject = s
        /\ \A d \in Callers \ {c} : caller'[d] = caller[d]
    BY <2>2, <1>2 DEF TokenTypeOK
  <2>4. /\ exchange' \in [Subjects -> Exchange \cup {NoExchange}]
        /\ \A t \in Subjects : exchange[t] # NoExchange => exchange'[t] = exchange[t]
        /\ exchange'[s] = IF exchange[s] # NoExchange THEN exchange[s] ELSE begun
        /\ \A t \in Subjects \ {s} : exchange'[t] = exchange[t]
    BY <1>2, <1>4, <2>1 DEF TokenTypeOK
  <2>5. TokenTypeOK' /\ TokensLast'
    BY <1>2, <2>1, <2>2, <2>4 DEF TokenTypeOK, TokensLast
  <2>6. ReadyInTime' /\ FailuresCurrent'
    BY <1>2, <2>3 DEF ReadyInTime, FailuresCurrent, Limit
  <2>7. begun.until # Never => clock <= begun.until /\ begun.until <= clock + Timeout
    BY <1>1, <1>2, Times
  <2>8. ExchangesTimely'
    <3>1. begun.issued = Never
      OBVIOUS
    <3> QED
      BY <1>2, <2>4, <2>7, <3>1 DEF ExchangesTimely
  <2>9. exchange'[s].until # Never => exchange'[s].until <= clock + Timeout
    BY <1>2, <2>4, <2>7 DEF ExchangesTimely
  <2>10. WaitersInTime'
    <3>1. exchange'[s] # NoExchange
      BY <2>1, <2>4
    <3>2. c \in Timed /\ exchange'[s].until # Never
          => exchange'[s].until <= since + 2 * Timeout
      <4>1. exchange'[s].until \in Nat
        BY <2>4, <3>1 DEF Exchange
      <4> QED
        BY <1>1, <1>2, <2>9, <4>1, Times
    <3>3. \A d \in Callers \ {c} : caller[d].pc = "waiting" =>
             exchange'[caller[d].subject] = exchange[caller[d].subject]
      BY <1>2, <2>4 DEF WaitersInTime, TokenTypeOK, Doing
    <3> QED
      BY <1>1, <1>2, <2>3, <3>1, <3>2, <3>3 DEF WaitersInTime
  <2> QED
    BY <2>5, <2>6, <2>8, <2>10 DEF TokenInv
<1> QED
  BY <1>3, <1>4

LEMMA Issue_Inv ==
    ASSUME TokenInv, NEW s \in Subjects, Issue(s)
    PROVE  TokenInv'
<1>1. /\ clock \in 0..MaxClock /\ exchange[s] \in Exchange /\ exchange[s] # NoExchange
      /\ clock' = clock /\ token' = token /\ caller' = caller
      /\ exchange' = [exchange EXCEPT ![s].issued = clock]
      /\ TokenTypeOK /\ TokensLast /\ ExchangesTimely /\ ReadyInTime
      /\ WaitersInTime /\ FailuresCurrent
  BY DEF Issue, TokenInv, TokenTypeOK
<1>2. /\ exchange'[s] = [exchange[s] EXCEPT !.issued = clock]
      /\ exchange'[s] \in Exchange /\ exchange'[s] # NoExchange
      /\ exchange'[s].until = exchange[s].until /\ exchange'[s].issued = clock
      /\ \A t \in Subjects \ {s} : exchange'[t] = exchange[t]
      /\ exchange' \in [Subjects -> Exchange \cup {NoExchange}]
  BY <1>1, ExchangeAssumption DEF TokenTypeOK, Exchange
<1>3. TokenTypeOK' /\ TokensLast' /\ ReadyInTime' /\ FailuresCurrent'
  BY <1>1, <1>2 DEF TokenTypeOK, TokensLast, ReadyInTime, FailuresCurrent, Limit
<1>4. ExchangesTimely'
  BY <1>1, <1>2, Times DEF ExchangesTimely
<1>5. WaitersInTime'
  <2>1. \A d \in Callers : caller[d].pc = "waiting" => caller[d].subject \in Subjects
    BY <1>1 DEF TokenTypeOK, Doing
  <2>2. \A t \in Subjects : /\ exchange[t] # NoExchange => exchange'[t] # NoExchange
                            /\ exchange'[t].until = exchange[t].until
    BY <1>2
  <2> QED
    BY <1>1, <2>1, <2>2 DEF WaitersInTime
<1> QED
  BY <1>3, <1>4, <1>5 DEF TokenInv
LEMMA Answer_Inv ==
    ASSUME TokenInv, NEW s \in Subjects, Answer(s)
    PROVE  TokenInv'
<1> DEFINE issued == exchange[s].issued
           dies == issued + Life
           kept == [expiresAt |-> clock + Life, dies |-> dies]
           Given(c) ==
               IF c \in Timed /\ Overdue(c) THEN Idle
               ELSE [pc |-> "ready", subject |-> s, dies |-> dies,
                     since |-> IF c \in Timed THEN caller[c].since ELSE clock]
<1>1. /\ clock \in 0..MaxClock /\ clock \in Nat /\ exchange[s] \in Exchange
      /\ exchange[s] # NoExchange /\ issued # Never /\ issued \in Nat
      /\ token' = [token EXCEPT ![s] = kept]
      /\ caller' = [c \in Callers |-> IF c \in Waiting(s) THEN Given(c) ELSE caller[c]]
      /\ exchange' = [exchange EXCEPT ![s] = NoExchange]
      /\ clock' = clock
      /\ TokenTypeOK /\ TokensLast /\ ExchangesTimely /\ ReadyInTime
      /\ WaitersInTime /\ FailuresCurrent
  BY DEF Answer, TokenInv, TokenTypeOK, Exchange
<1>2. issued <= clock /\ clock <= issued + Delay
  BY <1>1 DEF ExchangesTimely
<1> HIDE DEF issued
<1>3. \A c \in Waiting(s) :
        /\ c \in Callers /\ caller[c].since \in Nat /\ caller[c].since <= clock
        /\ caller[c].pc = "waiting" /\ caller[c].subject = s
  BY <1>1 DEF Waiting, WaitersInTime, TokenTypeOK, Doing
\* Who is given the token, and how long that one has left.
<1>4. \A c \in Waiting(s) :
        /\ Given(c) \in Doing /\ Given(c).pc \in {"idle", "ready"}
        /\ Given(c).pc = "ready" =>
             /\ Given(c).since <= clock /\ clock <= Given(c).since + Limit(c)
             /\ Given(c).since + Limit(c) < Given(c).dies
  <2> SUFFICES ASSUME NEW c \in Waiting(s)
               PROVE  /\ Given(c) \in Doing /\ Given(c).pc \in {"idle", "ready"}
                      /\ Given(c).pc = "ready" =>
                           /\ Given(c).since <= clock
                           /\ clock <= Given(c).since + Limit(c)
                           /\ Given(c).since + Limit(c) < Given(c).dies
    OBVIOUS
  <2>1. CASE c \in Timed /\ Overdue(c)
    BY <2>1 DEF Idle, Doing
  <2>2. CASE c \in Timed /\ ~Overdue(c)
    <3>1. clock < caller[c].since + Timeout
      BY <1>1, <1>3, <2>2, Times DEF Overdue, Limit
    <3>2. caller[c].since + Timeout < dies
      BY <1>1, <1>2, <1>3, Times
    <3>3. Given(c) = [pc |-> "ready", subject |-> s, dies |-> dies,
                      since |-> caller[c].since]
      BY <2>2
    <3>4. Given(c) \in Doing
      BY <1>1, <1>3, <3>3, Times DEF Doing
    <3>5. Given(c).since = caller[c].since /\ Given(c).dies = dies /\ Limit(c) = Timeout
          /\ Given(c).pc = "ready"
      BY <1>3, <2>2, <3>3, Times
    <3> HIDE DEF Given, dies
    <3>6. clock <= caller[c].since + Timeout
      BY <1>1, <1>3, <3>1, Times
    <3> QED
      BY <1>3, <3>2, <3>4, <3>5, <3>6
  <2>3. CASE c \notin Timed
    <3>1. clock + Delay < dies
      BY <1>1, <1>2, Times
    <3>2. Given(c) = [pc |-> "ready", subject |-> s, dies |-> dies, since |-> clock]
      BY <2>3
    <3>3. Given(c) \in Doing
      BY <1>1, <3>2, Times DEF Doing
    <3> QED
      BY <1>1, <1>3, <2>3, <3>1, <3>2, <3>3, Times
  <2> QED
    BY <2>1, <2>2, <2>3
<1>5. \A c \in Callers :
        /\ c \in Waiting(s) => caller'[c] = Given(c)
        /\ c \notin Waiting(s) => caller'[c] = caller[c]
  BY <1>1
<1> HIDE DEF Given
<1>6. TokenTypeOK'
  <2>1. caller' \in [Callers -> Doing]
    BY <1>1, <1>4 DEF TokenTypeOK
  <2>2. kept \in Token
    BY <1>1, Times DEF Token
  <2> QED
    BY <1>1, <2>1, <2>2 DEF TokenTypeOK
<1>7. TokensLast'
  <2>1. kept.expiresAt <= kept.dies + Delay
    BY <1>1, <1>2, Times
  <2> QED
    BY <1>1, <2>1 DEF TokensLast, TokenTypeOK
<1>8. ExchangesTimely'
  BY <1>1 DEF ExchangesTimely, TokenTypeOK
<1>9. ReadyInTime'
  BY <1>1, <1>4, <1>5 DEF ReadyInTime, Limit
<1>10. WaitersInTime'
  <2>1. \A c \in Callers : caller'[c].pc = "waiting" =>
          /\ caller'[c] = caller[c] /\ caller[c].subject \in Subjects \ {s}
    BY <1>1, <1>4, <1>5 DEF Waiting, TokenTypeOK, Doing
  <2>2. \A t \in Subjects \ {s} : exchange'[t] = exchange[t]
    BY <1>1 DEF TokenTypeOK
  <2> QED
    BY <1>1, <2>1, <2>2 DEF WaitersInTime
<1>11. FailuresCurrent'
  BY <1>1, <1>4, <1>5 DEF FailuresCurrent
<1> QED
  BY <1>6, <1>7, <1>8, <1>9, <1>10, <1>11 DEF TokenInv

LEMMA ExchangeFails_Inv ==
    ASSUME TokenInv, NEW s \in Subjects, ExchangeFails(s)
    PROVE  TokenInv'
<1> DEFINE Told(c) == [pc |-> "failed", since |-> caller[c].since, failed |-> clock]
<1>1. /\ clock \in 0..MaxClock /\ clock \in Nat
      /\ token' = token /\ clock' = clock
      /\ caller' = [c \in Callers |-> IF c \in Waiting(s) THEN Told(c) ELSE caller[c]]
      /\ exchange' = [exchange EXCEPT ![s] = NoExchange]
      /\ TokenTypeOK /\ TokensLast /\ ExchangesTimely /\ ReadyInTime
      /\ WaitersInTime /\ FailuresCurrent
  BY DEF ExchangeFails, Fails, TokenInv, TokenTypeOK
<1>2. \A c \in Waiting(s) :
        /\ Told(c) \in Doing /\ Told(c).pc = "failed"
        /\ Told(c).since <= Told(c).failed
  BY <1>1 DEF Waiting, WaitersInTime, TokenTypeOK, Doing
<1>3. \A c \in Callers :
        /\ c \in Waiting(s) => caller'[c] = Told(c)
        /\ c \notin Waiting(s) => caller'[c] = caller[c]
  BY <1>1
<1> HIDE DEF Told
<1>4. caller' \in [Callers -> Doing]
  BY <1>1, <1>2 DEF TokenTypeOK
<1>5. TokenTypeOK' /\ TokensLast'
  BY <1>1, <1>4 DEF TokenTypeOK, TokensLast
<1>6. ExchangesTimely'
  BY <1>1 DEF ExchangesTimely, TokenTypeOK
<1>7. ReadyInTime'
  BY <1>1, <1>2, <1>3 DEF ReadyInTime, Limit
<1>8. WaitersInTime'
  <2>1. \A c \in Callers : caller'[c].pc = "waiting" =>
          /\ caller'[c] = caller[c] /\ caller[c].subject \in Subjects \ {s}
    BY <1>1, <1>2, <1>3 DEF Waiting, TokenTypeOK, Doing
  <2>2. \A t \in Subjects \ {s} : exchange'[t] = exchange[t]
    BY <1>1 DEF TokenTypeOK
  <2> QED
    BY <1>1, <2>1, <2>2 DEF WaitersInTime
<1>9. FailuresCurrent'
  BY <1>1, <1>2, <1>3 DEF FailuresCurrent
<1> QED
  BY <1>5, <1>6, <1>7, <1>8, <1>9 DEF TokenInv

\* Time passes only while nobody's is up and no answer is overdue.
LEMMA TokenTick_Inv ==
    ASSUME TokenInv, TokenTick
    PROVE  TokenInv'
<1>1. /\ clock \in 0..MaxClock /\ clock < MaxClock /\ clock' = clock + 1
      /\ token' = token /\ exchange' = exchange /\ caller' = caller
      /\ TokenTypeOK /\ TokensLast /\ ExchangesTimely /\ ReadyInTime
      /\ WaitersInTime /\ FailuresCurrent
  BY DEF TokenTick, TokenInv, TokenTypeOK
<1>2. clock \in Nat /\ clock' \in 0..MaxClock
  BY <1>1, Times
<1>3. TokenTypeOK' /\ TokensLast' /\ FailuresCurrent'
  BY <1>1, <1>2 DEF TokenTypeOK, TokensLast, FailuresCurrent
<1>4. ExchangesTimely'
  <2> SUFFICES ASSUME NEW s \in Subjects, exchange[s] # NoExchange
               PROVE  /\ exchange[s].until # Never
                         => /\ clock + 1 <= exchange[s].until
                            /\ exchange[s].until <= clock + 1 + Timeout
                      /\ exchange[s].issued # Never
                         => /\ exchange[s].issued <= clock + 1
                            /\ clock + 1 <= exchange[s].issued + Delay
    BY <1>1 DEF ExchangesTimely
  <2>1. exchange[s].until \in Nat /\ exchange[s].issued \in Nat
    BY <1>1 DEF TokenTypeOK, Exchange
  <2>2. /\ clock # exchange[s].until
        /\ exchange[s].issued # Never => clock < exchange[s].issued + Delay
    BY DEF TokenTick
  <2> QED
    BY <1>1, <1>2, <2>1, <2>2, Times DEF ExchangesTimely
<1>5. ReadyInTime'
  <2> SUFFICES ASSUME NEW c \in Callers, caller[c].pc = "ready"
               PROVE  /\ caller[c].since <= clock + 1
                      /\ clock + 1 <= caller[c].since + Limit(c)
                      /\ caller[c].since + Limit(c) < caller[c].dies
    BY <1>1 DEF ReadyInTime, Limit
  <2>1. caller[c].since \in Nat
    BY <1>1 DEF TokenTypeOK, Doing
  <2>2. clock < caller[c].since + Limit(c)
    BY <1>2, <2>1, Times DEF TokenTick, Overdue
  <2> QED
    BY <1>1, <1>2, <2>1, <2>2, Times DEF ReadyInTime
<1>6. WaitersInTime'
  <2>1. \A c \in Callers : caller[c].pc = "waiting" => caller[c].since \in Nat
    BY <1>1 DEF TokenTypeOK, Doing
  <2> QED
    BY <1>1, <1>2, <2>1 DEF WaitersInTime
<1> QED
  BY <1>3, <1>4, <1>5, <1>6 DEF TokenInv

LEMMA TokenNext_Inv == TokenInv /\ [TokenNext]_tokenVars => TokenInv'
<1> SUFFICES ASSUME TokenInv, [TokenNext]_tokenVars
             PROVE  TokenInv'
  OBVIOUS
<1>1. ASSUME NEW c \in Callers, Leave(c) PROVE TokenInv'
  BY <1>1, Leave_Inv
<1>2. ASSUME NEW c \in Callers, NEW s \in Subjects, Ask(c, s) PROVE TokenInv'
  BY <1>2, Ask_Inv
<1>3. ASSUME NEW s \in Subjects, Issue(s) \/ Answer(s) \/ ExchangeFails(s)
      PROVE TokenInv'
  BY <1>3, Issue_Inv, Answer_Inv, ExchangeFails_Inv
<1>4. CASE TokenTick
  BY <1>4, TokenTick_Inv
<1>5. CASE UNCHANGED tokenVars
  BY <1>5 DEF tokenVars, TokenInv, TokenTypeOK, TokensLast, ExchangesTimely, ReadyInTime,
              WaitersInTime, FailuresCurrent, Limit
<1> QED
  BY <1>1, <1>2, <1>3, <1>4, <1>5 DEF TokenNext

-----------------------------------------------------------------------------
(* Theorems. *)

LEMMA TokenInv_Served == TokenInv => CallersServed
<1> SUFFICES ASSUME TokenInv
             PROVE  TokensAccepted /\ WaitsBounded
  BY DEF CallersServed, TokenInv
<1>1. /\ clock \in Nat /\ caller \in [Callers -> Doing]
      /\ exchange \in [Subjects -> Exchange \cup {NoExchange}]
      /\ ExchangesTimely /\ ReadyInTime /\ WaitersInTime
  BY DEF TokenInv, TokenTypeOK
<1>2. TokensAccepted
  <2> SUFFICES ASSUME NEW c \in Callers, caller[c].pc = "ready"
               PROVE  clock < caller[c].dies
    BY DEF TokensAccepted
  <2>1. caller[c].since \in Nat /\ caller[c].dies \in Nat
    BY <1>1 DEF Doing
  <2> QED
    BY <1>1, <2>1, Times DEF ReadyInTime
<1>3. WaitsBounded
  <2> SUFFICES ASSUME NEW c \in Callers, caller[c].pc = "waiting",
                      NEW s, s = caller[c].subject
               PROVE  /\ exchange[s] # NoExchange
                      /\ c \in Timed /\ clock > caller[c].since + 2 * Timeout
                         => exchange[s].until = Never
    BY DEF WaitsBounded
  <2>1. caller[c].since \in Nat /\ s \in Subjects /\ exchange[s] # NoExchange
    BY <1>1 DEF Doing, WaitersInTime
  <2>2. exchange[s].until \in Nat
    BY <1>1, <2>1 DEF Exchange
  <2>3. c \in Timed /\ exchange[s].until # Never
        => clock <= exchange[s].until /\ exchange[s].until <= caller[c].since + 2 * Timeout
    BY <1>1, <2>1 DEF ExchangesTimely, WaitersInTime
  <2> QED
    BY <1>1, <2>1, <2>2, <2>3, Times
<1> QED
  BY <1>2, <1>3

\* However many calls, bookings and sweeps share the tokens and the exchanges of
\* any number of users: what a caller sends in its time Google accepts; the failure
\* it is told of happened while it waited, be it that the caller it joined ran out
\* of time; and it waits for an exchange that is under way, past twice its timeout
\* only for one nothing aborts.
THEOREM Served == TokenSpec => []CallersServed
<1>1. TokenSpec => []TokenInv
  BY TokenInit_Inv, TokenNext_Inv, PTL DEF TokenSpec
<1> QED
  BY <1>1, TokenInv_Served, PTL

-----------------------------------------------------------------------------
(* Owners: the inductive invariant. *)

WaitState == [pc : {"idle"}]
    \cup [pc : {"searching"}, lead : Prospects, deadline : Nat, sent : Nat]
    \cup [pc : {"fetching"}, lead : Prospects, deadline : Nat, sent : Nat, owner : Owners]
    \cup [pc : {"sleeping"}, lead : Prospects, deadline : Nat, until : Nat]
    \cup [pc : {"done"}, lead : Prospects, deadline : Nat, ended : Nat,
          owner : Owners \cup {NoOwner}, failed : BOOLEAN]

OwnerTypeOK ==
    /\ time \in Moments
    /\ assigned \in [Prospects -> [Moments -> Owners \cup {NoOwner}]]
    /\ profile \in [Owners -> [Moments -> BOOLEAN]]
    /\ ownerCache \in [Owners -> CachedOwner \cup {NotCached}]
    /\ wait \in [Waits -> WaitState]

\* What is remembered of an owner was so a request before it was remembered, at
\* most.
CacheRecent ==
    \A o \in Owners : ownerCache[o] # NotCached =>
        \E t \in 0..time : /\ profile[o][t] = ownerCache[o].known
                           /\ ownerCache[o].expiresAt <= t + OwnerTtl + RequestTime

\* A search is sent while there is time, the last one when the time is up.
SearchTimely(x) ==
    x.pc = "searching" =>
        /\ x.sent <= time /\ time <= x.sent + RequestTime
        /\ x.sent <= x.deadline /\ x.deadline <= x.sent + OwnerWaitTime

\* The owner that is asked for was the lead's while the search was under way.
FetchTimely(x) ==
    x.pc = "fetching" =>
        /\ x.sent <= time /\ time <= x.sent + RequestTime
        /\ x.sent <= x.deadline + RequestTime
        /\ \E t \in 0..time : /\ assigned[x.lead][t] = x.owner
                              /\ x.deadline <= t + OwnerWaitTime
                              /\ x.sent <= t + RequestTime

\* Nobody sleeps past the deadline.
SleepTimely(x) ==
    x.pc = "sleeping" =>
        time <= x.until /\ x.until <= x.deadline /\ x.deadline <= time + OwnerWaitTime

\* What OwnerFound asks of a wait that is over.
EndRight(x) ==
    x.pc = "done" =>
        /\ x.ended <= x.deadline + 2 * RequestTime
        /\ x.owner # NoOwner =>
              /\ \E t \in 0..x.ended : /\ x.deadline <= t + OwnerWaitTime
                                       /\ assigned[x.lead][t] = x.owner
              /\ SaidOf(x.owner, TRUE, x.ended)
        /\ x.owner = NoOwner /\ ~x.failed =>
              \E t \in 0..x.ended :
                  /\ x.deadline <= t + 2 * RequestTime
                  /\ LET o == assigned[x.lead][t]
                     IN  o # NoOwner => SaidOf(o, FALSE, x.ended)

WaitRight(x) == SearchTimely(x) /\ FetchTimely(x) /\ SleepTimely(x) /\ EndRight(x)

OwnerInv ==
    /\ OwnerTypeOK
    /\ CacheRecent
    /\ \A w \in Waits : WaitRight(wait[w])

-----------------------------------------------------------------------------
(* What follows a lookup. *)

\* What the times may be.
LEMMA OwnerTimes ==
    /\ OwnerWaitTime \in Nat /\ PollInterval \in Nat /\ RequestTime \in Nat
    /\ OwnerTtl \in Nat \ {0} /\ LastMoment \in Nat /\ NoOwner \notin Owners
    /\ Moments = 0..LastMoment
BY OwnerAssumption DEF OwnerAssumption, Moments

\* A lookup that found nobody, for a reason, ends the wait or puts it to sleep.
LEMMA MissedRight ==
    ASSUME OwnerTypeOK, NEW l \in Prospects, NEW d \in Nat, NEW failed \in BOOLEAN,
           time <= d + 2 * RequestTime, d <= time + OwnerWaitTime,
           ~failed => \E t \in 0..time :
               /\ d <= time => d <= t + 2 * RequestTime
               /\ LET o == assigned[l][t] IN o # NoOwner => SaidOf(o, FALSE, time)
    PROVE  Missed(l, d, failed) \in WaitState /\ WaitRight(Missed(l, d, failed))
<1> DEFINE x == Missed(l, d, failed)
           u == IF time + PollInterval < d THEN time + PollInterval ELSE d
<1>1. time \in Nat
  BY OwnerTimes DEF OwnerTypeOK
<1>2. CASE time >= d
  <2>1. x = [pc |-> "done", lead |-> l, deadline |-> d, ended |-> time,
             owner |-> NoOwner, failed |-> failed]
    BY <1>2 DEF Missed, Done
  <2>2. x \in WaitState
    BY <1>1, <2>1 DEF WaitState
  <2>3. SearchTimely(x) /\ FetchTimely(x) /\ SleepTimely(x)
    BY <2>1 DEF SearchTimely, FetchTimely, SleepTimely
  <2>4. EndRight(x)
    <3>1. ~failed => \E t \in 0..time :
               /\ d <= t + 2 * RequestTime
               /\ LET o == assigned[l][t] IN o # NoOwner => SaidOf(o, FALSE, time)
      BY <1>1, <1>2
    <3>2. /\ x.ended = time /\ x.deadline = d /\ x.lead = l
          /\ x.owner = NoOwner /\ x.failed = failed
      BY <2>1
    <3> HIDE DEF x
    <3> QED
      BY <3>1, <3>2 DEF EndRight
  <2> QED
    BY <2>2, <2>3, <2>4 DEF WaitRight
<1>3. CASE ~(time >= d)
  <2>1. x = [pc |-> "sleeping", lead |-> l, deadline |-> d, until |-> u]
    BY <1>3 DEF Missed
  <2>2. u \in Nat /\ time <= u /\ u <= d
    BY <1>1, <1>3, OwnerTimes
  <2> HIDE DEF u
  <2>3. x \in WaitState
    BY <2>1, <2>2 DEF WaitState
  <2>4. SearchTimely(x) /\ FetchTimely(x) /\ SleepTimely(x) /\ EndRight(x)
    BY <2>1, <2>2 DEF SearchTimely, FetchTimely, SleepTimely, EndRight
  <2> QED
    BY <2>3, <2>4 DEF WaitRight
<1> QED
  BY <1>2, <1>3

\* So does one that was told of the lead's owner, unless it returns that owner.
LEMMA FoundRight ==
    ASSUME OwnerTypeOK, NEW l \in Prospects, NEW d \in Nat, NEW o \in Owners,
           NEW known \in BOOLEAN, time <= d + 2 * RequestTime, d <= time + OwnerWaitTime,
           NEW t \in 0..time, assigned[l][t] = o, d <= t + OwnerWaitTime,
           time <= t + 2 * RequestTime, SaidOf(o, known, time)
    PROVE  Found(l, d, o, known) \in WaitState /\ WaitRight(Found(l, d, o, known))
<1> DEFINE x == Found(l, d, o, known)
<1>1. time \in Nat /\ t \in Nat
  BY OwnerTimes DEF OwnerTypeOK
<1>2. CASE known
  <2>1. x = [pc |-> "done", lead |-> l, deadline |-> d, ended |-> time,
             owner |-> o, failed |-> FALSE]
    BY <1>2 DEF Found, Done
  <2>2. x \in WaitState
    BY <1>1, <2>1 DEF WaitState
  <2>3. SearchTimely(x) /\ FetchTimely(x) /\ SleepTimely(x)
    BY <2>1 DEF SearchTimely, FetchTimely, SleepTimely
  <2>4. SaidOf(o, TRUE, time) /\ o # NoOwner
    BY <1>2, OwnerTimes
  <2>5. EndRight(x)
    <3>1. /\ x.ended = time /\ x.deadline = d /\ x.lead = l /\ x.owner = o
      BY <2>1
    <3> HIDE DEF x
    <3> QED
      BY <2>4, <3>1 DEF EndRight
  <2> QED
    BY <2>2, <2>3, <2>5 DEF WaitRight
<1>3. CASE ~known
  <2>1. x = Missed(l, d, FALSE) /\ SaidOf(o, FALSE, time)
    BY <1>3 DEF Found
  <2>2. d <= time => d <= t + 2 * RequestTime
    BY <1>1, OwnerTimes
  <2> QED
    BY <2>1, <2>2, MissedRight
<1> QED
  BY <1>2, <1>3

-----------------------------------------------------------------------------
(* Every step keeps it. *)

\* One wait goes on; what is right of it and of the others depends on what did not
\* change.
LEMMA WaitGoesOn ==
    ASSUME OwnerTypeOK, \A v \in Waits : WaitRight(wait[v]), NEW w \in Waits,
           NEW x \in WaitState, WaitRight(x), wait' = [wait EXCEPT ![w] = x],
           UNCHANGED <<time, assigned, profile>>
    PROVE  wait' \in [Waits -> WaitState] /\ (\A v \in Waits : WaitRight(wait[v]))'
<1>1. wait' \in [Waits -> WaitState]
  BY DEF OwnerTypeOK
<1>2. ASSUME NEW v \in Waits PROVE WaitRight(wait[v])'
  <2> DEFINE y == wait'[v]
  <2>1. WaitRight(y)
    BY DEF OwnerTypeOK
  <2>2. /\ WaitRight(wait[v])' <=> /\ SearchTimely(wait[v])' /\ FetchTimely(wait[v])'
                                   /\ SleepTimely(wait[v])' /\ EndRight(wait[v])'
    BY DEF WaitRight
  <2>3. SearchTimely(wait[v])' /\ SleepTimely(wait[v])'
    BY <2>1 DEF WaitRight, SearchTimely, SleepTimely
  <2>4. FetchTimely(wait[v])'
    BY <2>1 DEF WaitRight, FetchTimely
  <2>5. EndRight(wait[v])'
    BY <2>1 DEF WaitRight, EndRight, SaidOf
  <2> QED
    BY <2>2, <2>3, <2>4, <2>5
<1> QED
  BY <1>1, <1>2

\* Who waits for an answer is in time for it.
LEMMA InTime ==
    ASSUME OwnerInv, NEW w \in Waits, wait[w].pc \in {"searching", "fetching"}
    PROVE  /\ wait[w].lead \in Prospects /\ wait[w].deadline \in Nat /\ wait[w].sent \in Nat
           /\ time \in Nat /\ wait[w].sent <= time /\ time <= wait[w].sent + RequestTime
           /\ time <= wait[w].deadline + 2 * RequestTime
           /\ wait[w].deadline <= time + OwnerWaitTime
           /\ wait[w].pc = "fetching" => wait[w].owner \in Owners
<1> DEFINE x == wait[w]
<1>1. x \in WaitState /\ time \in Nat /\ WaitRight(x)
  BY OwnerTimes DEF OwnerInv, OwnerTypeOK
<1> HIDE DEF x
<1>2. x.pc \in {"searching", "fetching"}
  BY DEF x
<1>3. /\ x.lead \in Prospects /\ x.deadline \in Nat /\ x.sent \in Nat
      /\ x.pc = "fetching" => x.owner \in Owners
  BY <1>1, <1>2 DEF WaitState
<1>4. CASE x.pc = "searching"
  BY <1>1, <1>3, <1>4, OwnerTimes DEF WaitRight, SearchTimely, x
<1>5. CASE x.pc = "fetching"
  <2>1. PICK t \in 0..time : x.deadline <= t + OwnerWaitTime
    BY <1>1, <1>5 DEF WaitRight, FetchTimely
  <2>2. /\ x.sent <= time /\ time <= x.sent + RequestTime /\ x.sent <= x.deadline + RequestTime
    BY <1>1, <1>5 DEF WaitRight, FetchTimely
  <2>3. time <= x.deadline + 2 * RequestTime /\ x.deadline <= time + OwnerWaitTime
    BY <1>1, <1>3, <2>1, <2>2, OwnerTimes
  <2> QED
    BY <1>1, <1>3, <2>2, <2>3 DEF x
<1> QED
  BY <1>2, <1>4, <1>5

LEMMA OwnerInit_Inv == OwnerInit => OwnerInv
<1> SUFFICES ASSUME OwnerInit PROVE OwnerInv
  OBVIOUS
<1>1. OwnerTypeOK
  <2>1. assigned \in [Prospects -> [Moments -> Owners \cup {NoOwner}]]
    BY OwnerAssumption DEF OwnerInit, OwnerAssumption
  <2>2. profile \in [Owners -> [Moments -> BOOLEAN]]
    BY OwnerAssumption DEF OwnerInit, OwnerAssumption
  <2> QED
    BY <2>1, <2>2, OwnerTimes DEF OwnerInit, OwnerTypeOK, NoWait, WaitState
<1>2. CacheRecent
  BY DEF OwnerInit, CacheRecent
<1>3. \A w \in Waits : WaitRight(wait[w])
  BY DEF OwnerInit, NoWait, WaitRight, SearchTimely, FetchTimely, SleepTimely, EndRight
<1> QED
  BY <1>1, <1>2, <1>3 DEF OwnerInv

LEMMA Begin_Inv ==
    ASSUME OwnerInv, NEW w \in Waits, NEW l \in Prospects, Begin(w, l)
    PROVE  OwnerInv'
<1> DEFINE x == Search(l, time + OwnerWaitTime)
<1>1. time \in Nat
  BY OwnerTimes DEF OwnerInv, OwnerTypeOK
<1>2. x \in WaitState /\ WaitRight(x)
  BY <1>1, OwnerTimes DEF Search, WaitState, WaitRight, SearchTimely, FetchTimely, SleepTimely,
                          EndRight
<1>3. wait' \in [Waits -> WaitState] /\ (\A v \in Waits : WaitRight(wait[v]))'
  BY <1>2, WaitGoesOn DEF OwnerInv, Begin
<1> QED
  BY <1>3 DEF OwnerInv, OwnerTypeOK, CacheRecent, Begin

LEMMA Wake_Inv ==
    ASSUME OwnerInv, NEW w \in Waits, Wake(w)
    PROVE  OwnerInv'
<1> DEFINE l == wait[w].lead
           d == wait[w].deadline
           x == Search(l, d)
<1>1. wait[w] \in WaitState /\ time \in Nat /\ wait[w].pc = "sleeping"
  BY OwnerTimes DEF OwnerInv, OwnerTypeOK, Wake
<1>2. l \in Prospects /\ d \in Nat
  BY <1>1 DEF WaitState
<1>3. time <= d /\ d <= time + OwnerWaitTime
  BY <1>1 DEF OwnerInv, WaitRight, SleepTimely, Wake
<1> HIDE DEF l, d
<1>4. x \in WaitState /\ WaitRight(x)
  BY <1>1, <1>2, <1>3, OwnerTimes DEF Search, WaitState, WaitRight, SearchTimely, FetchTimely,
                                      SleepTimely, EndRight
<1>5. wait' \in [Waits -> WaitState] /\ (\A v \in Waits : WaitRight(wait[v]))'
  BY <1>4, WaitGoesOn DEF OwnerInv, Wake, l, d
<1> QED
  BY <1>5 DEF OwnerInv, OwnerTypeOK, CacheRecent, Wake

LEMMA RequestFails_Inv ==
    ASSUME OwnerInv, NEW w \in Waits, RequestFails(w)
    PROVE  OwnerInv'
<1> DEFINE x == Missed(wait[w].lead, wait[w].deadline, TRUE)
<1>1. x \in WaitState /\ WaitRight(x)
  BY InTime, MissedRight DEF RequestFails, OwnerInv
<1>2. wait' \in [Waits -> WaitState] /\ (\A v \in Waits : WaitRight(wait[v]))'
  BY <1>1, WaitGoesOn DEF OwnerInv, RequestFails
<1> QED
  BY <1>2 DEF OwnerInv, OwnerTypeOK, CacheRecent, RequestFails

LEMMA SearchAnswered_Inv ==
    ASSUME OwnerInv, NEW w \in Waits, NEW t \in Moments, SearchAnswered(w, t)
    PROVE  OwnerInv'
<1> DEFINE l == wait[w].lead
           d == wait[w].deadline
           s == wait[w].sent
           o == assigned[l][t]
           x == IF o = NoOwner THEN Missed(l, d, FALSE)
                ELSE IF Fresh(o) THEN Found(l, d, o, ownerCache[o].known)
                ELSE Fetch(l, d, o)
<1>1. /\ wait[w].pc = "searching" /\ t \in s..time /\ wait' = [wait EXCEPT ![w] = x]
      /\ UNCHANGED <<time, assigned, profile, ownerCache>>
  BY DEF SearchAnswered
<1>2. /\ l \in Prospects /\ d \in Nat /\ s \in Nat /\ time \in Nat
      /\ s <= time /\ time <= s + RequestTime
      /\ time <= d + 2 * RequestTime /\ d <= time + OwnerWaitTime
  BY <1>1, InTime
<1>3. d <= s + OwnerWaitTime /\ s <= d
  BY <1>1 DEF OwnerInv, WaitRight, SearchTimely
<1>4. o \in Owners \cup {NoOwner}
  BY <1>2 DEF OwnerInv, OwnerTypeOK
<1> HIDE DEF l, d, s
<1>5. /\ t \in 0..time /\ d <= t + OwnerWaitTime /\ time <= t + RequestTime
      /\ time <= t + 2 * RequestTime /\ time <= d + RequestTime /\ t \in Nat
  BY <1>1, <1>2, <1>3, OwnerTimes
<1>6. x \in WaitState /\ WaitRight(x)
  <2>1. CASE o = NoOwner
    <3>1. d <= time => d <= t + 2 * RequestTime
      BY <1>2, <1>5, OwnerTimes
    <3>2. x = Missed(l, d, FALSE)
      BY <2>1
    <3> QED
      BY <1>2, <1>5, <2>1, <3>1, <3>2, MissedRight DEF OwnerInv
  <2>2. CASE o # NoOwner /\ Fresh(o)
    <3> DEFINE known == ownerCache[o].known
    <3>1. /\ o \in Owners /\ ownerCache[o] # NotCached /\ ownerCache[o] \in CachedOwner
          /\ time < ownerCache[o].expiresAt
      BY <1>2, <1>4, <2>2 DEF Fresh, OwnerInv, OwnerTypeOK, CachedOwner
    <3>2. known \in BOOLEAN /\ ownerCache[o].expiresAt \in Nat
      BY <3>1 DEF CachedOwner
    <3>3. PICK m \in 0..time : /\ profile[o][m] = known
                               /\ ownerCache[o].expiresAt <= m + OwnerTtl + RequestTime
      BY <3>1 DEF OwnerInv, CacheRecent
    <3>4. SaidOf(o, known, time)
      BY <1>2, <3>1, <3>2, <3>3, OwnerTimes DEF SaidOf
    <3>5. x = Found(l, d, o, known)
      BY <2>2
    <3> HIDE DEF known, x
    <3> QED
      BY <1>2, <1>5, <3>1, <3>2, <3>4, <3>5, FoundRight DEF OwnerInv
  <2>3. CASE o # NoOwner /\ ~Fresh(o)
    <3>1. x = [pc |-> "fetching", lead |-> l, deadline |-> d, sent |-> time, owner |-> o]
          /\ o \in Owners /\ assigned[l][t] = o
      BY <1>4, <2>3 DEF Fetch
    <3> HIDE DEF x, o
    <3>2. x \in WaitState
      BY <1>2, <3>1 DEF WaitState
    <3>3. SearchTimely(x) /\ SleepTimely(x) /\ EndRight(x)
      BY <3>1 DEF SearchTimely, SleepTimely, EndRight
    <3>4. FetchTimely(x)
      <4>1. x.sent = time /\ x.lead = l /\ x.deadline = d /\ x.owner = o
        BY <3>1
      <4> QED
        BY <1>2, <1>5, <3>1, <4>1, OwnerTimes DEF FetchTimely
    <3> QED
      BY <3>2, <3>3, <3>4 DEF WaitRight
  <2> QED
    BY <2>1, <2>2, <2>3
<1>7. wait' \in [Waits -> WaitState] /\ (\A v \in Waits : WaitRight(wait[v]))'
  BY <1>1, <1>6, WaitGoesOn DEF OwnerInv
<1> QED
  BY <1>1, <1>7 DEF OwnerInv, OwnerTypeOK, CacheRecent

LEMMA OwnerAnswered_Inv ==
    ASSUME OwnerInv, NEW w \in Waits, NEW t \in Moments, OwnerAnswered(w, t)
    PROVE  OwnerInv'
<1> DEFINE l == wait[w].lead
           d == wait[w].deadline
           s == wait[w].sent
           o == wait[w].owner
           known == profile[o][t]
           entry == [known |-> known, expiresAt |-> time + OwnerTtl]
           x == Found(l, d, o, known)
<1>1. /\ wait[w].pc = "fetching" /\ t \in s..time /\ wait' = [wait EXCEPT ![w] = x]
      /\ ownerCache' = [ownerCache EXCEPT ![o] = entry]
      /\ UNCHANGED <<time, assigned, profile>>
  BY DEF OwnerAnswered
<1>2. /\ l \in Prospects /\ d \in Nat /\ s \in Nat /\ time \in Nat /\ o \in Owners
      /\ s <= time /\ time <= s + RequestTime
      /\ time <= d + 2 * RequestTime /\ d <= time + OwnerWaitTime
  BY <1>1, InTime
<1>3. PICK m \in 0..time : assigned[l][m] = o /\ d <= m + OwnerWaitTime /\ s <= m + RequestTime
  BY <1>1 DEF OwnerInv, WaitRight, FetchTimely
<1>4. known \in BOOLEAN
  BY <1>2 DEF OwnerInv, OwnerTypeOK
<1> HIDE DEF l, d, s, o
<1>5. t \in 0..time /\ time <= t + RequestTime /\ time <= m + 2 * RequestTime
  BY <1>1, <1>2, <1>3, OwnerTimes
<1>6. SaidOf(o, known, time)
  <2>1. time < t + OwnerTtl + RequestTime
    BY <1>2, <1>5, OwnerTimes
  <2> QED
    BY <1>5, <2>1 DEF SaidOf
<1> HIDE DEF known
<1>7. x \in WaitState /\ WaitRight(x)
  BY <1>2, <1>3, <1>4, <1>5, <1>6, FoundRight DEF OwnerInv
<1>8. wait' \in [Waits -> WaitState] /\ (\A v \in Waits : WaitRight(wait[v]))'
  BY <1>1, <1>7, WaitGoesOn DEF OwnerInv
<1>9. ownerCache' \in [Owners -> CachedOwner \cup {NotCached}]
  <2>1. entry \in CachedOwner
    BY <1>2, <1>4, OwnerTimes DEF CachedOwner
  <2> QED
    BY <1>1, <2>1 DEF OwnerInv, OwnerTypeOK
<1>10. CacheRecent'
  <2> SUFFICES ASSUME NEW p \in Owners, ownerCache'[p] # NotCached
               PROVE  \E n \in 0..time : /\ profile[p][n] = ownerCache'[p].known
                                         /\ ownerCache'[p].expiresAt
                                                <= n + OwnerTtl + RequestTime
    BY <1>1 DEF CacheRecent
  <2>1. CASE p = o
    <3>1. ownerCache'[p] = entry
      BY <1>1, <2>1 DEF OwnerInv, OwnerTypeOK
    <3>2. entry.expiresAt <= t + OwnerTtl + RequestTime
      BY <1>2, <1>5, OwnerTimes
    <3> QED
      BY <1>5, <2>1, <3>1, <3>2 DEF known
  <2>2. CASE p # o
    BY <1>1, <2>2 DEF OwnerInv, OwnerTypeOK, CacheRecent
  <2> QED
    BY <2>1, <2>2
<1> QED
  BY <1>1, <1>8, <1>9, <1>10 DEF OwnerInv, OwnerTypeOK

LEMMA TimePasses_Inv ==
    ASSUME OwnerInv, TimePasses
    PROVE  OwnerInv'
<1>1. /\ time \in 0..LastMoment /\ time' = time + 1 /\ time' \in Moments
      /\ UNCHANGED <<assigned, profile, ownerCache, wait>>
  BY OwnerTimes DEF OwnerInv, OwnerTypeOK, TimePasses
<1>2. 0..time \subseteq 0..time'
  BY <1>1, OwnerTimes
<1>3. OwnerTypeOK'
  BY <1>1 DEF OwnerInv, OwnerTypeOK
<1>4. CacheRecent'
  BY <1>1, <1>2 DEF OwnerInv, CacheRecent
<1>5. ASSUME NEW w \in Waits PROVE WaitRight(wait[w])'
  <2> DEFINE x == wait[w]
  <2>1. WaitRight(x) /\ x \in WaitState
    BY DEF OwnerInv, OwnerTypeOK
  <2>2. /\ x.pc \in {"searching", "fetching"} => time < x.sent + RequestTime /\ x.sent \in Nat
        /\ x.pc = "sleeping" => time < x.until /\ x.until \in Nat /\ x.deadline \in Nat
    BY <2>1 DEF TimePasses, WaitState
  <2>3. x' = x
    BY <1>1
  <2> HIDE DEF x
  <2>4. SearchTimely(x)' /\ SleepTimely(x)'
    BY <1>1, <2>1, <2>2, <2>3, OwnerTimes DEF WaitRight, SearchTimely, SleepTimely
  <2>5. FetchTimely(x)'
    BY <1>1, <1>2, <2>1, <2>2, <2>3, OwnerTimes DEF WaitRight, FetchTimely
  <2>6. EndRight(x)'
    BY <1>1, <2>1, <2>3 DEF WaitRight, EndRight, SaidOf
  <2>7. WaitRight(x)'
    BY <2>4, <2>5, <2>6 DEF WaitRight
  <2> QED
    BY <2>7 DEF x
<1> QED
  BY <1>3, <1>4, <1>5 DEF OwnerInv

LEMMA OwnerNext_Inv == OwnerInv /\ [OwnerNext]_ownerVars => OwnerInv'
<1> SUFFICES ASSUME OwnerInv, [OwnerNext]_ownerVars PROVE OwnerInv'
  OBVIOUS
<1>1. CASE UNCHANGED ownerVars
  BY <1>1 DEF ownerVars, OwnerInv, OwnerTypeOK, CacheRecent, WaitRight, SearchTimely,
              FetchTimely, SleepTimely, EndRight, SaidOf
<1>2. ASSUME NEW w \in Waits, NEW l \in Prospects, Begin(w, l) PROVE OwnerInv'
  BY <1>2, Begin_Inv
<1>3. ASSUME NEW w \in Waits, NEW t \in Moments, SearchAnswered(w, t) PROVE OwnerInv'
  BY <1>3, SearchAnswered_Inv
<1>4. ASSUME NEW w \in Waits, NEW t \in Moments, OwnerAnswered(w, t) PROVE OwnerInv'
  BY <1>4, OwnerAnswered_Inv
<1>5. ASSUME NEW w \in Waits, RequestFails(w) PROVE OwnerInv'
  BY <1>5, RequestFails_Inv
<1>6. ASSUME NEW w \in Waits, Wake(w) PROVE OwnerInv'
  BY <1>6, Wake_Inv
<1>7. CASE TimePasses
  BY <1>7, TimePasses_Inv
<1> QED
  BY <1>1, <1>2, <1>3, <1>4, <1>5, <1>6, <1>7 DEF OwnerNext

-----------------------------------------------------------------------------
(* The invariant is enough. *)

LEMMA OwnerInv_Found == OwnerInv => OwnerFound
<1> SUFFICES ASSUME OwnerInv, NEW w \in Waits
             PROVE  AnswerTrue(w) /\ NobodyTrue(w) /\ WaitOver(w)
  BY DEF OwnerFound
<1> DEFINE x == wait[w]
<1>1. WaitRight(x) /\ x \in WaitState /\ time \in Nat
  BY OwnerTimes DEF OwnerInv, OwnerTypeOK
<1>2. AnswerTrue(w) /\ NobodyTrue(w)
  BY <1>1 DEF WaitRight, EndRight, AnswerTrue, NobodyTrue
<1>3. WaitOver(w)
  <2>1. x.pc \in {"searching", "fetching"} => time <= x.deadline + 2 * RequestTime
    BY InTime
  <2>2. x.pc = "sleeping" => time <= x.deadline + 2 * RequestTime
    <3>1. x.pc = "sleeping" => x.until \in Nat /\ x.deadline \in Nat
      BY <1>1 DEF WaitState
    <3> QED
      BY <1>1, <3>1, OwnerTimes DEF WaitRight, SleepTimely
  <2>3. x.pc = "done" => x.ended <= x.deadline + 2 * RequestTime
    BY <1>1 DEF WaitRight, EndRight
  <2>4. x.pc \in {"idle", "searching", "fetching", "sleeping", "done"}
    BY <1>1 DEF WaitState
  <2> QED
    BY <2>1, <2>2, <2>3, <2>4 DEF WaitOver
<1> QED
  BY <1>2, <1>3

\* waitForOwner (src/hubspot/client.ts) finds an owner who is assigned while it
\* waits, invents none and is over in time, however many waits share the cache,
\* whatever becomes of leads and owners, for any deadline, interval and timeout.
THEOREM OwnersFound == OwnerSpec => []OwnerFound
<1>1. OwnerSpec => []OwnerInv
  BY OwnerInit_Inv, OwnerNext_Inv, PTL DEF OwnerSpec
<1> QED
  BY <1>1, OwnerInv_Found, PTL

-----------------------------------------------------------------------------
(* Slots: days and minutes. *)

\* The quotient and the remainder are the only ones.
LEMMA DivIs ==
    ASSUME NEW size \in Nat \ {0}, NEW q \in Int, NEW r \in 0..(size - 1)
    PROVE  (q * size + r) \div size = q /\ (q * size + r) % size = r
<1> DEFINE t == q * size + r
           d == t \div size
           m == t % size
<1>1. t \in Int /\ q * size \in Int
  OBVIOUS
<1> HIDE DEF t
<1>2. d \in Int /\ m \in 0..(size - 1) /\ t = d * size + m
  BY <1>1
<1> HIDE DEF d, m
<1>3. t = q * size + r
  BY DEF t
<1>4. CASE d + 1 <= q
  <2>1. (d + 1) * size <= q * size
    BY <1>2, <1>4
  <2>2. (d + 1) * size = d * size + size /\ d * size \in Int
    BY <1>2
  <2> QED
    BY <1>1, <1>2, <1>3, <2>1, <2>2
<1>5. CASE q + 1 <= d
  <2>1. (q + 1) * size <= d * size
    BY <1>2, <1>5
  <2>2. (q + 1) * size = q * size + size /\ d * size \in Int
    BY <1>2
  <2> QED
    BY <1>1, <1>2, <1>3, <2>1, <2>2
<1>6. CASE d = q
  BY <1>1, <1>2, <1>3, <1>6 DEF d, m, t
<1> QED
  BY <1>2, <1>4, <1>5, <1>6

LEMMA DivGrows ==
    ASSUME NEW size \in Nat \ {0}, NEW a \in Int, NEW b \in Int, a <= b
    PROVE  a \div size <= b \div size
<1> DEFINE p == a \div size
           q == b \div size
<1>1. /\ p \in Int /\ q \in Int
      /\ p * size <= a /\ p * size \in Int
      /\ b < q * size + size /\ q * size \in Int
  OBVIOUS
<1> HIDE DEF p, q
<1>2. CASE q + 1 <= p
  <2>1. (q + 1) * size <= p * size
    BY <1>1, <1>2
  <2>2. (q + 1) * size = q * size + size
    BY <1>1
  <2> QED
    BY <1>1, <2>1, <2>2
<1> QED
  BY <1>1, <1>2 DEF p, q

LEMMA Divided ==
    ASSUME NEW size \in Nat \ {0}, NEW t \in Int
    PROVE  /\ t \div size \in Int /\ t % size \in 0..(size - 1)
           /\ (t \div size) * size \in Int
           /\ t = (t \div size) * size + (t % size)
<1> DEFINE q == t \div size
           r == t % size
<1>1. q \in Int /\ r \in 0..(size - 1) /\ t = size * q + r
  OBVIOUS
<1> HIDE DEF q, r
<1>2. size * q = q * size /\ q * size \in Int
  BY <1>1
<1>3. q \in Int /\ r \in 0..(size - 1) /\ q * size \in Int /\ t = q * size + r
  BY <1>1, <1>2
<1> QED
  BY <1>3 DEF q, r

\* What an instant looks like on a zone's clock.
LEMMA OnClock ==
    ASSUME NEW t \in Int, NEW zone \in Zone
    PROVE  /\ Offset(t, zone) \in {zone.before, zone.after} /\ Offset(t, zone) \in Int
           /\ LocalDay(t, zone) \in Int /\ LocalMinutes(t, zone) \in 0..(DayLength - 1)
           /\ LocalDay(t, zone) * DayLength \in Int
           /\ t + Offset(t, zone) = LocalDay(t, zone) * DayLength + LocalMinutes(t, zone)
<1>1. Offset(t, zone) \in {zone.before, zone.after} /\ Offset(t, zone) \in Int
  BY DEF Offset, Zone
<1> DEFINE l == t + Offset(t, zone)
<1>2. l \in Int /\ DayLength \in Nat \ {0}
  BY <1>1, SlotsAssumption
<1> HIDE DEF l
<1>3. /\ l \div DayLength \in Int /\ l % DayLength \in 0..(DayLength - 1)
      /\ (l \div DayLength) * DayLength \in Int
      /\ l = (l \div DayLength) * DayLength + (l % DayLength)
  BY <1>2, Divided
<1>4. /\ LocalDay(t, zone) = l \div DayLength /\ LocalMinutes(t, zone) = l % DayLength
      /\ t + Offset(t, zone) = l
  BY DEF LocalDay, LocalMinutes, l
<1> QED
  BY <1>1, <1>3, <1>4

LEMMA ByClock ==
    ASSUME NEW t \in Int, NEW zone \in Zone, NEW day \in Int,
           NEW minutes \in 0..(DayLength - 1),
           t + Offset(t, zone) = day * DayLength + minutes
    PROVE  LocalDay(t, zone) = day /\ LocalMinutes(t, zone) = minutes
BY DivIs, SlotsAssumption DEF LocalDay, LocalMinutes

\* A later instant is on no earlier day.
LEMMA DaysGoOn ==
    ASSUME NEW zone \in Zone, DaysAdvance(zone), NEW s \in Int, NEW t \in Int, s <= t
    PROVE  LocalDay(s, zone) <= LocalDay(t, zone)
<1> DEFINE b == zone.before
           a == zone.after
           c == zone.change
<1>1. /\ a \in Int /\ b \in Int /\ c \in Int /\ DayLength \in Nat \ {0}
      /\ (c - 1 + b) \div DayLength <= (c + a) \div DayLength
      /\ Offset(s, zone) = IF s < c THEN b ELSE a
      /\ Offset(t, zone) = IF t < c THEN b ELSE a
      /\ LocalDay(s, zone) = (s + Offset(s, zone)) \div DayLength
      /\ LocalDay(t, zone) = (t + Offset(t, zone)) \div DayLength
  BY SlotsAssumption DEF Zone, DaysAdvance, Offset, LocalDay
<1> HIDE DEF a, b, c
<1>2. CASE Offset(s, zone) = Offset(t, zone)
  <2> DEFINE o == Offset(s, zone)
             x == s + o
             y == t + o
  <2>1. x \in Int /\ y \in Int /\ x <= y
    BY <1>1
  <2>2. LocalDay(s, zone) = x \div DayLength /\ LocalDay(t, zone) = y \div DayLength
    BY <1>1, <1>2
  <2> HIDE DEF x, y
  <2> QED
    BY <1>1, <2>1, <2>2, DivGrows
<1>3. CASE s < c /\ c <= t
  <2> DEFINE x == s + b
             y == t + a
             u == c - 1 + b
             v == c + a
  <2>1. x \in Int /\ y \in Int /\ u \in Int /\ v \in Int /\ x <= u /\ v <= y
    BY <1>1, <1>3
  <2>2. LocalDay(s, zone) = x \div DayLength /\ LocalDay(t, zone) = y \div DayLength
    BY <1>1, <1>3
  <2>3. u \div DayLength <= v \div DayLength
    BY <1>1
  <2> HIDE DEF x, y, u, v
  <2>4. x \div DayLength <= u \div DayLength /\ v \div DayLength <= y \div DayLength
    BY <1>1, <2>1, DivGrows
  <2>5. /\ x \div DayLength \in Int /\ y \div DayLength \in Int
        /\ u \div DayLength \in Int /\ v \div DayLength \in Int
    BY <1>1, <2>1
  <2> QED
    BY <2>2, <2>3, <2>4, <2>5
<1> QED
  BY <1>1, <1>2, <1>3

\* The offset of a day's hours.
HoursOffset(day, start, end, zone) ==
    IF zone.change + zone.before <= day * DayLength + start THEN zone.after ELSE zone.before

\* Clocks that keep the time between two times of a day have one offset there: from
\* an instant that is not before the first to one that is not after the second.
LEMMA OneOffset ==
    ASSUME NEW zone \in Zone, NEW day \in Int, NEW start \in Int, NEW end \in Int,
           KeepsTime(day, start, end, zone),
           NEW s \in Int, NEW t \in Int, s <= t,
           day * DayLength + start <= s + Offset(s, zone),
           t + Offset(t, zone) <= day * DayLength + end
    PROVE  /\ Offset(s, zone) = HoursOffset(day, start, end, zone)
           /\ Offset(t, zone) = HoursOffset(day, start, end, zone)
<1> DEFINE b == zone.before
           a == zone.after
           c == zone.change
           x == day * DayLength + start
           y == day * DayLength + end
           o == HoursOffset(day, start, end, zone)
<1>1. /\ a \in Int /\ b \in Int /\ c \in Int /\ x \in Int /\ y \in Int
      /\ Offset(s, zone) = IF s < c THEN b ELSE a
      /\ Offset(t, zone) = IF t < c THEN b ELSE a
      /\ x <= s + Offset(s, zone) /\ t + Offset(t, zone) <= y
      /\ o = IF c + b <= x THEN a ELSE b
  BY SlotsAssumption DEF Zone, Offset, HoursOffset
<1>2. \/ b = a
      \/ c + b <= x /\ c + a <= x
      \/ c + b > y /\ c + a > y
  BY DEF KeepsTime
<1> HIDE DEF a, b, c, x, y, o
<1>3. CASE b = a
  BY <1>1, <1>3 DEF o
<1>4. CASE c + b <= x /\ c + a <= x
  BY <1>1, <1>4 DEF o
<1>5. CASE c + b > y /\ c + a > y
  BY <1>1, <1>5 DEF o
<1> QED
  BY <1>2, <1>3, <1>4, <1>5

\* Between two instants with one offset there is no other.
LEMMA OffsetBetween ==
    ASSUME NEW zone \in Zone, NEW s \in Int, NEW t \in Int, NEW u \in Int,
           s <= t, t <= u, Offset(s, zone) = Offset(u, zone)
    PROVE  Offset(t, zone) = Offset(s, zone)
BY DEF Offset, Zone

\* What zonedTimeToUtc finds shows the time it was asked for.
LEMMA Zoned ==
    ASSUME NEW zone \in Zone, NEW day \in Int, NEW minutes \in Int,
           Settled(day, minutes, zone)
    PROVE  LET t == ZonedTimeToUtc(day, minutes, zone)
           IN  t \in Int /\ t + Offset(t, zone) = day * DayLength + minutes
<1> DEFINE g == day * DayLength + minutes
           o == Offset(g, zone)
           t == ZonedTimeToUtc(day, minutes, zone)
<1>1. g \in Int /\ Offset(g - o, zone) = o
  BY SlotsAssumption DEF Settled
<1>2. t = g - ((g + o) - g)
  BY DEF ZonedTimeToUtc
<1> HIDE DEF g, t
<1>3. o \in Int
  BY <1>1, OnClock
<1> HIDE DEF o
<1>4. t = g - o
  BY <1>1, <1>2, <1>3
<1> QED
  BY <1>1, <1>3, <1>4 DEF g, t

\* What computeFreeSlots asks of the prospect's clock (inLeadDaytime) is that the slot
\* is within the hours of one day.
LEMMA LeadAgrees ==
    ASSUME NEW q \in Query, q.lead # NoLead, LeadRegular(q),
           NEW s \in Int, q.from <= s, s <= q.from + (q.days + 1) * DayLength
    PROVE  InLeadDaytime(s, q)
               <=> Within(s, q.duration, q.lead.zone, q.lead.hoursStart, q.lead.hoursEnd)
<1> DEFINE zone  == q.lead.zone
           start == q.lead.hoursStart
           end   == q.lead.hoursEnd
           dur   == q.duration
           e     == s + dur - 1
           last  == q.from + (q.days + 1) * DayLength
           d1    == LocalDay(s, zone)
           d2    == LocalDay(e, zone)
           m1    == LocalMinutes(s, zone)
           m2    == LocalMinutes(e, zone)
           o1    == Offset(s, zone)
           o2    == Offset(e, zone)
<1>1. /\ zone \in Zone /\ start \in Int /\ end \in Int /\ dur \in Nat \ {0}
      /\ q.from \in Int /\ last \in Int /\ DayLength \in Nat \ {0}
  <2>1. q.lead \in Lead /\ q.from \in Int /\ q.days \in Nat /\ dur \in Nat \ {0}
    BY DEF Query
  <2> QED
    BY <2>1, SlotsAssumption DEF Lead
<1>2. e \in Int /\ s <= e
  BY <1>1
<1>3. /\ DaysAdvance(zone) /\ dur <= DayLength
      /\ dur + zone.after - zone.before <= DayLength
      /\ \A day \in LocalDay(q.from, zone)..LocalDay(last, zone) :
             KeepsTime(day, start, end, zone)
  BY DEF LeadRegular
<1>4. /\ InLeadDaytime(s, q) <=> m1 >= start /\ m2 + 1 <= end /\ m2 + 1 > m1
      /\ Within(s, dur, zone, start, end) <=> d1 = d2 /\ m1 >= start /\ m2 < end
  BY DEF InLeadDaytime, Within
<1> HIDE DEF e, last
<1>5. /\ d1 \in Int /\ m1 \in 0..(DayLength - 1) /\ o1 \in Int
      /\ d1 * DayLength \in Int /\ s + o1 = d1 * DayLength + m1
  BY <1>1, OnClock
<1>6. /\ d2 \in Int /\ m2 \in 0..(DayLength - 1) /\ o2 \in Int
      /\ d2 * DayLength \in Int /\ e + o2 = d2 * DayLength + m2
  BY <1>1, <1>2, OnClock
<1>7. d1 <= d2 /\ d1 \in LocalDay(q.from, zone)..LocalDay(last, zone)
  <2>1. d1 <= d2
    BY <1>1, <1>2, <1>3, DaysGoOn
  <2>2. s <= last
    BY DEF last
  <2>3. LocalDay(q.from, zone) <= d1 /\ d1 <= LocalDay(last, zone)
    BY <1>1, <1>3, <2>2, DaysGoOn
  <2>4. LocalDay(q.from, zone) \in Int /\ LocalDay(last, zone) \in Int
    BY <1>1, OnClock
  <2> QED
    BY <1>5, <2>1, <2>3, <2>4
<1>8. /\ zone.before \in Int /\ zone.after \in Int /\ zone.change \in Int
      /\ o2 = o1 \/ o2 - o1 = zone.after - zone.before
  BY <1>1, <1>2 DEF Zone, Offset
<1>9. e - s = dur - 1
  BY <1>1 DEF e
<1> HIDE DEF zone, start, end, dur, d1, d2, m1, m2, o1, o2
<1>10. ASSUME d1 = d2, m1 >= start, m2 < end PROVE m2 + 1 <= end /\ m2 + 1 > m1
  <2>1. KeepsTime(d1, start, end, zone)
    BY <1>3, <1>7
  <2>2. d1 * DayLength + start <= s + o1 /\ e + o2 <= d1 * DayLength + end
    BY <1>1, <1>5, <1>6, <1>10
  <2>3. o1 = o2
    <3>1. /\ d1 * DayLength + start <= s + Offset(s, zone)
          /\ e + Offset(e, zone) <= d1 * DayLength + end
      BY <2>2 DEF o1, o2
    <3> QED
      BY <1>1, <1>2, <1>5, <2>1, <3>1, OneOffset DEF o1, o2
  <2> QED
    BY <1>1, <1>2, <1>5, <1>6, <1>10, <2>3
<1>11. ASSUME m2 + 1 > m1 PROVE d1 = d2
  <2>1. CASE d1 + 1 <= d2
    <3>1. (d1 + 1) * DayLength <= d2 * DayLength
      BY <1>1, <1>5, <1>6, <2>1
    <3>2. (d1 + 1) * DayLength = d1 * DayLength + DayLength
      BY <1>1, <1>5
    <3>3. (e - s) + (o2 - o1) >= DayLength
      BY <1>1, <1>2, <1>5, <1>6, <1>11, <3>1, <3>2
    <3> QED
      BY <1>1, <1>3, <1>5, <1>6, <1>8, <1>9, <3>3
  <2> QED
    BY <1>5, <1>6, <1>7, <2>1
<1>12. InLeadDaytime(s, q) <=> Within(s, dur, zone, start, end)
  BY <1>1, <1>4, <1>5, <1>6, <1>10, <1>11
<1> QED
  BY <1>12 DEF zone, start, end, dur

-----------------------------------------------------------------------------
(* Slots: the hours of a day. *)

LEMMA SlotTypes ==
    ASSUME NEW q \in Query
    PROVE  /\ q.from \in Int /\ q.days \in Nat \ {0} /\ q.duration \in Nat \ {0}
           /\ q.limit \in Nat \ {0} /\ q.lead \in Lead \cup {NoLead}
           /\ DayLength \in Nat \ {0} /\ WeekLength \in Nat \ {0} /\ SlotMinutes \in Nat \ {0}
           /\ HoursStart \in 0..(DayLength - 1) /\ HoursEnd \in 0..DayLength
BY SlotsAssumption DEF Query

\* Where the i-th day of a query begins and ends.
LEMMA DayHours ==
    ASSUME NEW q \in Query, NEW zone \in Zone, Regular(q, zone), NEW i \in 0..q.days - 1
    PROVE  LET day == LocalDay(q.from, zone) + i
               ds  == DayStart(i, q, zone)
               de  == DayEnd(i, q, zone)
           IN  /\ day \in Int
               /\ ds \in Int /\ ds + Offset(ds, zone) = day * DayLength + HoursStart
               /\ Weekday(ds, zone) = day % WeekLength
               /\ day % WeekLength \in WorkingDays =>
                      /\ de \in Int /\ de + Offset(de, zone) = day * DayLength + HoursEnd
                      /\ KeepsTime(day, HoursStart, HoursEnd, zone)
<1> DEFINE day == LocalDay(q.from, zone) + i
           ds  == DayStart(i, q, zone)
           de  == DayEnd(i, q, zone)
<1>1. /\ LocalDay(q.from, zone) \in Int /\ day \in Int
      /\ HoursStart \in 0..(DayLength - 1) /\ HoursStart \in Int /\ HoursEnd \in Int
  <2>1. q.from \in Int /\ HoursStart \in 0..(DayLength - 1) /\ HoursEnd \in 0..DayLength
    BY SlotTypes
  <2>2. LocalDay(q.from, zone) \in Int
    BY <2>1, OnClock
  <2> QED
    BY <2>1, <2>2
<1>2. /\ Settled(day, HoursStart, zone)
      /\ day % WeekLength \in WorkingDays =>
             Settled(day, HoursEnd, zone) /\ KeepsTime(day, HoursStart, HoursEnd, zone)
  BY DEF Regular
<1>3. /\ ds = ZonedTimeToUtc(day, HoursStart, zone)
      /\ de = ZonedTimeToUtc(day, HoursEnd, zone)
  BY DEF DayStart, DayEnd
<1> HIDE DEF day, ds, de
<1>4. ds \in Int /\ ds + Offset(ds, zone) = day * DayLength + HoursStart
  BY <1>1, <1>2, <1>3, Zoned
<1>5. Weekday(ds, zone) = day % WeekLength
  <2>1. LocalDay(ds, zone) = day
    BY <1>1, <1>4, ByClock
  <2> QED
    BY <2>1 DEF Weekday
<1>6. ASSUME Settled(day, HoursEnd, zone)
      PROVE  de \in Int /\ de + Offset(de, zone) = day * DayLength + HoursEnd
  BY <1>1, <1>3, <1>6, Zoned
<1>7. day % WeekLength \in WorkingDays =>
          /\ de \in Int /\ de + Offset(de, zone) = day * DayLength + HoursEnd
          /\ KeepsTime(day, HoursStart, HoursEnd, zone)
  BY <1>2, <1>6
<1> QED
  BY <1>1, <1>4, <1>5, <1>7 DEF day, ds, de

\* A slot of computeFreeSlots is within the hours of its day, on the clock.
LEMMA OfDay ==
    ASSUME NEW q \in Query, NEW zone \in Zone, Regular(q, zone), NEW i \in 0..q.days - 1,
           NEW s \in DaySlots(i, q, zone)
    PROVE  /\ s \in Int /\ LocalDay(s, zone) = LocalDay(q.from, zone) + i
           /\ Weekday(s, zone) \in WorkingDays
           /\ Within(s, q.duration, zone, HoursStart, HoursEnd)
           /\ (LocalMinutes(s, zone) - HoursStart) % SlotMinutes = 0
<1> DEFINE day == LocalDay(q.from, zone) + i
           ds  == DayStart(i, q, zone)
           de  == DayEnd(i, q, zone)
           dur == q.duration
           e   == s + dur - 1
           o   == HoursOffset(day, HoursStart, HoursEnd, zone)
<1>1. /\ dur \in Nat \ {0} /\ DayLength \in Nat \ {0} /\ SlotMinutes \in Nat \ {0}
      /\ HoursStart \in 0..(DayLength - 1) /\ HoursEnd \in 0..DayLength
  BY SlotTypes
<1>2. /\ day \in Int /\ ds \in Int
      /\ ds + Offset(ds, zone) = day * DayLength + HoursStart
      /\ Weekday(ds, zone) = day % WeekLength
      /\ day % WeekLength \in WorkingDays =>
             /\ de \in Int /\ de + Offset(de, zone) = day * DayLength + HoursEnd
             /\ KeepsTime(day, HoursStart, HoursEnd, zone)
  BY DayHours
<1>3. /\ day % WeekLength \in WorkingDays
      /\ \E k \in 0..DayLength : s = ds + k * SlotMinutes
      /\ s + dur <= de
  BY <1>2 DEF DaySlots
<1>4. PICK k \in 0..DayLength : s = ds + k * SlotMinutes
  BY <1>3
<1> HIDE DEF day, ds, de, dur, o
<1>5. k * SlotMinutes \in Nat /\ s \in Int /\ ds <= s
  BY <1>1, <1>2, <1>4
<1>6. e \in Int /\ s <= e /\ e < de /\ de \in Int
  BY <1>1, <1>2, <1>3, <1>5
<1> HIDE DEF e
<1>7. day * DayLength \in Int /\ day * DayLength + HoursStart \in Int
  BY <1>1, <1>2
<1>8. Offset(ds, zone) = o /\ Offset(de, zone) = o
  <2>1. /\ day * DayLength + HoursStart <= ds + Offset(ds, zone)
        /\ de + Offset(de, zone) <= day * DayLength + HoursEnd
    BY <1>1, <1>2, <1>3, <1>7
  <2>2. ds <= de /\ HoursStart \in Int /\ HoursEnd \in Int
    BY <1>1, <1>2, <1>5, <1>6
  <2> QED
    BY <1>2, <1>3, <1>6, <2>1, <2>2, OneOffset DEF o
<1>9. Offset(s, zone) = o /\ Offset(e, zone) = o /\ o \in Int
  <2>1. s <= de /\ ds <= e /\ e <= de
    BY <1>2, <1>5, <1>6
  <2> QED
    BY <1>2, <1>5, <1>6, <1>8, <2>1, OffsetBetween, OnClock
<1>10. s + o = day * DayLength + (HoursStart + k * SlotMinutes)
  BY <1>1, <1>2, <1>4, <1>5, <1>7, <1>8, <1>9
<1>11. e + o < day * DayLength + HoursEnd
  BY <1>1, <1>2, <1>3, <1>6, <1>7, <1>8, <1>9
<1> DEFINE m1 == HoursStart + k * SlotMinutes
           m2 == e + o - day * DayLength
<1>12. /\ m1 \in 0..(DayLength - 1) /\ m2 \in 0..(DayLength - 1) /\ m2 < HoursEnd
       /\ s + o = day * DayLength + m1 /\ e + o = day * DayLength + m2
  BY <1>1, <1>5, <1>6, <1>7, <1>9, <1>10, <1>11
<1> HIDE DEF m1, m2
<1>13. LocalDay(s, zone) = day /\ LocalMinutes(s, zone) = m1
  BY <1>2, <1>5, <1>9, <1>12, ByClock
<1>14. LocalDay(e, zone) = day /\ LocalMinutes(e, zone) = m2
  BY <1>2, <1>6, <1>9, <1>12, ByClock
<1>15. Within(s, dur, zone, HoursStart, HoursEnd)
  BY <1>1, <1>5, <1>12, <1>13, <1>14 DEF Within, e, m1
<1>16. (LocalMinutes(s, zone) - HoursStart) % SlotMinutes = 0
  <2>1. (k * SlotMinutes + 0) % SlotMinutes = 0
    BY <1>1, DivIs
  <2>2. m1 - HoursStart = k * SlotMinutes + 0
    BY <1>1, <1>5 DEF m1
  <2> QED
    BY <1>13, <2>1, <2>2
<1>17. Weekday(s, zone) \in WorkingDays
  BY <1>3, <1>13 DEF Weekday
<1> QED
  BY <1>5, <1>13, <1>15, <1>16, <1>17 DEF day, dur

\* And what is within the hours of one of the days, a whole number of steps from their
\* beginning, is a slot of computeFreeSlots.
LEMMA InDay ==
    ASSUME NEW q \in Query, NEW zone \in Zone, Regular(q, zone),
           NEW s \in Int, q.from <= s,
           LocalDay(s, zone) < LocalDay(q.from, zone) + q.days,
           Weekday(s, zone) \in WorkingDays,
           Within(s, q.duration, zone, HoursStart, HoursEnd),
           (LocalMinutes(s, zone) - HoursStart) % SlotMinutes = 0
    PROVE  \E i \in 0..q.days - 1 : s \in DaySlots(i, q, zone)
<1> DEFINE first == LocalDay(q.from, zone)
           day   == LocalDay(s, zone)
           i     == day - first
           ds    == DayStart(i, q, zone)
           de    == DayEnd(i, q, zone)
           dur   == q.duration
           e     == s + dur - 1
           m1    == LocalMinutes(s, zone)
           m2    == LocalMinutes(e, zone)
           o     == HoursOffset(day, HoursStart, HoursEnd, zone)
<1>1. /\ dur \in Nat \ {0} /\ DayLength \in Nat \ {0} /\ SlotMinutes \in Nat \ {0}
      /\ HoursStart \in 0..(DayLength - 1) /\ HoursEnd \in 0..DayLength
      /\ HoursStart < HoursEnd /\ q.from \in Int /\ q.days \in Nat \ {0}
  BY SlotTypes, SlotsAssumption
<1>2. /\ day \in Int /\ m1 \in 0..(DayLength - 1) /\ day * DayLength \in Int
      /\ s + Offset(s, zone) = day * DayLength + m1
      /\ first \in Int
  BY <1>1, OnClock
<1>3. first <= day
  <2>1. DaysAdvance(zone)
    BY DEF Regular
  <2> QED
    BY <1>1, <2>1, DaysGoOn
<1>4. i \in 0..q.days - 1 /\ first + i = day
  BY <1>1, <1>2, <1>3
<1>5. /\ ds \in Int /\ ds + Offset(ds, zone) = day * DayLength + HoursStart
      /\ Weekday(ds, zone) = day % WeekLength
      /\ day % WeekLength \in WorkingDays =>
             /\ de \in Int /\ de + Offset(de, zone) = day * DayLength + HoursEnd
             /\ KeepsTime(day, HoursStart, HoursEnd, zone)
  <2> HIDE DEF i
  <2>1. /\ ds \in Int /\ ds + Offset(ds, zone) = (first + i) * DayLength + HoursStart
        /\ Weekday(ds, zone) = (first + i) % WeekLength
        /\ (first + i) % WeekLength \in WorkingDays =>
               /\ de \in Int /\ de + Offset(de, zone) = (first + i) * DayLength + HoursEnd
               /\ KeepsTime(first + i, HoursStart, HoursEnd, zone)
    BY <1>4, DayHours
  <2> HIDE DEF first, ds, de, day
  <2> QED
    BY <1>4, <2>1
<1>6. day % WeekLength \in WorkingDays
  BY DEF Weekday
<1>7. /\ LocalDay(e, zone) = day /\ m1 >= HoursStart /\ m2 < HoursEnd
      /\ (m1 - HoursStart) % SlotMinutes = 0
  BY DEF Within
<1>8. e \in Int /\ s <= e /\ e + 1 = s + dur
  BY <1>1
<1>9. DaySlots(i, q, zone) = IF Weekday(ds, zone) \notin WorkingDays THEN {}
                             ELSE {t \in {ds + k * SlotMinutes : k \in 0..DayLength} :
                                       t + dur <= de}
  BY DEF DaySlots
<1> HIDE DEF e
<1>10. m2 \in 0..(DayLength - 1) /\ e + Offset(e, zone) = day * DayLength + m2
  BY <1>7, <1>8, OnClock
<1> HIDE DEF first, day, i, ds, de, dur, m1, m2, o
<1>11. Offset(s, zone) = o /\ Offset(e, zone) = o
  <2>1. /\ day * DayLength + HoursStart <= s + Offset(s, zone)
        /\ e + Offset(e, zone) <= day * DayLength + HoursEnd
    BY <1>1, <1>2, <1>7, <1>10
  <2>2. HoursStart \in Int /\ HoursEnd \in Int /\ KeepsTime(day, HoursStart, HoursEnd, zone)
    BY <1>1, <1>5, <1>6
  <2> QED
    BY <1>2, <1>8, <2>1, <2>2, OneOffset DEF o
<1>12. de \in Int /\ de + Offset(de, zone) = day * DayLength + HoursEnd
  BY <1>5, <1>6
<1>13. Offset(ds, zone) = o
  <2>1. ds + Offset(ds, zone) <= day * DayLength + HoursEnd
    BY <1>1, <1>2, <1>5, <1>7, <1>10
  <2>2. day * DayLength + HoursStart <= ds + Offset(ds, zone) /\ ds <= ds
    BY <1>2, <1>5, <1>1
  <2>3. HoursStart \in Int /\ HoursEnd \in Int /\ KeepsTime(day, HoursStart, HoursEnd, zone)
    BY <1>1, <1>5, <1>6
  <2> QED
    BY <1>2, <1>5, <2>1, <2>2, <2>3, OneOffset DEF o
<1>14. Offset(de, zone) = o
  <2>1. day * DayLength + HoursStart <= de + Offset(de, zone)
    BY <1>1, <1>2, <1>7, <1>10, <1>12
  <2>2. de + Offset(de, zone) <= day * DayLength + HoursEnd /\ de <= de
    BY <1>1, <1>2, <1>12
  <2>3. HoursStart \in Int /\ HoursEnd \in Int /\ KeepsTime(day, HoursStart, HoursEnd, zone)
    BY <1>1, <1>5, <1>6
  <2> QED
    BY <1>2, <1>12, <2>1, <2>2, <2>3, OneOffset DEF o
<1>15. o \in Int
  BY <1>11, OnClock
<1>16. s - ds = m1 - HoursStart
  BY <1>1, <1>2, <1>5, <1>11, <1>13, <1>15
<1>17. s + dur <= de
  BY <1>1, <1>2, <1>8, <1>7, <1>10, <1>11, <1>12, <1>14, <1>15
<1>18. \E k \in 0..DayLength : s = ds + k * SlotMinutes
  <2> DEFINE x == m1 - HoursStart
             k == x \div SlotMinutes
  <2>1. x \in 0..(DayLength - 1) /\ x % SlotMinutes = 0
    BY <1>1, <1>2, <1>7
  <2> HIDE DEF x
  <2>2. k \in Int /\ x = k * SlotMinutes + (x % SlotMinutes)
    BY <1>1, <2>1, Divided
  <2> HIDE DEF k
  <2>3. x = k * SlotMinutes
    BY <1>1, <2>1, <2>2
  <2>4. ASSUME k < 0 PROVE FALSE
    <3>1. k * SlotMinutes <= (-1) * SlotMinutes
      BY <1>1, <2>2, <2>4
    <3> QED
      BY <1>1, <2>1, <2>3, <3>1
  <2>5. ASSUME k > DayLength PROVE FALSE
    <3>1. DayLength * 1 <= k * SlotMinutes
      BY <1>1, <2>2, <2>5
    <3> QED
      BY <1>1, <2>1, <2>3, <3>1
  <2>6. k \in 0..DayLength
    BY <1>1, <2>2, <2>4, <2>5
  <2>7. s = ds + k * SlotMinutes
    BY <1>5, <1>16, <2>1, <2>3 DEF x
  <2> QED
    BY <2>6, <2>7
<1>19. s \in DaySlots(i, q, zone)
  BY <1>5, <1>6, <1>9, <1>17, <1>18
<1> QED
  BY <1>4, <1>19

\* The days of twenty-four hours availableSlots asks the calendars about reach to the
\* end of the last slot.
LEMMA InReach ==
    ASSUME NEW q \in Query, NEW zone \in Zone, Regular(q, zone),
           NEW s \in Int, q.from <= s,
           LocalDay(s, zone) < LocalDay(q.from, zone) + q.days,
           Within(s, q.duration, zone, HoursStart, HoursEnd)
    PROVE  /\ s + q.duration <= q.from + q.days * DayLength
           /\ s <= q.from + (q.days + 1) * DayLength
<1> DEFINE f     == q.from
           n     == q.days
           dur   == q.duration
           e     == s + dur - 1
           first == LocalDay(f, zone)
           day   == LocalDay(s, zone)
           m0    == LocalMinutes(f, zone)
           m2    == LocalMinutes(e, zone)
           o0    == Offset(f, zone)
           o2    == Offset(e, zone)
<1>1. /\ dur \in Nat \ {0} /\ DayLength \in Nat \ {0} /\ f \in Int /\ n \in Nat \ {0}
      /\ HoursEnd \in 0..DayLength
  BY SlotTypes
<1>2. e \in Int /\ f <= e /\ s <= e /\ e + 1 = s + dur
  BY <1>1
<1>3. day \in Int
  BY OnClock
<1>4. /\ first \in Int /\ m0 \in 0..(DayLength - 1) /\ o0 \in Int
      /\ first * DayLength \in Int /\ f + o0 = first * DayLength + m0
  BY <1>1, OnClock
<1>5. LocalDay(e, zone) = day /\ m2 < HoursEnd
  BY DEF Within
<1> HIDE DEF e
<1>6. /\ m2 \in 0..(DayLength - 1) /\ o2 \in Int
      /\ day * DayLength \in Int /\ e + o2 = day * DayLength + m2
  BY <1>2, <1>5, OnClock
<1>7. /\ zone.before \in Int /\ zone.after \in Int
      /\ o2 = o0 \/ o2 - o0 = zone.after - zone.before
      /\ HoursEnd + zone.before - zone.after <= DayLength
  BY <1>1, <1>2 DEF Zone, Offset, Regular
<1>8. day <= first + n - 1
  BY <1>1, <1>3, <1>4
<1> HIDE DEF f, n, dur, first, day, m0, m2, o0, o2
<1>9. day * DayLength <= first * DayLength + n * DayLength - DayLength
  <2>1. day * DayLength <= (first + n - 1) * DayLength
    BY <1>1, <1>3, <1>4, <1>8
  <2>2. (first + n - 1) * DayLength = first * DayLength + n * DayLength - DayLength
    BY <1>1, <1>4
  <2> QED
    BY <2>1, <2>2
<1>10. n * DayLength \in Int /\ (n + 1) * DayLength = n * DayLength + DayLength
  BY <1>1
<1>11. e < f + n * DayLength
  BY <1>1, <1>2, <1>4, <1>5, <1>6, <1>7, <1>9, <1>10
<1>12. s + dur <= f + n * DayLength /\ s <= f + (n + 1) * DayLength
  BY <1>1, <1>2, <1>10, <1>11
<1> QED
  BY <1>12 DEF f, n, dur

-----------------------------------------------------------------------------
(* Slots: the first ones. *)

LEMMA NumbersBelow ==
    ASSUME NEW n \in Nat
    PROVE  IsFiniteSet(0..(n - 1)) /\ Cardinality(0..(n - 1)) = n
<1> DEFINE m == n - 1
<1>1. m \in Int
  OBVIOUS
<1> HIDE DEF m
<1>2. IsFiniteSet(0..m) /\ Cardinality(0..m) = IF 0 > m THEN 0 ELSE m - 0 + 1
  BY <1>1, FS_Interval
<1>3. (IF 0 > m THEN 0 ELSE m - 0 + 1) = n
  BY DEF m
<1> QED
  BY <1>2, <1>3 DEF m

\* If one is left out there are as many as were asked for, and it is after all of
\* them: the numbers of those before one and of those before a later one differ, so
\* these numbers count the first ones from 0 on.
LEMMA FirstOnes ==
    ASSUME NEW A, IsFiniteSet(A), A \subseteq Int, NEW n \in Nat,
           NEW s \in A \ FirstOf(A, n)
    PROVE  Cardinality(FirstOf(A, n)) = n /\ \A t \in FirstOf(A, n) : t < s
<1> DEFINE Below(t) == {u \in A : u < t}
           c(t)     == Cardinality(Below(t))
           F        == FirstOf(A, n)
<1>1. \A t \in A : /\ Below(t) \in SUBSET A /\ Below(t) \subseteq A
                   /\ IsFiniteSet(Below(t)) /\ c(t) \in Nat
  <2> TAKE t \in A
  <2>1. Below(t) \in SUBSET A
    OBVIOUS
  <2> HIDE DEF Below
  <2>2. IsFiniteSet(Below(t))
    BY <2>1, FS_Subset
  <2> QED
    BY <2>1, <2>2, FS_CardinalityType
<1>2. ASSUME NEW t \in A, NEW u \in A, t < u
      PROVE  Below(t) \subseteq Below(u) /\ Below(t) # Below(u) /\ c(t) < c(u)
  <2>1. Below(t) \subseteq Below(u) /\ t \in Below(u) /\ t \notin Below(t)
    <3>1. t \in Int /\ u \in Int /\ \A v \in A : v \in Int
      OBVIOUS
    <3> HIDE DEF c, F
    <3>2. \A v \in A : v < t => v < u
      BY <1>2, <3>1
    <3>3. ~(t < t)
      BY <3>1
    <3> QED
      BY <1>2, <3>2, <3>3
  <2>2. IsFiniteSet(Below(u)) /\ c(t) \in Nat /\ c(u) \in Nat
    BY <1>1
  <2> HIDE DEF Below
  <2>3. c(t) <= c(u) /\ c(u) # c(t)
    BY <2>1, <2>2, FS_Subset
  <2> HIDE DEF c
  <2> QED
    BY <2>1, <2>2, <2>3
<1>3. F = {t \in A : c(t) < n}
  BY DEF FirstOf
<1>4. \A t, u \in A : t = u \/ t < u \/ u < t
  OBVIOUS
<1> HIDE DEF F, Below, c
<1>5. s \in A /\ c(s) \in Nat /\ n <= c(s)
  BY <1>1, <1>3 DEF F
<1>6. \A t \in F : t < s
  <2> TAKE t \in F
  <2>1. t \in A /\ c(t) \in Nat /\ c(t) < n
    BY <1>1, <1>3
  <2>2. t # s /\ ~(s < t)
    BY <1>2, <1>5, <2>1
  <2> QED
    BY <1>4, <1>5, <2>1, <2>2
<1>7. ASSUME NEW k \in 0..(n - 1) PROVE \E t \in A : c(t) = k
  <2>0. k \in Nat
    BY <1>7
  <2> DEFINE G == {t \in A : c(t) >= k}
             U == {Below(t) : t \in G}
  <2>1. U \subseteq FiniteSubsetsOf(A) /\ U # {}
    <3>1. s \in G
      BY <1>5
    <3> QED
      BY <1>1, <3>1 DEF FiniteSubsetsOf
  <2>2. \E x \in U : \A y \in U : <<y, x>> \notin StrictSubsetOrdering(A)
    <3> HIDE DEF U
    <3> QED
      BY <2>1, FS_StrictSubsetOrderingWellFounded, WFMin
  <2>3. PICK t \in G : \A u \in G : <<Below(u), Below(t)>> \notin StrictSubsetOrdering(A)
    BY <2>2
  <2>4. ASSUME NEW u \in Below(t) PROVE u \in A /\ c(u) \in Nat /\ c(u) < k
    <3>1. u \in A /\ t \in A /\ u < t
      BY <2>4 DEF Below
    <3>2. c(u) \in Nat /\ Below(u) \in SUBSET A /\ Below(t) \in SUBSET A
      BY <1>1, <3>1
    <3>3. <<Below(u), Below(t)>> \in StrictSubsetOrdering(A)
      BY <1>2, <3>1, <3>2 DEF StrictSubsetOrdering
    <3>4. u \notin G
      BY <2>3, <3>3
    <3> QED
      BY <3>1, <3>2, <3>4
  <2> DEFINE f == [u \in Below(t) |-> c(u)]
  <2>5. f \in Injection(Below(t), 0..(k - 1))
    <3>1. \A u \in Below(t) : c(u) \in 0..(k - 1)
      BY <2>4
    <3>2. \A u, v \in Below(t) : c(u) = c(v) => u = v
      <4> TAKE u, v \in Below(t)
      <4>1. /\ u \in A /\ v \in A /\ c(u) \in Nat /\ c(v) \in Nat
            /\ u = v \/ u < v \/ v < u
        BY <1>4, <2>4
      <4> QED
        BY <1>2, <4>1
    <3> QED
      BY <3>1, <3>2 DEF Injection, IsInjective
  <2>6. c(t) <= k
    <3>1. IsFiniteSet(0..(k - 1)) /\ Cardinality(0..(k - 1)) = k
      BY <2>0, NumbersBelow
    <3>2. Cardinality(Below(t)) <= Cardinality(0..(k - 1))
      BY <2>5, <3>1, FS_Injection
    <3> QED
      BY <3>1, <3>2 DEF c
  <2>7. t \in A /\ c(t) \in Nat /\ c(t) >= k
    BY <1>1
  <2> QED
    BY <2>6, <2>7
<1>8. Cardinality(F) = n
  <2> DEFINE g == [t \in F |-> c(t)]
             N == 0..(n - 1)
  <2>1. IsFiniteSet(N) /\ Cardinality(N) = n
    BY NumbersBelow
  <2>2. \A t \in F : t \in A /\ c(t) \in N
    BY <1>1, <1>3
  <2>3. \A t, u \in F : c(t) = c(u) => t = u
    <3> TAKE t, u \in F
    <3>1. /\ t \in A /\ u \in A /\ c(t) \in Nat /\ c(u) \in Nat
          /\ t = u \/ t < u \/ u < t
      BY <1>1, <1>4, <2>2
    <3> QED
      BY <1>2, <3>1
  <2>4. \A k \in N : \E t \in F : c(t) = k
    BY <1>3, <1>7
  <2> HIDE DEF N
  <2>5. g \in Injection(F, N) /\ g \in Surjection(F, N)
    BY <2>2, <2>3, <2>4 DEF Injection, Surjection, IsInjective
  <2> HIDE DEF g
  <2>6. Cardinality(F) = Cardinality(N)
    BY <2>1, <2>5, FS_Injection
  <2> QED
    BY <2>1, <2>6
<1> QED
  BY <1>6, <1>8 DEF F

-----------------------------------------------------------------------------
(* Slots: what is offered. *)

\* What computeFreeSlots takes the first of.
Candidates(q, busy, zone) ==
    {s \in UNION {DaySlots(i, q, zone) : i \in 0..q.days - 1} :
        /\ s >= q.earliest
        /\ ~ \E b \in busy : Overlaps(s, q, b)
        /\ InLeadDaytime(s, q)}

LEMMA CandidatesAre ==
    ASSUME NEW q \in Query, NEW zone \in Zone, Regular(q, zone),
           q.lead # NoLead => LeadRegular(q),
           NEW calendar \in SUBSET [start : Int, end : Int],
           NEW s \in Candidates(q, FreeBusy(q, calendar), zone)
    PROVE  /\ s \in Int /\ s >= q.earliest
           /\ s >= q.from => s \in Asked(q) /\ IsSlot(s, q, calendar, zone)
<1> DEFINE f     == q.from
           first == LocalDay(f, zone)
           day   == LocalDay(s, zone)
           last  == f + (q.days + 1) * DayLength
<1>1. PICK i \in 0..q.days - 1 : s \in DaySlots(i, q, zone)
  BY DEF Candidates
<1>2. /\ s >= q.earliest
      /\ \A b \in FreeBusy(q, calendar) : ~Overlaps(s, q, b)
      /\ InLeadDaytime(s, q)
  BY DEF Candidates
<1>3. /\ s \in Int /\ day = first + i
      /\ Weekday(s, zone) \in WorkingDays
      /\ Within(s, q.duration, zone, HoursStart, HoursEnd)
      /\ (LocalMinutes(s, zone) - HoursStart) % SlotMinutes = 0
  BY <1>1, OfDay
<1>4. /\ f \in Int /\ q.days \in Nat \ {0} /\ q.duration \in Nat \ {0}
      /\ DayLength \in Nat \ {0} /\ last \in Int
  BY SlotTypes
<1>5. first \in Int
  BY <1>4, OnClock
<1>6. ASSUME s >= f PROVE s \in Asked(q) /\ IsSlot(s, q, calendar, zone)
  <2>1. day < first + q.days
    <3> HIDE DEF day, first
    <3> QED
      BY <1>1, <1>3, <1>4, <1>5
  <2>2. f <= s
    BY <1>3, <1>4, <1>6
  <2>3. s + q.duration <= f + q.days * DayLength /\ s <= last
    BY <1>3, <2>1, <2>2, InReach
  <2>4. s \in Asked(q)
    BY <1>3, <1>4, <2>2, <2>3 DEF Asked
  <2>5. ASSUME q.lead # NoLead
        PROVE  Within(s, q.duration, q.lead.zone, q.lead.hoursStart, q.lead.hoursEnd)
    BY <1>2, <1>3, <2>2, <2>3, <2>5, LeadAgrees
  <2>6. ASSUME NEW b \in calendar, Overlaps(s, q, b) PROVE FALSE
    <3>1. b.start \in Int /\ b.end \in Int /\ s < b.end /\ s + q.duration > b.start
      BY <2>6 DEF Overlaps
    <3> DEFINE reach == f + q.days * DayLength
               after == s + q.duration
    <3>2. reach \in Int /\ after \in Int
      BY <1>3, <1>4
    <3>3. after <= reach /\ after > b.start
      BY <2>3, <3>1
    <3> HIDE DEF reach, after
    <3>4. b.end > f /\ b.start < reach
      BY <1>3, <1>4, <2>2, <3>1, <3>2, <3>3
    <3>5. b \in FreeBusy(q, calendar)
      BY <3>4 DEF FreeBusy, reach
    <3> QED
      BY <1>2, <2>6, <3>5
  <2>7. IsSlot(s, q, calendar, zone)
    BY <1>2, <1>3, <2>1, <2>5, <2>6 DEF IsSlot
  <2> QED
    BY <2>4, <2>7
<1> QED
  BY <1>2, <1>3, <1>6

LEMMA SlotsAreCandidates ==
    ASSUME NEW q \in Query, NEW zone \in Zone, Regular(q, zone),
           q.lead # NoLead => LeadRegular(q),
           NEW calendar \in SUBSET [start : Int, end : Int],
           NEW s \in Asked(q), IsSlot(s, q, calendar, zone)
    PROVE  s \in Candidates(q, FreeBusy(q, calendar), zone)
<1>1. s \in Int /\ q.from <= s /\ s <= q.from + (q.days + 1) * DayLength
  BY SlotTypes DEF Asked
<1>2. \E i \in 0..q.days - 1 : s \in DaySlots(i, q, zone)
  BY <1>1, InDay DEF IsSlot
<1>3. s >= q.earliest /\ ~ \E b \in FreeBusy(q, calendar) : Overlaps(s, q, b)
  BY DEF IsSlot, FreeBusy
<1>4. InLeadDaytime(s, q)
  <2>1. CASE q.lead = NoLead
    BY <2>1 DEF InLeadDaytime
  <2>2. CASE q.lead # NoLead
    BY <1>1, <2>2, LeadAgrees DEF IsSlot
  <2> QED
    BY <2>1, <2>2
<1> QED
  BY <1>2, <1>3, <1>4 DEF Candidates

LEMMA CandidatesFinite ==
    ASSUME NEW q \in Query, NEW zone \in Zone, Regular(q, zone),
           q.lead # NoLead => LeadRegular(q),
           NEW calendar \in SUBSET [start : Int, end : Int]
    PROVE  /\ IsFiniteSet(Candidates(q, FreeBusy(q, calendar), zone))
           /\ Candidates(q, FreeBusy(q, calendar), zone) \subseteq Int
<1> DEFINE A    == Candidates(q, FreeBusy(q, calendar), zone)
           last == q.from + (q.days + 1) * DayLength
<1>1. q.from \in Int /\ last \in Int /\ q.earliest \in Int
  BY SlotTypes DEF Query
<1>2. \A s \in A : /\ s \in Int /\ s >= q.earliest
                   /\ s >= q.from => s \in q.from..last
  BY CandidatesAre DEF Asked
<1> HIDE DEF A, last
<1>3. A \in SUBSET ((q.earliest..q.from) \cup (q.from..last))
  BY <1>1, <1>2
<1>4. IsFiniteSet(q.earliest..q.from) /\ IsFiniteSet(q.from..last)
  BY <1>1, FS_Interval
<1>5. IsFiniteSet((q.earliest..q.from) \cup (q.from..last))
  BY <1>4, FS_Union
<1>6. IsFiniteSet(A) /\ A \subseteq Int
  BY <1>2, <1>3, <1>5, FS_Subset
<1> QED
  BY <1>6 DEF A

\* Whatever the hours, the zones, what is asked and when the demo calendar and the AE
\* are busy, provided the clocks change at regular times: what availableSlots offers from
\* the instant asked for on is what the clocks on both walls and the calendars
\* allow; and if any of that is left out, the limit is reached and all that is offered
\* is earlier.  What is offered from before that instant may be taken.
THEOREM SlotsAlwaysAgree == QueriesRegular => (SlotsInit => SlotsAgree)
<1> SUFFICES ASSUME QueriesRegular, SlotsInit PROVE SlotsAgree
  OBVIOUS
<1> DEFINE q        == asked.query
           zone     == asked.zone
           calendar == asked.calendar
           A        == Candidates(q, FreeBusy(q, calendar), zone)
           offered  == AvailableSlots(q, calendar, zone)
           slots    == {s \in Asked(q) : IsSlot(s, q, calendar, zone)}
<1>1. /\ q \in Queries /\ q \in Query /\ zone \in Zones /\ zone \in Zone
      /\ calendar \in SUBSET [start : Int, end : Int]
  BY SlotsAssumption DEF SlotsInit
<1>2. Regular(q, zone) /\ (q.lead # NoLead => LeadRegular(q))
  BY <1>1 DEF QueriesRegular
<1>3. offered = FirstOf(A, q.limit)
  BY DEF AvailableSlots, ComputeFreeSlots, Candidates
<1> HIDE DEF q, zone, calendar, offered
<1>4. offered \subseteq A
  BY <1>3 DEF FirstOf
<1>5. \A s \in A : s >= q.from => s \in slots
  BY <1>1, <1>2, CandidatesAre
<1>6. slots \subseteq A
  BY <1>1, <1>2, SlotsAreCandidates
<1>7. IsFiniteSet(A) /\ A \subseteq Int /\ q.limit \in Nat
  BY <1>1, <1>2, CandidatesFinite, SlotTypes
<1> HIDE DEF A, slots
<1>8. \A s \in slots \ offered : Cardinality(offered) = q.limit /\ \A t \in offered : t < s
  BY <1>3, <1>6, <1>7, FirstOnes
<1> QED
  BY <1>4, <1>5, <1>8 DEF SlotsAgree, q, zone, calendar, offered, slots
=============================================================================
