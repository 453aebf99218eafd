-------------------------- MODULE PlacementProofs --------------------------
(***************************************************************************)
(* Proofs about Placement, for any number of requests, keys and prospects, *)
(* any settings of the contact rules, and any number of faults and         *)
(* crashes.                                                                *)
(***************************************************************************)
EXTENDS Placement, FiniteSetTheorems, TLAPS

-----------------------------------------------------------------------------
(* The inductive invariant. *)

\* A request that has not inserted a row, or never will, has had no effect;
\* one that has is past "insert".
RowsFollowPC ==
    \A r \in Calls :
        /\ pc[r] \in {"idle", "replayed", "refused"} \cup BeforeRow =>
               /\ ~Exists(r)
               /\ r \notin dialled /\ r \notin verified /\ r \notin clones
        /\ pc[r] \in {"placed"} \cup WithRow \cup Failing => Exists(r)

\* The UNIQUE column.
KeysUnique ==
    \A c, d \in Calls :
        Exists(c) /\ Exists(d) /\ KeyOf[c] = KeyOf[d] /\ KeyOf[c] # NoKey
            => c = d

\* A phone rings for a row, and only from the dial on.
DialsHaveRows ==
    \A r \in Calls : /\ r \in dialled => Exists(r)
                     /\ pc[r] \in {"queue", "placed"} => r \in dialled

\* The agent and the record of its clone are in place from the step that
\* establishes them.
DialPrepared ==
    \A r \in Calls :
        /\ r \in dialled \/ pc[r] \in {"record", "dial", "queue", "placed"}
               => r \in verified
        /\ r \in dialled \/ pc[r] \in {"dial", "queue", "placed"}
               => (Cloning => calls[r].lyzr_call_agent_id)
        /\ pc[r] = "placed" => calls[r].twilio_call_sid

\* A caller is told once, of its own dialled call or of the one row that has
\* its key.
RepliesOwned ==
    \A r \in Calls :
        /\ pc[r] \in {"idle"} \cup InFlight => reply[r] = NoCall
        /\ pc[r] \in {"lookup", "refetch"} => KeyOf[r] # NoKey
        /\ reply[r] # NoCall =>
               \/ reply[r] = r /\ Exists(r)
               \/ /\ KeyOf[r] # NoKey
                  /\ KeyOf[reply[r]] = KeyOf[r]
                  /\ Exists(reply[r])

\* What the rest of a call's life leaves as it is (LifecycleProofs) ...
RequestInv ==
    TypeOK /\ RowsFollowPC /\ KeysUnique /\ DialsHaveRows /\ RepliesOwned

\* ... and what holds of the placement alone.
IInv == RequestInv /\ DialPrepared

-----------------------------------------------------------------------------
(* Lemmas on the statements a request runs. *)

\* Every statement of placeCall writes a row of the schema.
LEMMA WrittenIsRow ==
    ASSUME TypeOK, NEW r \in Calls
    PROVE  Written(r) \in Row
<1>1. calls[r] \in Row /\ now \in Nat /\ Cloning \in BOOLEAN
  BY PlacementAssumption DEF TypeOK
<1>2. NoRow \in Row
  BY DEF NoRow, Row
<1>3. {"created", "agent_preparing", "agent_prepared", "queued", "failed"}
          \subseteq Statuses
  BY DEF Statuses, Preparation, Live, Terminal
<1>4. QED
  BY <1>1, <1>2, <1>3 DEF Written, Row

\* An INSERT or UPDATE leaves a row behind, and an UPDATE of an existing row
\* leaves the creation time alone.
LEMMA WrittenExists ==
    ASSUME TypeOK, NEW r \in Calls
    PROVE  /\ Exists(r) \/ pc[r] = "insert" => Written(r).status # "absent"
           /\ pc[r] # "insert" =>
                  Written(r).created_at = calls[r].created_at
           /\ pc[r] = "insert" => Written(r).created_at = now
<1>1. calls[r] \in Row
  BY DEF TypeOK
<1>2. QED
  BY <1>1 DEF Written, Row, NoRow, Exists

\* What the statements do to the columns that the dial depends on.
LEMMA WrittenColumns ==
    ASSUME TypeOK, NEW r \in Calls
    PROVE  /\ Exists(r) \/ pc[r] = "insert" => Written(r).status # "absent"
           /\ pc[r] \notin {"insert", "record"} =>
                  Written(r).lyzr_call_agent_id = calls[r].lyzr_call_agent_id
           /\ pc[r] = "record" => Written(r).lyzr_call_agent_id = Cloning
           /\ pc[r] = "queue" => Written(r).twilio_call_sid
<1>1. calls[r] \in Row
  BY DEF TypeOK
<1>2. QED
  BY <1>1 DEF Written, Row, NoRow, Exists

\* Counting a disturbance.
LEMMA DisturbType ==
    ASSUME disturbed \in [Kinds -> Nat], NEW kind, Disturb(kind)
    PROVE  disturbed' \in [Kinds -> Nat]
<1>1. disturbed' = [disturbed EXCEPT ![kind] = disturbed[kind] + 1]
  BY DEF Disturb
<1>2. kind \in Kinds => disturbed[kind] + 1 \in Nat
  OBVIOUS
<1>3. QED
  BY <1>1, <1>2

\* A request only moves to places that pc knows.
LEMMA GotoType ==
    ASSUME TypeOK, NEW r \in Calls, NEW from, NEW to \in PCs, Goto(r, from, to)
    PROVE  pc' \in [Calls -> PCs]
  BY DEF TypeOK, Goto

-----------------------------------------------------------------------------
(* Type correctness. *)

LEMMA InitIInv == PlacementInit => IInv
<1> SUFFICES ASSUME PlacementInit PROVE IInv
  OBVIOUS
<1>1. \A r \in Calls : ~Exists(r) /\ pc[r] = "idle" /\ reply[r] = NoCall
  BY DEF PlacementInit, Exists, NoRow
<1>2. TypeOK
  <2>1. NoRow \in Row
    BY DEF NoRow, Row
  <2>2. "idle" \in PCs
    BY DEF PCs
  <2>3. << >> \in Seq(Statuses)
    OBVIOUS
  <2>4. Undisturbed \in [Kinds -> Nat]
    BY DEF Undisturbed
  <2>5. QED
    BY <2>1, <2>2, <2>3, <2>4 DEF PlacementInit, TypeOK
<1>3. RowsFollowPC
  BY <1>1 DEF PlacementInit, RowsFollowPC, WithRow, Failing
<1>4. KeysUnique
  BY <1>1 DEF KeysUnique
<1>5. DialsHaveRows /\ DialPrepared
  BY <1>1 DEF PlacementInit, DialsHaveRows, DialPrepared
<1>6. RepliesOwned
  BY <1>1 DEF RepliesOwned
<1>7. QED
  BY <1>2, <1>3, <1>4, <1>5, <1>6 DEF IInv, RequestInv

LEMMA TypeStep ==
    ASSUME RequestInv, [PlacementNext]_placementVars
    PROVE  TypeOK'
<1> USE DEF RequestInv
<1>1. ASSUME NEW r \in Calls, Receive(r) PROVE TypeOK'
  BY <1>1, GotoType DEF Receive, TypeOK, Goto, PCs, InFlight, BeforeRow
<1>2. ASSUME NEW r \in Calls, LookUp(r) PROVE TypeOK'
  BY <1>2 DEF LookUp, Replay, FindByIdempotencyKey, TypeOK, Goto, PCs, InFlight, BeforeRow, Finished
<1>3. ASSUME NEW r \in Calls, CountCalls(r) PROVE TypeOK'
  BY <1>3, CallsAssumption DEF CountCalls, TypeOK, Goto, PCs, InFlight, BeforeRow, Finished
<1>4. ASSUME NEW r \in Calls, CheckGap(r) PROVE TypeOK'
  BY <1>4 DEF CheckGap, TypeOK, Goto, PCs, InFlight, BeforeRow, Finished
<1>5. ASSUME NEW r \in Calls, Screen(r) PROVE TypeOK'
  BY <1>5 DEF Screen, TypeOK, Goto, PCs, InFlight, BeforeRow, Finished
<1>6. ASSUME NEW r \in Calls, CreateRow(r) PROVE TypeOK'
  BY <1>6, WrittenIsRow DEF CreateRow, Write, TypeOK, Goto, PCs, InFlight, BeforeRow, WithRow
<1>7. ASSUME NEW r \in Calls, Refetch(r) PROVE TypeOK'
  BY <1>7 DEF Refetch, Replay, FindByIdempotencyKey, TypeOK, Goto, PCs, InFlight, BeforeRow, Finished
<1>8. ASSUME NEW r \in Calls, MarkPreparing(r) PROVE TypeOK'
  BY <1>8, WrittenIsRow DEF MarkPreparing, Write, TypeOK, Goto, PCs, InFlight, WithRow
<1>9. ASSUME NEW r \in Calls, PrepareAgent(r) PROVE TypeOK'
  BY <1>9 DEF PrepareAgent, TypeOK, Goto, PCs, InFlight, WithRow, Failing
<1>10. ASSUME NEW r \in Calls, MarkPrepared(r) PROVE TypeOK'
  BY <1>10, WrittenIsRow DEF MarkPrepared, Write, TypeOK, Goto, PCs, InFlight, WithRow
<1>11. ASSUME NEW r \in Calls, Dial(r) PROVE TypeOK'
  BY <1>11 DEF Dial, TypeOK, Goto, PCs, InFlight, WithRow, Failing
<1>12. ASSUME NEW r \in Calls, MarkQueued(r) PROVE TypeOK'
  BY <1>12, WrittenIsRow DEF MarkQueued, Write, TypeOK, Goto, PCs, Finished
<1>13. ASSUME NEW r \in Calls, MarkFailed(r) PROVE TypeOK'
  BY <1>13, WrittenIsRow DEF MarkFailed, Write, TypeOK, Goto, PCs, InFlight, Failing
<1>14. ASSUME NEW r \in Calls, AnnounceFailure(r) PROVE TypeOK'
  <2>1. calls[r].status \in Statuses
    BY <1>14 DEF AnnounceFailure, Goto, RowsFollowPC, Failing, Exists, TypeOK, Row
  <2>2. Append(onTerminal[r], calls[r].status) \in Seq(Statuses)
    BY <2>1 DEF TypeOK
  <2>3. QED
    BY <1>14, <2>2 DEF AnnounceFailure, TypeOK, Goto, PCs, Finished
<1>15. ASSUME NEW r \in Calls, DatabaseFault(r) PROVE TypeOK'
  <2>1. disturbed' \in [Kinds -> Nat]
    BY <1>15, DisturbType DEF DatabaseFault, TypeOK
  <2>2. calls' \in [Calls -> Row]
    BY <1>15, WrittenIsRow DEF DatabaseFault, Write, TypeOK
  <2>3. pc' \in [Calls -> PCs]
    BY <1>15 DEF DatabaseFault, TypeOK, PCs, InFlight, Failing, Finished
  <2>4. QED
    BY <1>15, <2>1, <2>2, <2>3 DEF DatabaseFault, TypeOK
<1>16. CASE PlacementCrash
  <2>1. disturbed' \in [Kinds -> Nat]
    BY <1>16, DisturbType DEF PlacementCrash, TypeOK
  <2>2. pc' \in [Calls -> PCs]
    BY <1>16 DEF PlacementCrash, LoseRequests, TypeOK, PCs, Finished
  <2>3. QED
    BY <1>16, <2>1, <2>2 DEF PlacementCrash, TypeOK
<1>17. CASE Tick
  BY <1>17 DEF Tick, TypeOK
<1>18. CASE UNCHANGED placementVars
  BY <1>18 DEF placementVars, TypeOK
<1>19. QED
  BY <1>1, <1>2, <1>3, <1>4, <1>5, <1>6, <1>7, <1>8, <1>9, <1>10, <1>11,
     <1>12, <1>13, <1>14, <1>15, <1>16, <1>17, <1>18
     DEF PlacementNext, Advance

-----------------------------------------------------------------------------
(* The other parts of the invariant. *)

LEMMA RowsFollowPCStep ==
    ASSUME RequestInv, [PlacementNext]_placementVars
    PROVE  RowsFollowPC'
<1> USE DEF RequestInv, RowsFollowPC, Exists
<1>1. ASSUME NEW r \in Calls, Receive(r) PROVE RowsFollowPC'
  BY <1>1 DEF Receive, TypeOK, Goto, InFlight, BeforeRow, WithRow, Failing
<1>2. ASSUME NEW r \in Calls, LookUp(r) PROVE RowsFollowPC'
  BY <1>2 DEF LookUp, Replay, TypeOK, Goto, BeforeRow, WithRow, Failing
<1>3. ASSUME NEW r \in Calls, CountCalls(r) PROVE RowsFollowPC'
  BY <1>3 DEF CountCalls, TypeOK, Goto, BeforeRow, WithRow, Failing
<1>4. ASSUME NEW r \in Calls, CheckGap(r) PROVE RowsFollowPC'
  BY <1>4 DEF CheckGap, TypeOK, Goto, BeforeRow, WithRow, Failing
<1>5. ASSUME NEW r \in Calls, Screen(r) PROVE RowsFollowPC'
  BY <1>5 DEF Screen, TypeOK, Goto, BeforeRow, WithRow, Failing
<1>6. ASSUME NEW r \in Calls, CreateRow(r) PROVE RowsFollowPC'
  BY <1>6, WrittenExists DEF CreateRow, Write, TypeOK, Goto, BeforeRow, WithRow, Failing
<1>7. ASSUME NEW r \in Calls, Refetch(r) PROVE RowsFollowPC'
  BY <1>7 DEF Refetch, Replay, TypeOK, Goto, BeforeRow, WithRow, Failing
<1>8. ASSUME NEW r \in Calls, MarkPreparing(r) PROVE RowsFollowPC'
  BY <1>8, WrittenExists DEF MarkPreparing, Write, TypeOK, Goto, BeforeRow, WithRow, Failing
<1>9. ASSUME NEW r \in Calls, PrepareAgent(r) PROVE RowsFollowPC'
  BY <1>9 DEF PrepareAgent, TypeOK, Goto, BeforeRow, WithRow, Failing
<1>10. ASSUME NEW r \in Calls, MarkPrepared(r) PROVE RowsFollowPC'
  BY <1>10, WrittenExists DEF MarkPrepared, Write, TypeOK, Goto, BeforeRow, WithRow, Failing
<1>11. ASSUME NEW r \in Calls, Dial(r) PROVE RowsFollowPC'
  BY <1>11 DEF Dial, TypeOK, Goto, BeforeRow, WithRow, Failing
<1>12. ASSUME NEW r \in Calls, MarkQueued(r) PROVE RowsFollowPC'
  BY <1>12, WrittenExists DEF MarkQueued, Write, TypeOK, Goto, BeforeRow, WithRow, Failing
<1>13. ASSUME NEW r \in Calls, MarkFailed(r) PROVE RowsFollowPC'
  BY <1>13, WrittenExists DEF MarkFailed, Write, TypeOK, Goto, BeforeRow, WithRow, Failing
<1>14. ASSUME NEW r \in Calls, AnnounceFailure(r) PROVE RowsFollowPC'
  BY <1>14 DEF AnnounceFailure, TypeOK, Goto, BeforeRow, WithRow, Failing
<1>15. ASSUME NEW r \in Calls, DatabaseFault(r) PROVE RowsFollowPC'
  BY <1>15, WrittenExists DEF DatabaseFault, Write, TypeOK, InFlight, BeforeRow, WithRow, Failing
<1>16. CASE PlacementCrash
  BY <1>16 DEF PlacementCrash, LoseRequests, TypeOK, InFlight, BeforeRow, WithRow, Failing
<1>17. CASE Tick
  BY <1>17 DEF Tick
<1>18. CASE UNCHANGED placementVars
  BY <1>18 DEF placementVars
<1>19. QED
  BY <1>1, <1>2, <1>3, <1>4, <1>5, <1>6, <1>7, <1>8, <1>9, <1>10, <1>11,
     <1>12, <1>13, <1>14, <1>15, <1>16, <1>17, <1>18
     DEF PlacementNext, Advance

\* The rows and their creation times stay as they are...
SameRows ==
    \A c \in Calls :
        /\ Exists(c)' <=> Exists(c)
        /\ Exists(c) => calls'[c].created_at = calls[c].created_at

\* ... or a request inserts its row, which needs the key to be free.
Inserts(r) ==
    /\ pc[r] = "insert"
    /\ ~UniqueViolation(r)
    /\ calls' = [calls EXCEPT ![r] = Written(r)]
    /\ pc'[r] \in {"prepare", "errored"}
    /\ UNCHANGED <<now, raced, dialled, reply>>

\* Rows are never deleted, only one is inserted at a time, and no UPDATE
\* changes a creation time.
LEMMA TableStep ==
    ASSUME RequestInv, [PlacementNext]_placementVars
    PROVE  SameRows \/ \E r \in Calls : Inserts(r)
<1> DEFINE Goal == SameRows \/ \E r \in Calls : Inserts(r)
<1> USE DEF RequestInv, SameRows, Exists
<1>1. ASSUME NEW r \in Calls, Receive(r) PROVE Goal
  BY <1>1 DEF Receive, RowsFollowPC, TypeOK, Goto, BeforeRow, WithRow, Failing
<1>2. ASSUME NEW r \in Calls, LookUp(r) PROVE Goal
  BY <1>2 DEF LookUp, Replay, FindByIdempotencyKey, RowsFollowPC, TypeOK,
     Goto, BeforeRow, WithRow, Failing
<1>3. ASSUME NEW r \in Calls, CountCalls(r) PROVE Goal
  BY <1>3 DEF CountCalls, RowsFollowPC, TypeOK, Goto, BeforeRow, WithRow,
     Failing
<1>4. ASSUME NEW r \in Calls, CheckGap(r) PROVE Goal
  BY <1>4 DEF CheckGap, RowsFollowPC, TypeOK, Goto, BeforeRow, WithRow, Failing
<1>5. ASSUME NEW r \in Calls, Screen(r) PROVE Goal
  BY <1>5 DEF Screen, RowsFollowPC, TypeOK, Goto, BeforeRow, WithRow, Failing
<1>6. ASSUME NEW r \in Calls, CreateRow(r) PROVE Goal
  BY <1>6, WrittenExists DEF CreateRow, Write, Inserts, RowsFollowPC, TypeOK,
     Goto, BeforeRow, WithRow, Failing
<1>7. ASSUME NEW r \in Calls, Refetch(r) PROVE Goal
  BY <1>7 DEF Refetch, Replay, FindByIdempotencyKey, RowsFollowPC, TypeOK,
     Goto, BeforeRow, WithRow, Failing
<1>8. ASSUME NEW r \in Calls, MarkPreparing(r) PROVE Goal
  BY <1>8, WrittenExists DEF MarkPreparing, Write, RowsFollowPC, TypeOK, Goto,
     BeforeRow, WithRow, Failing
<1>9. ASSUME NEW r \in Calls, PrepareAgent(r) PROVE Goal
  BY <1>9 DEF PrepareAgent, RowsFollowPC, TypeOK, Goto, BeforeRow, WithRow,
     Failing
<1>10. ASSUME NEW r \in Calls, MarkPrepared(r) PROVE Goal
  BY <1>10, WrittenExists DEF MarkPrepared, Write, RowsFollowPC, TypeOK, Goto,
     BeforeRow, WithRow, Failing
<1>11. ASSUME NEW r \in Calls, Dial(r) PROVE Goal
  BY <1>11 DEF Dial, RowsFollowPC, TypeOK, Goto, BeforeRow, WithRow, Failing
<1>12. ASSUME NEW r \in Calls, MarkQueued(r) PROVE Goal
  BY <1>12, WrittenExists DEF MarkQueued, Write, RowsFollowPC, TypeOK, Goto,
     BeforeRow, WithRow, Failing
<1>13. ASSUME NEW r \in Calls, MarkFailed(r) PROVE Goal
  BY <1>13, WrittenExists DEF MarkFailed, Write, RowsFollowPC, TypeOK, Goto,
     BeforeRow, WithRow, Failing
<1>14. ASSUME NEW r \in Calls, AnnounceFailure(r) PROVE Goal
  BY <1>14 DEF AnnounceFailure, RowsFollowPC, TypeOK, Goto, BeforeRow,
     WithRow, Failing
<1>15. ASSUME NEW r \in Calls, DatabaseFault(r) PROVE Goal
  <2>1. CASE pc[r] = "insert" /\ calls' # calls
    BY <1>15, <2>1
       DEF DatabaseFault, Write, Inserts, TypeOK, WithRow
  <2>2. CASE pc[r] # "insert" /\ calls' # calls
    <3>1. calls' = [calls EXCEPT ![r] = Written(r)]
      BY <1>15, <2>2 DEF DatabaseFault, Write
    <3>2. pc[r] \in BeforeRow \cup WithRow \cup Failing
      BY <1>15 DEF DatabaseFault, InFlight
    <3>3. CASE pc[r] \in BeforeRow
      <4>1. Written(r) = calls[r]
        BY <2>2, <3>3 DEF Written, BeforeRow
      <4>2. QED
        BY <3>1, <4>1 DEF TypeOK
    <3>4. CASE pc[r] \in WithRow \cup Failing
      BY <2>2, <3>1, <3>4, WrittenExists DEF RowsFollowPC, TypeOK
    <3>5. QED
      BY <3>2, <3>3, <3>4
  <2>3. CASE calls' = calls
    BY <2>3
  <2>4. QED
    BY <2>1, <2>2, <2>3
<1>16. CASE PlacementCrash
  BY <1>16 DEF PlacementCrash, LoseRequests, RowsFollowPC, TypeOK, Goto,
     BeforeRow, WithRow, Failing
<1>17. CASE Tick
  BY <1>17 DEF Tick, RowsFollowPC, TypeOK, Goto, BeforeRow, WithRow, Failing
<1>18. CASE UNCHANGED placementVars
  BY <1>18 DEF placementVars, RowsFollowPC, TypeOK, Goto, BeforeRow, WithRow,
     Failing
<1>19. QED
  BY <1>1, <1>2, <1>3, <1>4, <1>5, <1>6, <1>7, <1>8, <1>9, <1>10, <1>11,
     <1>12, <1>13, <1>14, <1>15, <1>16, <1>17, <1>18
     DEF PlacementNext, Advance

LEMMA KeysUniqueStep ==
    ASSUME RequestInv, [PlacementNext]_placementVars
    PROVE  KeysUnique'
<1>1. CASE SameRows
  BY <1>1 DEF RequestInv, KeysUnique, SameRows
<1>2. ASSUME NEW r \in Calls, Inserts(r) PROVE KeysUnique'
  <2>1. \A c \in Calls \ {r} : Exists(c)' <=> Exists(c)
    BY <1>2 DEF RequestInv, TypeOK, Inserts, Exists
  <2>2. KeyOf[r] # NoKey =>
            \A c \in Calls \ {r} : Exists(c)' => KeyOf[c] # KeyOf[r]
    BY <1>2, <2>1 DEF Inserts, UniqueViolation, FindByIdempotencyKey
  <2>3. QED
    BY <2>1, <2>2 DEF RequestInv, KeysUnique
<1>3. QED
  BY <1>1, <1>2, TableStep

LEMMA DialsHaveRowsStep ==
    ASSUME RequestInv, [PlacementNext]_placementVars
    PROVE  DialsHaveRows'
<1> USE DEF RequestInv, DialsHaveRows
<1>1. \A c \in Calls : Exists(c) => Exists(c)'
  <2>1. CASE SameRows
    BY <2>1 DEF SameRows
  <2>2. ASSUME NEW r \in Calls, Inserts(r)
        PROVE  \A c \in Calls : Exists(c) => Exists(c)'
    BY <2>2, WrittenExists DEF Inserts, Exists, TypeOK
  <2>3. QED
    BY <2>1, <2>2, TableStep
<1>2. ASSUME NEW r \in Calls, Dial(r) PROVE DialsHaveRows'
  BY <1>1, <1>2 DEF Dial, Goto, TypeOK, RowsFollowPC, WithRow
<1>3. ASSUME NEW r \in Calls,
             \/ Receive(r) \/ LookUp(r) \/ CountCalls(r) \/ CheckGap(r)
             \/ Screen(r) \/ CreateRow(r) \/ Refetch(r)
      PROVE  DialsHaveRows'
  BY <1>1, <1>3 DEF Receive, LookUp, Replay, CountCalls, CheckGap, Screen,
                    CreateRow, Refetch, Goto, TypeOK
<1>4. ASSUME NEW r \in Calls,
             \/ MarkPreparing(r) \/ PrepareAgent(r) \/ MarkPrepared(r)
             \/ MarkQueued(r) \/ MarkFailed(r) \/ AnnounceFailure(r)
      PROVE  DialsHaveRows'
  BY <1>1, <1>4 DEF MarkPreparing, PrepareAgent, MarkPrepared, MarkQueued,
                    MarkFailed, AnnounceFailure, Goto, TypeOK
<1>5. ASSUME NEW r \in Calls, DatabaseFault(r) PROVE DialsHaveRows'
  BY <1>1, <1>5 DEF DatabaseFault, TypeOK
<1>6. CASE PlacementCrash \/ Tick \/ UNCHANGED placementVars
  BY <1>1, <1>6 DEF PlacementCrash, LoseRequests, Tick, placementVars, TypeOK
<1>7. QED
  BY <1>2, <1>3, <1>4, <1>5, <1>6 DEF PlacementNext, Advance

LEMMA DialPreparedStep ==
    ASSUME IInv, [PlacementNext]_placementVars
    PROVE  DialPrepared'
<1> USE PlacementAssumption DEF IInv, RequestInv, DialPrepared, Exists
<1>1. ASSUME NEW r \in Calls, Receive(r) PROVE DialPrepared'
  BY <1>1 DEF Receive, RowsFollowPC, TypeOK, Goto, BeforeRow, WithRow, Failing
<1>2. ASSUME NEW r \in Calls, LookUp(r) PROVE DialPrepared'
  BY <1>2 DEF LookUp, Replay, FindByIdempotencyKey, RowsFollowPC, TypeOK,
     Goto, BeforeRow, WithRow, Failing
<1>3. ASSUME NEW r \in Calls, CountCalls(r) PROVE DialPrepared'
  BY <1>3 DEF CountCalls, RowsFollowPC, TypeOK, Goto, BeforeRow, WithRow,
     Failing
<1>4. ASSUME NEW r \in Calls, CheckGap(r) PROVE DialPrepared'
  BY <1>4 DEF CheckGap, RowsFollowPC, TypeOK, Goto, BeforeRow, WithRow, Failing
<1>5. ASSUME NEW r \in Calls, Screen(r) PROVE DialPrepared'
  BY <1>5 DEF Screen, RowsFollowPC, TypeOK, Goto, BeforeRow, WithRow, Failing
<1>6. ASSUME NEW r \in Calls, CreateRow(r) PROVE DialPrepared'
  BY <1>6, WrittenColumns DEF CreateRow, Write, RowsFollowPC, TypeOK, Goto,
     BeforeRow, WithRow, Failing
<1>7. ASSUME NEW r \in Calls, Refetch(r) PROVE DialPrepared'
  BY <1>7 DEF Refetch, Replay, FindByIdempotencyKey, RowsFollowPC, TypeOK,
     Goto, BeforeRow, WithRow, Failing
<1>8. ASSUME NEW r \in Calls, MarkPreparing(r) PROVE DialPrepared'
  BY <1>8, WrittenColumns DEF MarkPreparing, Write, RowsFollowPC, TypeOK,
     Goto, BeforeRow, WithRow, Failing
<1>9. ASSUME NEW r \in Calls, PrepareAgent(r) PROVE DialPrepared'
  BY <1>9 DEF PrepareAgent, RowsFollowPC, TypeOK, Goto, BeforeRow, WithRow,
     Failing
<1>10. ASSUME NEW r \in Calls, MarkPrepared(r) PROVE DialPrepared'
  BY <1>10, WrittenColumns DEF MarkPrepared, Write, RowsFollowPC, TypeOK,
     Goto, BeforeRow, WithRow, Failing
<1>11. ASSUME NEW r \in Calls, Dial(r) PROVE DialPrepared'
  BY <1>11 DEF Dial, RowsFollowPC, TypeOK, Goto, BeforeRow, WithRow, Failing
<1>12. ASSUME NEW r \in Calls, MarkQueued(r) PROVE DialPrepared'
  BY <1>12, WrittenColumns DEF MarkQueued, Write, RowsFollowPC, TypeOK, Goto,
     BeforeRow, WithRow, Failing
<1>13. ASSUME NEW r \in Calls, MarkFailed(r) PROVE DialPrepared'
  BY <1>13, WrittenColumns DEF MarkFailed, Write, RowsFollowPC, TypeOK, Goto,
     BeforeRow, WithRow, Failing
<1>14. ASSUME NEW r \in Calls, AnnounceFailure(r) PROVE DialPrepared'
  BY <1>14 DEF AnnounceFailure, RowsFollowPC, TypeOK, Goto, BeforeRow,
     WithRow, Failing
<1>15. ASSUME NEW r \in Calls, DatabaseFault(r) PROVE DialPrepared'
  <2>1. \A c \in Calls \ {r} : calls'[c] = calls[c] /\ pc'[c] = pc[c]
    BY <1>15 DEF DatabaseFault, Write, TypeOK
  <2>2. pc'[r] \in {"failing", "errored"}
    BY <1>15 DEF DatabaseFault, TypeOK
  <2>3. r \in dialled => (Cloning => calls'[r].lyzr_call_agent_id)
    BY <1>15, WrittenColumns
       DEF DatabaseFault, Write, RowsFollowPC, TypeOK, BeforeRow
  <2>4. QED
    BY <1>15, <2>1, <2>2, <2>3 DEF DatabaseFault
<1>16. CASE PlacementCrash
  BY <1>16 DEF PlacementCrash, LoseRequests, RowsFollowPC, TypeOK, Goto,
     BeforeRow, WithRow, Failing
<1>17. CASE Tick
  BY <1>17 DEF Tick, RowsFollowPC, TypeOK, Goto, BeforeRow, WithRow, Failing
<1>18. CASE UNCHANGED placementVars
  BY <1>18 DEF placementVars, RowsFollowPC, TypeOK, Goto, BeforeRow, WithRow,
     Failing
<1>19. QED
  BY <1>1, <1>2, <1>3, <1>4, <1>5, <1>6, <1>7, <1>8, <1>9, <1>10, <1>11,
     <1>12, <1>13, <1>14, <1>15, <1>16, <1>17, <1>18
     DEF PlacementNext, Advance

LEMMA RepliesOwnedStep ==
    ASSUME RequestInv, [PlacementNext]_placementVars
    PROVE  RepliesOwned'
<1> USE PlacementAssumption DEF RequestInv, RepliesOwned, Exists
<1>1. ASSUME NEW r \in Calls, Receive(r) PROVE RepliesOwned'
  BY <1>1 DEF Receive, RowsFollowPC, TypeOK, Goto, InFlight, BeforeRow,
     WithRow, Failing
<1>2. ASSUME NEW r \in Calls, LookUp(r) PROVE RepliesOwned'
  BY <1>2 DEF LookUp, Replay, FindByIdempotencyKey, RowsFollowPC, TypeOK,
     Goto, InFlight, BeforeRow, WithRow, Failing
<1>3. ASSUME NEW r \in Calls, CountCalls(r) PROVE RepliesOwned'
  BY <1>3 DEF CountCalls, RowsFollowPC, TypeOK, Goto, InFlight, BeforeRow,
     WithRow, Failing
<1>4. ASSUME NEW r \in Calls, CheckGap(r) PROVE RepliesOwned'
  BY <1>4 DEF CheckGap, RowsFollowPC, TypeOK, Goto, InFlight, BeforeRow,
     WithRow, Failing
<1>5. ASSUME NEW r \in Calls, Screen(r) PROVE RepliesOwned'
  BY <1>5 DEF Screen, RowsFollowPC, TypeOK, Goto, InFlight, BeforeRow,
     WithRow, Failing
<1>6. ASSUME NEW r \in Calls, CreateRow(r) PROVE RepliesOwned'
  <2>1. CASE UniqueViolation(r)
    BY <1>6, <2>1 DEF CreateRow, UniqueViolation, TypeOK, Goto, InFlight,
                      BeforeRow
  <2>2. CASE ~UniqueViolation(r)
    <3>1. pc' = [pc EXCEPT ![r] = "prepare"] /\ pc[r] = "insert"
      BY <1>6, <2>2 DEF CreateRow, Goto
    <3>2. reply' = reply /\ \A c \in Calls : Exists(c) => Exists(c)'
      BY <1>6, <2>2, <3>1, WrittenExists DEF CreateRow, Write, TypeOK
    <3>3. reply[r] = NoCall
      BY <3>1 DEF InFlight, BeforeRow
    <3>4. QED
      BY <3>1, <3>2, <3>3 DEF TypeOK
  <2>3. QED
    BY <2>1, <2>2
<1>7. ASSUME NEW r \in Calls, Refetch(r) PROVE RepliesOwned'
  BY <1>7 DEF Refetch, Replay, FindByIdempotencyKey, RowsFollowPC, TypeOK,
     Goto, InFlight, BeforeRow, WithRow, Failing
<1>8. ASSUME NEW r \in Calls, MarkPreparing(r) PROVE RepliesOwned'
  BY <1>8, WrittenExists DEF MarkPreparing, Write, RowsFollowPC, TypeOK, Goto,
     InFlight, BeforeRow, WithRow, Failing
<1>9. ASSUME NEW r \in Calls, PrepareAgent(r) PROVE RepliesOwned'
  BY <1>9 DEF PrepareAgent, RowsFollowPC, TypeOK, Goto, InFlight, BeforeRow,
     WithRow, Failing
<1>10. ASSUME NEW r \in Calls, MarkPrepared(r) PROVE RepliesOwned'
  BY <1>10, WrittenExists DEF MarkPrepared, Write, RowsFollowPC, TypeOK, Goto,
     InFlight, BeforeRow, WithRow, Failing
<1>11. ASSUME NEW r \in Calls, Dial(r) PROVE RepliesOwned'
  BY <1>11 DEF Dial, RowsFollowPC, TypeOK, Goto, InFlight, BeforeRow, WithRow,
     Failing
<1>12. ASSUME NEW r \in Calls, MarkQueued(r) PROVE RepliesOwned'
  BY <1>12, WrittenExists DEF MarkQueued, Write, RowsFollowPC, TypeOK, Goto,
     InFlight, BeforeRow, WithRow, Failing
<1>13. ASSUME NEW r \in Calls, MarkFailed(r) PROVE RepliesOwned'
  BY <1>13, WrittenExists DEF MarkFailed, Write, RowsFollowPC, TypeOK, Goto,
     InFlight, BeforeRow, WithRow, Failing
<1>14. ASSUME NEW r \in Calls, AnnounceFailure(r) PROVE RepliesOwned'
  BY <1>14 DEF AnnounceFailure, RowsFollowPC, TypeOK, Goto, InFlight,
     BeforeRow, WithRow, Failing
<1>15. ASSUME NEW r \in Calls, DatabaseFault(r) PROVE RepliesOwned'
  BY <1>15, WrittenExists DEF DatabaseFault, Write, RowsFollowPC, TypeOK,
     Goto, InFlight, BeforeRow, WithRow, Failing
<1>16. CASE PlacementCrash
  BY <1>16 DEF PlacementCrash, LoseRequests, RowsFollowPC, TypeOK, Goto,
     InFlight, BeforeRow, WithRow, Failing
<1>17. CASE Tick
  BY <1>17 DEF Tick, RowsFollowPC, TypeOK, Goto, InFlight, BeforeRow, WithRow,
     Failing
<1>18. CASE UNCHANGED placementVars
  BY <1>18 DEF placementVars, RowsFollowPC, TypeOK, Goto, InFlight, BeforeRow,
     WithRow, Failing
<1>19. QED
  BY <1>1, <1>2, <1>3, <1>4, <1>5, <1>6, <1>7, <1>8, <1>9, <1>10, <1>11,
     <1>12, <1>13, <1>14, <1>15, <1>16, <1>17, <1>18
     DEF PlacementNext, Advance

-----------------------------------------------------------------------------
(* The invariant, and what it implies. *)

LEMMA RequestInvStep ==
    ASSUME RequestInv, [PlacementNext]_placementVars
    PROVE  RequestInv'
  BY TypeStep, RowsFollowPCStep, KeysUniqueStep, DialsHaveRowsStep,
     RepliesOwnedStep DEF RequestInv

LEMMA Inductive == PlacementSpec => []IInv
<1>1. IInv /\ [PlacementNext]_placementVars => IInv'
  BY RequestInvStep, DialPreparedStep DEF IInv
<1>2. QED
  BY InitIInv, <1>1, PTL DEF PlacementSpec

LEMMA RequestsInvariant == PlacementSpec => []RequestInv
<1>1. IInv => RequestInv
  BY DEF IInv
<1>2. QED
  BY Inductive, <1>1, PTL

\* The state of placeCall's requests, of the table and of the clock stays
\* within its types.
THEOREM TypeCorrect == PlacementSpec => []TypeOK
<1>1. RequestInv => TypeOK
  BY DEF RequestInv
<1>2. QED
  BY RequestsInvariant, <1>1, PTL

LEMMA InvOneDial == RequestInv => OneDialPerKey
  BY DEF RequestInv, TypeOK, KeysUnique, DialsHaveRows, OneDialPerKey

\* At most one phone rings for an Idempotency-Key.
THEOREM OneDial == PlacementSpec => []OneDialPerKey
  BY RequestsInvariant, InvOneDial, PTL

LEMMA InvAgreement == RequestInv => AnswersAgree
<1> SUFFICES ASSUME RequestInv PROVE AnswersAgree
  OBVIOUS
<1>1. \A r \in Calls : reply[r] # NoCall /\ KeyOf[r] # NoKey =>
          /\ reply[r] \in Calls /\ Exists(reply[r])
          /\ KeyOf[reply[r]] = KeyOf[r]
  BY DEF RequestInv, TypeOK, RepliesOwned
<1>2. QED
  BY <1>1 DEF RequestInv, KeysUnique, AnswersAgree

\* All callers of a key are told of the same call.
THEOREM Agreement == PlacementSpec => []AnswersAgree
  BY RequestsInvariant, InvAgreement, PTL

\* What a caller is told is what happened.
THEOREM Truthful == PlacementSpec => []AnswerMatchesEffect
<1>1. IInv => AnswerMatchesEffect
  BY DEF IInv, RequestInv, RowsFollowPC, DialsHaveRows, DialPrepared,
         AnswerMatchesEffect
<1>2. QED
  BY Inductive, <1>1, PTL

\* Nothing is dialled before its row, its verified agent and the record of its
\* clone exist.
THEOREM DialsPrepared == PlacementSpec => DialPreconditions
<1>1. ASSUME IInv, [PlacementNext]_placementVars, NEW c \in dialled' \ dialled
      PROVE  c \in verified /\ Exists(c) /\ (Cloning => calls[c].lyzr_call_agent_id)
  <2>1. PICK r \in Calls : Dial(r)
    BY <1>1 DEF PlacementNext, placementVars, Receive, Advance, LookUp, Replay, CountCalls,
                CheckGap, Screen, CreateRow, Refetch, MarkPreparing, PrepareAgent,
                MarkPrepared, MarkQueued, MarkFailed, AnnounceFailure, DatabaseFault,
                PlacementCrash, Tick
  <2>2. c = r /\ pc[r] = "dial"
    BY <1>1, <2>1 DEF Dial, Goto
  <2>3. QED
    BY <1>1, <2>2 DEF IInv, RequestInv, RowsFollowPC, WithRow, DialPrepared
<1>2. IInv /\ [PlacementNext]_placementVars
      => [\A c \in dialled' \ dialled :
            c \in verified /\ Exists(c) /\ (Cloning => calls[c].lyzr_call_agent_id)]_dialled
  BY <1>1
<1>3. QED
  BY Inductive, <1>2, PTL DEF PlacementSpec, DialPreconditions

-----------------------------------------------------------------------------
(* The gap before a follow-up. *)

\* No row is from the future.
CreatedInThePast == \A c \in Calls : Exists(c) => calls[c].created_at <= now

\* Two requests for one lead that are both between the count and the INSERT
\* are on record as a race.
RacesRecorded ==
    \A q, r \in Calls :
        /\ q # r /\ LeadOf[q] = LeadOf[r]
        /\ pc[q] \in {"gap", "screen", "insert"}
        /\ pc[r] \in {"gap", "screen", "insert"}
        => LeadOf[r] \in raced

\* The gap separates r from every row of its lead.
ClearOf(r) == \A d \in Calls : Exists(d) /\ LeadOf[d] = LeadOf[r]
                                  => now - calls[d].created_at >= MinGap

\* What a follow-up that passed the gap check found stays true until its
\* INSERT, unless it raced.
GapStaysChecked ==
    \A r \in FollowUps :
        pc[r] \in {"screen", "insert"} /\ LeadOf[r] \notin raced => ClearOf(r)

GapInv == /\ CreatedInThePast /\ RacesRecorded
          /\ MaxCallsPerLead > 0 => GapStaysChecked
          /\ FollowUpGap

\* Neither the clock nor the record of races goes back.
LEMMA Monotonic ==
    ASSUME RequestInv, [PlacementNext]_placementVars
    PROVE  now' \in Nat /\ now' >= now /\ raced \subseteq raced'
<1> DEFINE Goal == now' \in Nat /\ now' >= now /\ raced \subseteq raced'
<1> USE DEF RequestInv, TypeOK
<1>1. ASSUME NEW r \in Calls, Receive(r) \/ Advance(r) PROVE Goal
  BY <1>1 DEF Receive, Advance, LookUp, Replay, CountCalls, CheckGap, Screen,
              CreateRow, Refetch, MarkPreparing, PrepareAgent, MarkPrepared,
              Dial, MarkQueued, MarkFailed, AnnounceFailure
<1>2. ASSUME NEW r \in Calls, DatabaseFault(r) PROVE Goal
  BY <1>2 DEF DatabaseFault
<1>3. CASE PlacementCrash \/ Tick \/ UNCHANGED placementVars
  BY <1>3 DEF PlacementCrash, Tick, placementVars
<1>4. QED
  BY <1>1, <1>2, <1>3 DEF PlacementNext

LEMMA RacesRecordedStep ==
    ASSUME RequestInv, RacesRecorded, [PlacementNext]_placementVars
    PROVE  RacesRecorded'
<1> USE CallsAssumption DEF RequestInv, RacesRecorded
<1>1. ASSUME NEW r \in Calls, CountCalls(r) PROVE RacesRecorded'
  BY <1>1 DEF CountCalls, Deciding, TypeOK, Goto
<1>2. ASSUME NEW r \in Calls,
             \/ Receive(r) \/ LookUp(r) \/ CheckGap(r) \/ Screen(r)
             \/ CreateRow(r) \/ Refetch(r)
      PROVE  RacesRecorded'
  BY <1>2 DEF Receive, LookUp, Replay, CheckGap, Screen, CreateRow, Refetch,
              TypeOK, Goto
<1>3. ASSUME NEW r \in Calls,
             \/ MarkPreparing(r) \/ PrepareAgent(r) \/ MarkPrepared(r)
             \/ Dial(r) \/ MarkQueued(r) \/ MarkFailed(r)
             \/ AnnounceFailure(r)
      PROVE  RacesRecorded'
  BY <1>3 DEF MarkPreparing, PrepareAgent, MarkPrepared, Dial, MarkQueued,
              MarkFailed, AnnounceFailure, TypeOK, Goto
<1>4. ASSUME NEW r \in Calls, DatabaseFault(r) PROVE RacesRecorded'
  BY <1>4 DEF DatabaseFault, WithRow, TypeOK
<1>5. CASE PlacementCrash \/ Tick \/ UNCHANGED placementVars
  BY <1>5 DEF PlacementCrash, LoseRequests, Tick, placementVars, TypeOK
<1>6. QED
  BY <1>1, <1>2, <1>3, <1>4, <1>5 DEF PlacementNext, Advance

\* A follow-up gets past the gap check only by passing it, or when no gap is
\* configured; the table and the clock do not move in that step.
LEMMA FollowUpPasses ==
    ASSUME RequestInv, [PlacementNext]_placementVars, MaxCallsPerLead > 0,
           NEW q \in FollowUps,
           pc'[q] \in {"screen", "insert"}, pc[q] \notin {"screen", "insert"}
    PROVE  UNCHANGED <<calls, now>> /\ (MinGap = 0 \/ ~TooSoon(q))
<1> DEFINE Goal == UNCHANGED <<calls, now>> /\ (MinGap = 0 \/ ~TooSoon(q))
<1> USE PlacementAssumption DEF RequestInv
<1>1. ASSUME NEW r \in Calls, CountCalls(r) PROVE Goal
  BY <1>1 DEF CountCalls, TypeOK, Goto
<1>2. ASSUME NEW r \in Calls, CheckGap(r) PROVE Goal
  BY <1>2 DEF CheckGap, TypeOK, Goto
<1>3. ASSUME NEW r \in Calls,
             Receive(r) \/ LookUp(r) \/ Screen(r) \/ CreateRow(r) \/ Refetch(r)
      PROVE  Goal
  BY <1>3 DEF Receive, LookUp, Replay, Screen, CreateRow, Refetch, TypeOK, Goto
<1>4. ASSUME NEW r \in Calls,
             \/ MarkPreparing(r) \/ PrepareAgent(r) \/ MarkPrepared(r)
             \/ Dial(r) \/ MarkQueued(r) \/ MarkFailed(r)
             \/ AnnounceFailure(r)
      PROVE  Goal
  BY <1>4 DEF MarkPreparing, PrepareAgent, MarkPrepared, Dial, MarkQueued,
              MarkFailed, AnnounceFailure, TypeOK, Goto
<1>5. ASSUME NEW r \in Calls, DatabaseFault(r) PROVE Goal
  BY <1>5 DEF DatabaseFault, TypeOK, WithRow
<1>6. CASE PlacementCrash \/ Tick \/ UNCHANGED placementVars
  BY <1>6 DEF PlacementCrash, LoseRequests, Tick, placementVars, TypeOK
<1>7. QED
  BY <1>1, <1>2, <1>3, <1>4, <1>5, <1>6 DEF PlacementNext, Advance

LEMMA GapInductive ==
    ASSUME RequestInv, GapInv, [PlacementNext]_placementVars
    PROVE  GapInv'
<1> USE DEF GapInv
<1>1. /\ now \in Nat /\ \A c \in Calls : calls[c].created_at \in Nat
      /\ now' \in Nat /\ now' >= now /\ raced \subseteq raced'
      /\ MinGap \in Nat
  BY Monotonic, PlacementAssumption DEF RequestInv, TypeOK, Row
<1>2. CreatedInThePast'
  <2>1. CASE SameRows
    BY <1>1, <2>1 DEF CreatedInThePast, SameRows
  <2>2. ASSUME NEW r \in Calls, Inserts(r) PROVE CreatedInThePast'
    BY <1>1, <2>2, WrittenExists
       DEF CreatedInThePast, Inserts, Exists, RequestInv, TypeOK
  <2>3. QED
    BY <2>1, <2>2, TableStep
<1>3. RacesRecorded'
  BY RacesRecordedStep
<1>4. ASSUME MaxCallsPerLead > 0 PROVE GapStaysChecked'
  <2> SUFFICES ASSUME NEW q \in FollowUps, pc'[q] \in {"screen", "insert"},
                      LeadOf[q] \notin raced'
               PROVE  ClearOf(q)'
    BY DEF GapStaysChecked
  <2>1. q \in Calls /\ LeadOf[q] \notin raced
    BY <1>1, PlacementAssumption
  <2>2. CASE pc[q] \notin {"screen", "insert"}
    <3>1. UNCHANGED <<calls, now>> /\ (MinGap = 0 \/ ~TooSoon(q))
      BY <1>4, <2>2, FollowUpPasses
    <3>2. ASSUME NEW d \in Calls, Exists(d), LeadOf[d] = LeadOf[q]
          PROVE  now - calls[d].created_at >= MinGap
      BY <1>1, <3>1, <3>2 DEF TooSoon, CallsTo, CreatedInThePast
    <3>3. QED
      BY <3>1, <3>2 DEF ClearOf, Exists
  <2>3. CASE pc[q] \in {"screen", "insert"}
    <3>1. ClearOf(q)
      BY <1>4, <2>1, <2>3 DEF GapStaysChecked
    <3>2. CASE SameRows
      BY <1>1, <3>1, <3>2 DEF ClearOf, SameRows
    <3>3. ASSUME NEW r \in Calls, Inserts(r) PROVE ClearOf(q)'
      <4>1. CASE LeadOf[r] # LeadOf[q]
        BY <1>1, <3>1, <3>3, <4>1 DEF ClearOf, Inserts, Exists, RequestInv, TypeOK
      <4>2. CASE LeadOf[r] = LeadOf[q] /\ r # q
        BY <2>1, <2>3, <3>3, <4>2 DEF Inserts, RacesRecorded
      <4>3. CASE r = q
        BY <3>3, <4>3 DEF Inserts
      <4>4. QED
        BY <4>1, <4>2, <4>3
    <3>4. QED
      BY <3>2, <3>3, TableStep
  <2>4. QED
    BY <2>2, <2>3
<1>5. FollowUpGap'
  <2>1. CASE SameRows
    BY <1>1, <2>1, PlacementAssumption DEF FollowUpGap, SameRows
  <2>2. ASSUME NEW r \in Calls, Inserts(r) PROVE FollowUpGap'
    <3> SUFFICES ASSUME MaxCallsPerLead > 0,
                        NEW c \in FollowUps, NEW d \in Calls,
                        Exists(c)', Exists(d)',
                        LeadOf[c] = LeadOf[d], LeadOf[c] \notin raced',
                        calls'[d].created_at < calls'[c].created_at
                 PROVE  calls'[c].created_at - calls'[d].created_at >= MinGap
      BY DEF FollowUpGap
    <3>1. c \in Calls /\ LeadOf[c] \notin raced
      BY <1>1, PlacementAssumption
    <3>2. /\ calls'[r].created_at = now
          /\ \A b \in Calls \ {r} : calls'[b] = calls[b]
      BY <2>2, WrittenExists DEF Inserts, RequestInv, TypeOK
    <3>3. CASE c = r
      <4>1. ClearOf(c)
        BY <2>2, <3>1, <3>3 DEF Inserts, GapStaysChecked
      <4>2. d # r
        BY <1>1, <3>2, <3>3
      <4>3. QED
        BY <3>2, <3>3, <4>1, <4>2 DEF ClearOf, Exists
    <3>4. CASE c # r /\ d = r
      BY <1>1, <3>1, <3>2, <3>4 DEF CreatedInThePast, Exists
    <3>5. CASE c # r /\ d # r
      BY <3>1, <3>2, <3>5 DEF FollowUpGap, Exists
    <3>6. QED
      BY <3>3, <3>4, <3>5
  <2>3. QED
    BY <2>1, <2>2, TableStep
<1>6. QED
  BY <1>2, <1>3, <1>4, <1>5

\* A follow-up is created at least MIN_HOURS_BETWEEN_CALLS after every earlier
\* call to its lead, as long as no two requests for that lead raced.
THEOREM GapRespected == PlacementSpec => []FollowUpGap
<1>1. PlacementInit => GapInv
  <2> SUFFICES ASSUME PlacementInit PROVE GapInv
    OBVIOUS
  <2>1. \A r \in Calls : ~Exists(r) /\ pc[r] = "idle"
    BY DEF PlacementInit, Exists, NoRow
  <2>2. QED
    BY <2>1, PlacementAssumption
       DEF GapInv, CreatedInThePast, RacesRecorded, GapStaysChecked, FollowUpGap
<1>2. RequestInv /\ RequestInv' /\ GapInv /\ [PlacementNext]_placementVars => GapInv'
  BY GapInductive
<1>3. GapInv => FollowUpGap
  BY DEF GapInv
<1>4. QED
  BY RequestsInvariant, <1>1, <1>2, <1>3, PTL DEF PlacementSpec

-----------------------------------------------------------------------------
(* The contact cap. *)

\* Nothing brings a failed call back.
FailedIsLast ==
    \A c \in Calls : calls[c].status = "failed"
                         => pc[c] \in {"failed", "errored", "lost"}

RowsFinite == IsFiniteSet({c \in Calls : Exists(c)})

RecentCalls(lead, since) == {c \in Calls : /\ Exists(c)
                                           /\ LeadOf[c] = lead
                                           /\ calls[c].created_at >= since
                                           /\ calls[c].status # "failed"}

\* There is room for one more call to a lead that does not race while a request
\* about it is past the count.
RoomIsKept ==
    \A r \in Calls :
        pc[r] \in {"gap", "screen", "insert"} /\ LeadOf[r] \notin raced
            => CountRecentCallsTo(LeadOf[r], WindowStart) < MaxCallsPerLead

CapInv == /\ FailedIsLast /\ RowsFinite /\ RacesRecorded
          /\ MaxCallsPerLead > 0 => RoomIsKept
          /\ ContactCap

\* The rows that count are finitely many, and their number is a number.
LEMMA RecentIsFinite ==
    ASSUME RowsFinite, NEW lead, NEW since
    PROVE  /\ IsFiniteSet(RecentCalls(lead, since))
           /\ CountRecentCallsTo(lead, since) = Cardinality(RecentCalls(lead, since))
           /\ CountRecentCallsTo(lead, since) \in Nat
<1>1. RecentCalls(lead, since) \in SUBSET {c \in Calls : Exists(c)}
  BY DEF RecentCalls
<1>2. IsFiniteSet(RecentCalls(lead, since))
  BY <1>1, FS_Subset DEF RowsFinite
<1>3. CountRecentCallsTo(lead, since) = Cardinality(RecentCalls(lead, since))
  BY DEF CountRecentCallsTo, RecentCalls
<1>4. QED
  BY <1>2, <1>3, FS_CardinalityType

\* The window only moves on.
LEMMA WindowMovesOn ==
    ASSUME RequestInv, [PlacementNext]_placementVars
    PROVE  WindowStart \in Nat /\ WindowStart' \in Nat /\ WindowStart' >= WindowStart
<1>1. now \in Nat /\ now' \in Nat /\ now' >= now /\ Window \in Nat
  BY Monotonic, PlacementAssumption DEF RequestInv, TypeOK
<1>2. IF now > Window THEN WindowStart = now - Window ELSE WindowStart = 0
  BY DEF WindowStart
<1>3. IF now' > Window THEN WindowStart' = now' - Window ELSE WindowStart' = 0
  BY DEF WindowStart
<1>4. QED
  BY <1>1, <1>2, <1>3

LEMMA FailedIsLastStep ==
    ASSUME RequestInv, FailedIsLast, [PlacementNext]_placementVars
    PROVE  FailedIsLast'
<1> USE DEF RequestInv, FailedIsLast
<1>1. ASSUME NEW r \in Calls,
             \/ Receive(r) \/ LookUp(r) \/ CountCalls(r) \/ CheckGap(r)
             \/ Screen(r) \/ Refetch(r) \/ PrepareAgent(r) \/ Dial(r)
             \/ AnnounceFailure(r)
      PROVE  FailedIsLast'
  BY <1>1 DEF Receive, LookUp, Replay, CountCalls, CheckGap, Screen, Refetch,
              PrepareAgent, Dial, AnnounceFailure, Goto, TypeOK
<1>2. ASSUME NEW r \in Calls,
             \/ CreateRow(r) \/ MarkPreparing(r) \/ MarkPrepared(r)
             \/ MarkQueued(r) \/ MarkFailed(r)
      PROVE  FailedIsLast'
  <2>1. \A c \in Calls \ {r} : calls'[c] = calls[c] /\ pc'[c] = pc[c]
    BY <1>2 DEF CreateRow, MarkPreparing, MarkPrepared, MarkQueued, MarkFailed,
                Write, Goto, TypeOK
  <2>2. CASE MarkFailed(r)
    BY <2>1, <2>2 DEF MarkFailed, Goto, TypeOK
  <2>3. CASE ~MarkFailed(r)
    <3>1. calls[r].status # "failed"
      BY <1>2, <2>3 DEF CreateRow, MarkPreparing, MarkPrepared, MarkQueued, Goto
    <3>2. \/ calls' = calls
          \/ /\ calls' = [calls EXCEPT ![r] = Written(r)]
             /\ pc[r] \in {"insert", "prepare", "record", "queue"}
      BY <1>2, <2>3 DEF CreateRow, MarkPreparing, MarkPrepared, MarkQueued,
                        Write, Goto
    <3>3. pc[r] \in {"insert", "prepare", "record", "queue"}
              => Written(r).status # "failed"
      BY DEF Written, NoRow, TypeOK, Row
    <3>4. calls'[r].status # "failed"
      BY <3>1, <3>2, <3>3 DEF TypeOK
    <3>5. QED
      BY <2>1, <3>4
  <2>4. QED
    BY <2>2, <2>3
<1>3. ASSUME NEW r \in Calls, DatabaseFault(r) PROVE FailedIsLast'
  <2>1. \A c \in Calls \ {r} : calls'[c] = calls[c] /\ pc'[c] = pc[c]
    BY <1>3 DEF DatabaseFault, Write, TypeOK
  <2>2. CASE pc[r] \in WithRow
    <3>1. calls[r].status # "failed"
      BY <2>2 DEF WithRow
    <3>2. calls'[r].status # "failed"
      BY <1>3, <2>2, <3>1
         DEF DatabaseFault, Write, Written, WithRow, NoRow, TypeOK, Row
    <3>3. QED
      BY <2>1, <3>2
  <2>3. CASE pc[r] \notin WithRow
    <3>1. pc'[r] = "errored"
      BY <1>3, <2>3 DEF DatabaseFault, TypeOK
    <3>2. QED
      BY <2>1, <3>1
  <2>4. QED
    BY <2>2, <2>3
<1>4. CASE PlacementCrash \/ Tick \/ UNCHANGED placementVars
  BY <1>4 DEF PlacementCrash, LoseRequests, Tick, placementVars, TypeOK,
              InFlight, Failing
<1>5. QED
  BY <1>1, <1>2, <1>3, <1>4 DEF PlacementNext, Advance

\* A failed call stays failed, so none comes back into the count.
LEMMA FailedStays ==
    ASSUME RequestInv, FailedIsLast, [PlacementNext]_placementVars,
           NEW c \in Calls, calls[c].status = "failed"
    PROVE  calls'[c].status = "failed"
<1> USE DEF RequestInv, FailedIsLast
<1>1. pc[c] \in {"failed", "errored", "lost"}
  OBVIOUS
<1>2. ASSUME NEW r \in Calls, Receive(r) \/ Advance(r)
      PROVE  calls'[c].status = "failed"
  BY <1>1, <1>2 DEF Receive, Advance, LookUp, Replay, CountCalls, CheckGap,
                    Screen, CreateRow, Refetch, MarkPreparing, PrepareAgent,
                    MarkPrepared, Dial, MarkQueued, MarkFailed,
                    AnnounceFailure, Write, Goto, TypeOK
<1>3. ASSUME NEW r \in Calls, DatabaseFault(r)
      PROVE  calls'[c].status = "failed"
  BY <1>1, <1>3 DEF DatabaseFault, Write, Written, TypeOK
<1>4. CASE PlacementCrash \/ Tick \/ UNCHANGED placementVars
  BY <1>4 DEF PlacementCrash, Tick, placementVars
<1>5. QED
  BY <1>2, <1>3, <1>4 DEF PlacementNext

\* A request gets past the count only with room for its call.
LEMMA CountPasses ==
    ASSUME RequestInv, [PlacementNext]_placementVars, MaxCallsPerLead > 0,
           NEW q \in Calls,
           pc'[q] \in {"gap", "screen", "insert"},
           pc[q] \notin {"gap", "screen", "insert"}
    PROVE  UNCHANGED <<calls, now>> /\ ~OverTheCap(q)
<1> DEFINE Goal == UNCHANGED <<calls, now>> /\ ~OverTheCap(q)
<1> USE DEF RequestInv
<1>1. ASSUME NEW r \in Calls, CountCalls(r) PROVE Goal
  <2>1. r = q /\ UNCHANGED <<calls, now>>
    BY <1>1 DEF CountCalls, TypeOK, Goto
  <2>2. ASSUME OverTheCap(q) PROVE FALSE
    <3>1. Goto(q, "count", "refused")
      BY <1>1, <2>1, <2>2 DEF CountCalls
    <3>2. QED
      BY <3>1 DEF Goto, TypeOK
  <2>3. QED
    BY <2>1, <2>2
<1>2. ASSUME NEW r \in Calls,
             \/ Receive(r) \/ LookUp(r) \/ CheckGap(r) \/ Screen(r)
             \/ CreateRow(r) \/ Refetch(r)
      PROVE  Goal
  BY <1>2 DEF Receive, LookUp, Replay, CheckGap, Screen, CreateRow, Refetch,
              TypeOK, Goto
<1>3. ASSUME NEW r \in Calls,
             \/ MarkPreparing(r) \/ PrepareAgent(r) \/ MarkPrepared(r)
             \/ Dial(r) \/ MarkQueued(r) \/ MarkFailed(r)
             \/ AnnounceFailure(r)
      PROVE  Goal
  BY <1>3 DEF MarkPreparing, PrepareAgent, MarkPrepared, Dial, MarkQueued,
              MarkFailed, AnnounceFailure, TypeOK, Goto
<1>4. ASSUME NEW r \in Calls, DatabaseFault(r) PROVE Goal
  BY <1>4 DEF DatabaseFault, TypeOK, WithRow
<1>5. CASE PlacementCrash \/ Tick \/ UNCHANGED placementVars
  BY <1>5 DEF PlacementCrash, LoseRequests, Tick, placementVars, TypeOK
<1>6. QED
  BY <1>1, <1>2, <1>3, <1>4, <1>5 DEF PlacementNext, Advance

\* As long as no row is inserted, no count grows.
LEMMA CountsDoNotGrow ==
    ASSUME RequestInv, FailedIsLast, RowsFinite,
           [PlacementNext]_placementVars, SameRows, NEW lead
    PROVE  /\ RowsFinite'
           /\ CountRecentCallsTo(lead, WindowStart)'
                  <= CountRecentCallsTo(lead, WindowStart)
<1>1. {c \in Calls : Exists(c)}' = {c \in Calls : Exists(c)}
  BY DEF SameRows
<1>2. RowsFinite'
  BY <1>1 DEF RowsFinite
<1>3. \A c \in Calls : calls[c].created_at \in Nat
  BY DEF RequestInv, TypeOK, Row
<1>4. RecentCalls(lead, WindowStart)' \in SUBSET RecentCalls(lead, WindowStart)
  BY <1>3, WindowMovesOn, FailedStays DEF RecentCalls, SameRows
<1>5. Cardinality(RecentCalls(lead, WindowStart)')
          <= Cardinality(RecentCalls(lead, WindowStart))
  BY <1>4, RecentIsFinite, FS_Subset
<1>6. CountRecentCallsTo(lead, WindowStart)'
          = Cardinality(RecentCalls(lead, WindowStart)')
  BY DEF CountRecentCallsTo, RecentCalls
<1>7. QED
  BY <1>2, <1>5, <1>6, RecentIsFinite

\* A request that inserts its row adds one to the count of its lead.
LEMMA InsertAddsOne ==
    ASSUME RequestInv, FailedIsLast, RowsFinite,
           [PlacementNext]_placementVars,
           NEW r \in Calls, Inserts(r), NEW lead
    PROVE  /\ RowsFinite'
           /\ CountRecentCallsTo(lead, WindowStart)'
                  <= CountRecentCallsTo(lead, WindowStart)
                     + (IF lead = LeadOf[r] THEN 1 ELSE 0)
<1>1. \A c \in Calls \ {r} : calls'[c] = calls[c]
  BY DEF Inserts, RequestInv, TypeOK
<1>2. WindowStart' = WindowStart
  BY DEF Inserts, WindowStart
<1> DEFINE Rows == {c \in Calls : Exists(c)}
           Recent == RecentCalls(lead, WindowStart)
           More == IF lead = LeadOf[r] THEN Recent \cup {r} ELSE Recent
<1>3. RowsFinite'
  <2>1. Rows' \in SUBSET (Rows \cup {r})
    BY <1>1 DEF Exists
  <2>2. IsFiniteSet(Rows \cup {r})
    BY FS_AddElement DEF RowsFinite
  <2>3. QED
    BY <2>1, <2>2, FS_Subset DEF RowsFinite
<1>4. Recent' \in SUBSET More
  BY <1>1, <1>2 DEF RecentCalls, Exists
<1>5. IsFiniteSet(Recent) /\ Cardinality(Recent) \in Nat
  BY RecentIsFinite, FS_CardinalityType
<1>6. /\ IsFiniteSet(More) /\ Cardinality(More) \in Nat
      /\ Cardinality(More) <= Cardinality(Recent)
                              + (IF lead = LeadOf[r] THEN 1 ELSE 0)
  <2>1. CASE lead = LeadOf[r]
    <3>1. /\ IsFiniteSet(Recent \cup {r})
          /\ Cardinality(Recent \cup {r}) =
                 IF r \in Recent THEN Cardinality(Recent) ELSE Cardinality(Recent) + 1
      BY <1>5, FS_AddElement
    <3>2. More = Recent \cup {r}
      BY <2>1
    <3> HIDE DEF Recent, More
    <3>3. QED
      BY <1>5, <2>1, <3>1, <3>2
  <2>2. CASE lead # LeadOf[r]
    BY <1>5, <2>2
  <2>3. QED
    BY <2>1, <2>2
<1>7. IsFiniteSet(Recent') /\ Cardinality(Recent') <= Cardinality(More)
  BY <1>4, <1>6, FS_Subset
<1>8. Cardinality(Recent') \in Nat
  BY <1>7, FS_CardinalityType
<1>9. /\ CountRecentCallsTo(lead, WindowStart)' = Cardinality(Recent')
      /\ CountRecentCallsTo(lead, WindowStart) = Cardinality(Recent)
  BY DEF CountRecentCallsTo, RecentCalls
<1> HIDE DEF More, Recent
<1>10. QED
  BY <1>3, <1>5, <1>6, <1>7, <1>8, <1>9

LEMMA CapInductive ==
    ASSUME RequestInv, CapInv, [PlacementNext]_placementVars
    PROVE  CapInv'
<1> USE DEF CapInv
<1> DEFINE Count(lead) == CountRecentCallsTo(lead, WindowStart)
<1>1. FailedIsLast' /\ RacesRecorded' /\ raced \subseteq raced'
  BY FailedIsLastStep, RacesRecordedStep, Monotonic
<1>2. MaxCallsPerLead \in Nat /\ \A c \in Calls : LeadOf[c] \in Leads
  BY PlacementAssumption, CallsAssumption
<1>3. \A lead : Count(lead) \in Nat
  BY RecentIsFinite
<1>4. RowsFinite'
  BY CountsDoNotGrow, InsertAddsOne, TableStep
<1>5. \A lead : Count(lead)' \in Nat
  <2> SUFFICES ASSUME NEW lead PROVE Count(lead)' \in Nat
    OBVIOUS
  <2>1. RecentCalls(lead, WindowStart)' \in SUBSET {c \in Calls : Exists(c)}'
    BY DEF RecentCalls
  <2>2. IsFiniteSet(RecentCalls(lead, WindowStart)')
    BY <1>4, <2>1, FS_Subset DEF RowsFinite
  <2>3. Count(lead)' = Cardinality(RecentCalls(lead, WindowStart)')
    BY DEF CountRecentCallsTo, RecentCalls
  <2>4. QED
    BY <2>2, <2>3, FS_CardinalityType
<1>6. ASSUME MaxCallsPerLead > 0,
             NEW q \in Calls, pc'[q] \in {"gap", "screen", "insert"},
             LeadOf[q] \notin raced'
      PROVE  Count(LeadOf[q])' < MaxCallsPerLead
  <2>1. LeadOf[q] \notin raced
    BY <1>1, <1>6
  <2>2. CASE pc[q] \notin {"gap", "screen", "insert"}
    <3>1. UNCHANGED <<calls, now>> /\ ~OverTheCap(q)
      BY <1>6, <2>2, CountPasses
    <3>2. Count(LeadOf[q]) < MaxCallsPerLead
      BY <1>2, <1>3, <1>6, <3>1 DEF OverTheCap
    <3>3. Count(LeadOf[q])' = Count(LeadOf[q])
      BY <3>1 DEF CountRecentCallsTo, WindowStart, Exists
    <3>4. QED
      BY <3>2, <3>3
  <2>3. CASE pc[q] \in {"gap", "screen", "insert"}
    <3>1. Count(LeadOf[q]) < MaxCallsPerLead
      BY <1>6, <2>1, <2>3 DEF RoomIsKept
    <3>2. CASE SameRows
      BY <1>2, <1>3, <1>5, <3>1, <3>2, CountsDoNotGrow
    <3>3. ASSUME NEW r \in Calls, Inserts(r)
          PROVE  Count(LeadOf[q])' < MaxCallsPerLead
      <4>1. LeadOf[r] # LeadOf[q]
        <5>1. r # q
          BY <1>6, <3>3 DEF Inserts
        <5>2. QED
          BY <2>1, <2>3, <3>3, <5>1 DEF Inserts, RacesRecorded
      <4>2. Count(LeadOf[q])' <= Count(LeadOf[q]) + 0
        BY <3>3, <4>1, InsertAddsOne
      <4>3. QED
        BY <1>2, <1>3, <1>5, <3>1, <4>2
    <3>4. QED
      BY <3>2, <3>3, TableStep
  <2>4. QED
    BY <2>2, <2>3
<1>7. ASSUME MaxCallsPerLead > 0, NEW lead \in Leads \ raced'
      PROVE  Count(lead)' <= MaxCallsPerLead
  <2>1. lead \in Leads \ raced
    BY <1>1
  <2>2. Count(lead) <= MaxCallsPerLead
    BY <1>7, <2>1 DEF ContactCap
  <2>3. CASE SameRows
    BY <1>2, <1>3, <1>5, <2>2, <2>3, CountsDoNotGrow
  <2>4. ASSUME NEW r \in Calls, Inserts(r)
        PROVE  Count(lead)' <= MaxCallsPerLead
    <3>1. CASE lead = LeadOf[r]
      <4>1. Count(lead) < MaxCallsPerLead
        BY <1>7, <2>1, <2>4, <3>1 DEF Inserts, RoomIsKept
      <4>2. Count(lead)' <= Count(lead) + 1
        BY <2>4, <3>1, InsertAddsOne
      <4>3. QED
        BY <1>2, <1>3, <1>5, <4>1, <4>2
    <3>2. CASE lead # LeadOf[r]
      <4>1. Count(lead)' <= Count(lead) + 0
        BY <2>4, <3>2, InsertAddsOne
      <4>2. QED
        BY <1>2, <1>3, <1>5, <2>2, <4>1
    <3>3. QED
      BY <3>1, <3>2
  <2>5. QED
    BY <2>3, <2>4, TableStep
<1> HIDE DEF Count
<1>8. QED
  BY <1>1, <1>4, <1>6, <1>7 DEF RoomIsKept, ContactCap, Count

\* Requests that do not race for a lead never take its calls of the window past
\* MAX_CALLS_PER_LEAD.
THEOREM CapRespected == PlacementSpec => []ContactCap
<1>1. PlacementInit => CapInv
  <2> SUFFICES ASSUME PlacementInit PROVE CapInv
    OBVIOUS
  <2>1. \A r \in Calls : /\ ~Exists(r) /\ pc[r] = "idle"
                         /\ calls[r].status = "absent"
    BY DEF PlacementInit, Exists, NoRow
  <2>2. {c \in Calls : Exists(c)} = {}
    BY <2>1
  <2>3. RowsFinite
    BY <2>2, FS_EmptySet DEF RowsFinite
  <2>4. \A lead : CountRecentCallsTo(lead, WindowStart) = 0
    <3>1. \A lead : {c \in Calls : /\ Exists(c)
                                   /\ LeadOf[c] = lead
                                   /\ calls[c].created_at >= WindowStart
                                   /\ calls[c].status # "failed"} = {}
      BY <2>1
    <3>2. QED
      BY <3>1, FS_EmptySet DEF CountRecentCallsTo
  <2>5. QED
    BY <2>1, <2>3, <2>4, PlacementAssumption
       DEF CapInv, FailedIsLast, RacesRecorded, RoomIsKept, ContactCap
<1>2. RequestInv /\ RequestInv' /\ CapInv /\ [PlacementNext]_placementVars => CapInv'
  BY CapInductive
<1>3. CapInv => ContactCap
  BY DEF CapInv
<1>4. QED
  BY RequestsInvariant, <1>1, <1>2, <1>3, PTL DEF PlacementSpec

-----------------------------------------------------------------------------
(* Placement implements IdempotentDial. *)

\* With unique keys, the owner of a key is the call whose row has it.
LEMMA OwnerIsRow ==
    ASSUME RequestInv, NEW c \in Calls, Exists(c), KeyOf[c] # NoKey
    PROVE  Owner(KeyOf[c]) = c
<1>1. c \in FindByIdempotencyKey(KeyOf[c])
  BY DEF FindByIdempotencyKey
<1>2. \A d \in FindByIdempotencyKey(KeyOf[c]) : d = c
  BY DEF FindByIdempotencyKey, RequestInv, KeysUnique
<1>3. QED
  BY <1>1, <1>2 DEF Owner, TheOne

\* As long as the same rows exist, keys keep their owners.
LEMMA SameOwners ==
    ASSUME SameRows PROVE \A k \in Keys : Owner(k)' = Owner(k)
<1>1. ASSUME NEW k \in Keys
      PROVE  FindByIdempotencyKey(k)' = FindByIdempotencyKey(k)
  BY DEF SameRows, FindByIdempotencyKey
<1>2. QED
  BY <1>1 DEF Owner

\* A request makes its own phone ring, and only from the dial.
Rings(r) ==
    pc[r] = "dial" /\ dialled' = dialled \cup {r} /\ UNCHANGED <<calls, reply>>

\* A request is told of its own call from the last UPDATE, of another by a
\* replay.
IsTold(r) ==
    \E c \in Calls :
        /\ \/ pc[r] = "queue" /\ c = r
           \/ /\ pc[r] \in {"lookup", "refetch"}
              /\ Exists(c) /\ KeyOf[c] = KeyOf[r]
        /\ reply' = [reply EXCEPT ![r] = c]
        /\ UNCHANGED dialled

\* Every step inserts, rings, tells, or does none of these.
LEMMA DialStep ==
    ASSUME RequestInv, [PlacementNext]_placementVars
    PROVE  \/ UNCHANGED <<dialled, reply>>
           \/ \E r \in Calls : Rings(r) \/ IsTold(r)
<1> DEFINE Goal == \/ UNCHANGED <<dialled, reply>>
                  \/ \E r \in Calls : Rings(r) \/ IsTold(r)
<1>1. ASSUME NEW r \in Calls, Dial(r) PROVE Goal
  BY <1>1 DEF Dial, Goto, Rings
<1>2. ASSUME NEW r \in Calls, MarkQueued(r) PROVE Goal
  BY <1>2 DEF MarkQueued, Goto, IsTold
<1>3. ASSUME NEW r \in Calls, LookUp(r) \/ Refetch(r) PROVE Goal
  BY <1>3 DEF LookUp, Refetch, Replay, FindByIdempotencyKey, Goto, IsTold
<1>4. ASSUME NEW r \in Calls,
             \/ Receive(r) \/ CountCalls(r) \/ CheckGap(r) \/ Screen(r)
             \/ CreateRow(r) \/ MarkPreparing(r) \/ PrepareAgent(r)
             \/ MarkPrepared(r) \/ MarkFailed(r) \/ AnnounceFailure(r)
             \/ DatabaseFault(r)
      PROVE  Goal
  BY <1>4 DEF Receive, CountCalls, CheckGap, Screen, CreateRow, MarkPreparing,
              PrepareAgent, MarkPrepared, MarkFailed, AnnounceFailure,
              DatabaseFault
<1>5. CASE PlacementCrash \/ Tick \/ UNCHANGED placementVars
  BY <1>5 DEF PlacementCrash, Tick, placementVars
<1>6. QED
  BY <1>1, <1>2, <1>3, <1>4, <1>5 DEF PlacementNext, Advance

LEMMA DiallingInit == PlacementInit => Dialling!Init
<1> SUFFICES ASSUME PlacementInit PROVE Dialling!Init
  OBVIOUS
<1>1. \A k \in Keys : Owner(k) = NoCall
  BY DEF PlacementInit, Owner, FindByIdempotencyKey, Exists, NoRow
<1>2. QED
  BY <1>1 DEF PlacementInit, Dialling!Init

LEMMA DiallingStep ==
    ASSUME RequestInv, [PlacementNext]_placementVars
    PROVE  [Dialling!Next]_(Dialling!dialVars)
<1> USE CallsAssumption
<1>1. ASSUME NEW r \in Calls, Inserts(r)
      PROVE  [Dialling!Next]_(Dialling!dialVars)
  <2>1. \A c \in Calls \ {r} : Exists(c)' <=> Exists(c)
    BY <1>1 DEF RequestInv, TypeOK, Inserts, Exists
  <2>2. Exists(r)'
    BY <1>1, WrittenExists DEF RequestInv, TypeOK, Inserts, Exists
  <2>3. ~Exists(r)
    BY <1>1 DEF RequestInv, Inserts, RowsFollowPC, BeforeRow
  <2>4. \A k \in Keys \ {KeyOf[r]} : Owner(k)' = Owner(k)
    <3>1. ASSUME NEW k \in Keys \ {KeyOf[r]}
          PROVE  FindByIdempotencyKey(k)' = FindByIdempotencyKey(k)
      BY <2>1 DEF FindByIdempotencyKey
    <3>2. QED
      BY <3>1 DEF Owner
  <2>5. CASE KeyOf[r] = NoKey
    BY <1>1, <2>4, <2>5 DEF Inserts, Dialling!dialVars
  <2>6. CASE KeyOf[r] # NoKey
    <3>1. KeyOf[r] \in Keys
      BY <2>6
    <3>2. Owner(KeyOf[r]) = NoCall
      BY <1>1, <2>6 DEF Inserts, UniqueViolation, Owner
    <3>3. Owner(KeyOf[r])' = r
      <4>1. FindByIdempotencyKey(KeyOf[r])' = {r}
        BY <1>1, <2>1, <2>2, <2>6
           DEF Inserts, UniqueViolation, FindByIdempotencyKey
      <4>2. QED
        BY <4>1 DEF Owner, TheOne
    <3>4. Dialling!Own(r)
      BY <1>1, <2>4, <2>6, <3>1, <3>2, <3>3 DEF Inserts, Dialling!Own
    <3>5. QED
      BY <3>4 DEF Dialling!Next
  <2>7. QED
    BY <2>5, <2>6
<1>2. ASSUME SameRows PROVE [Dialling!Next]_(Dialling!dialVars)
  <2>1. [k \in Keys |-> Owner(k)]' = [k \in Keys |-> Owner(k)]
    BY <1>2, SameOwners
  <2>2. CASE UNCHANGED <<dialled, reply>>
    BY <2>1, <2>2 DEF Dialling!dialVars
  <2>3. ASSUME NEW r \in Calls, Rings(r) PROVE Dialling!Next
    <3>1. Exists(r)
      BY <2>3 DEF Rings, RequestInv, RowsFollowPC, WithRow
    <3>2. Dialling!MayRing(r)
      BY <3>1, OwnerIsRow DEF Dialling!MayRing
    <3>3. QED
      BY <2>1, <2>3, <3>2 DEF Rings, Dialling!Ring, Dialling!Next
  <2>4. ASSUME NEW r \in Calls, IsTold(r) PROVE Dialling!Next
    <3>1. reply[r] = NoCall
      BY <2>4 DEF IsTold, RequestInv, RepliesOwned, InFlight, BeforeRow, WithRow
    <3>2. PICK c \in Calls :
              /\ \/ pc[r] = "queue" /\ c = r
                 \/ /\ pc[r] \in {"lookup", "refetch"}
                    /\ Exists(c) /\ KeyOf[c] = KeyOf[r]
              /\ reply' = [reply EXCEPT ![r] = c]
              /\ UNCHANGED dialled
      BY <2>4 DEF IsTold
    <3>3. CASE pc[r] = "queue" /\ c = r
      <4>1. Exists(r) /\ r \in dialled
        BY <3>3 DEF RequestInv, RowsFollowPC, DialsHaveRows, WithRow
      <4>2. Dialling!MayRing(r)
        BY <4>1, OwnerIsRow DEF Dialling!MayRing
      <4>3. Dialling!Tell(r, c)
        BY <2>1, <3>1, <3>2, <3>3, <4>1, <4>2 DEF Dialling!Tell
      <4>4. QED
        BY <4>3 DEF Dialling!Next
    <3>4. CASE /\ pc[r] \in {"lookup", "refetch"}
               /\ Exists(c) /\ KeyOf[c] = KeyOf[r]
      <4>1. KeyOf[r] # NoKey
        BY <3>4 DEF RequestInv, RepliesOwned
      <4>2. KeyOf[r] \in Keys /\ Owner(KeyOf[r]) = c
        BY <3>4, <4>1, OwnerIsRow
      <4>3. Dialling!Tell(r, c)
        BY <2>1, <3>1, <3>2, <4>1, <4>2 DEF Dialling!Tell
      <4>4. QED
        BY <4>3 DEF Dialling!Next
    <3>5. QED
      BY <3>2, <3>3, <3>4
  <2>5. QED
    BY <2>2, <2>3, <2>4, DialStep
<1>3. QED
  BY <1>1, <1>2, TableStep

\* Whatever the requests, the faults and the crashes, placeCall keeps the
\* promise of the Idempotency-Key.
THEOREM Refinement == PlacementSpec => ImplementsIdempotentDial
<1>1. RequestInv /\ [PlacementNext]_placementVars => [Dialling!Next]_(Dialling!dialVars)
  BY DiallingStep
<1>2. QED
  BY RequestsInvariant, DiallingInit, <1>1, PTL
     DEF PlacementSpec, ImplementsIdempotentDial, Dialling!Spec
=============================================================================
