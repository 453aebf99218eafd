-------------------------- MODULE LifecycleProofs --------------------------
(***************************************************************************)
(* Proofs about CallLifecycle, for any number of calls, webhook handlers   *)
(* and clean-up sweeps, and any number of faults, crashes and repeated     *)
(* webhooks.                                                               *)
(*                                                                         *)
(* The requests keep the part of PlacementProofs's invariant that the rest *)
(* of a call's life leaves alone (RequestInv).  To it this module adds     *)
(* what webhooks, stream, callback and clean-up know of a row between the  *)
(* statement that read it and the one that writes it.                      *)
(***************************************************************************)
EXTENDS CallLifecycle, PlacementProofs

-----------------------------------------------------------------------------
(* The inductive invariant. *)

\* What MapTwilioStatus makes of a webhook.
Reported == {"queued", "initiated", "ringing", "answered"} \cup Terminal

HandlerStates ==
    {Idle} \cup [pc : {"update", "readback"}, call : Calls, next : Reported]

StreamPCs == {"none", "start", "connecting", "connecting_update", "joining",
              "streaming", "streaming_update", "closed"}

PostPCs == {"none", "posting", "recording", "failed", "done", "lost"}

LifeTypeOK ==
    /\ carrier \in [Calls -> TwilioStatuses]
    /\ mail \subseteq Calls \X TwilioStatuses
    /\ handler \in [Handlers -> HandlerStates]
    /\ stream \in [Calls -> StreamPCs]
    /\ taken \in [Calls -> Nat]
    /\ post \in [Calls -> PostPCs]
    /\ attempt \in [Calls -> Nat]
    /\ payload \in [Calls -> Statuses]
    /\ delivered \in [Calls -> Nat]
    /\ sweeper \in [Sweepers -> [todo     : SUBSET Calls,
                                 clearing : Calls \cup {NoCall}]]

\* A handler that is about to write the row of c, and one that did.
Updating(h, c) == handler[h].pc = "update" /\ handler[h].call = c

Announcing(h, c) == handler[h].pc = "readback" /\ handler[h].call = c

\* Whatever follows a call at Twilio follows one that was dialled.
FollowsDial ==
    /\ \A c \in Calls :
           carrier[c] # "queued" \/ stream[c] # "none"
               \/ calls[c].twilio_call_sid => c \in dialled
    /\ \A h \in Handlers, c \in Calls :
           Updating(h, c) \/ Announcing(h, c) => c \in dialled
    /\ \A c \in Calls :
           ~Exists(c) => /\ ~calls[c].completed_at
                         /\ ~calls[c].post_call_callback_sent_at

\* Nobody is told of an end that has no completion time.
EndsDated ==
    /\ TimestampsFollowStatus
    /\ \A c \in Calls :
           \/ onTerminal[c] # << >>
           \/ pc[c] = "failed"
           \/ calls[c].post_call_callback_sent_at
           \/ \E h \in Handlers : Announcing(h, c)
           => calls[c].completed_at

\* The send that won the claim counts its attempts, and SuperFlow processes at
\* most one POST for each.
Counted ==
    \A c \in Calls :
        /\ post[c] # "none" => calls[c].post_call_callback_sent_at
        /\ post[c] = "none" => delivered[c] = 0
        /\ attempt[c] <= MaxAttempts /\ delivered[c] <= attempt[c]
        /\ post[c] = "posting" =>
               /\ delivered[c] < attempt[c]
               /\ delivered[c] > 0 => c \in answerLost
        /\ delivered[c] > 1 => c \in answerLost

\* A sweep is about to clear the id of a clone that is gone.
ClearsDeleted ==
    /\ forgotten \subseteq deleted
    /\ \A w \in Sweepers : sweeper[w].clearing # NoCall
                               => sweeper[w].clearing \in deleted

\* The clone of a call is on record from before the dial until it is gone.
Recorded ==
    \A c \in Calls :
        Cloning /\ (c \in dialled \/ pc[c] = "dial")
            => calls[c].lyzr_call_agent_id \/ c \in deleted

\* A request is the only one to write the row until it dials.
RowBeforeDial ==
    \A c \in Calls :
        /\ pc[c] \in {"prepare", "agent", "record", "dial"} => c \notin dialled
        /\ pc[c] = "prepare" => calls[c].status = "created"
        /\ pc[c] \in {"agent", "record"} => calls[c].status = "agent_preparing"
        /\ pc[c] = "dial" => calls[c].status = "agent_prepared"
        /\ pc[c] = "failing" /\ c \notin dialled
               => calls[c].status \in Preparation

StreamWrites(c) == stream[c] \in {"connecting_update", "streaming_update"}

RequestWrites(c) == c \in dialled /\ pc[c] \in {"queue", "failing"}

\* At most one of them is about to write the status of c.
Alone(c) ==
    /\ \A g, h \in Handlers : Updating(g, c) /\ Updating(h, c) => g = h
    /\ \A h \in Handlers : Updating(h, c) => ~StreamWrites(c) /\ ~RequestWrites(c)
    /\ ~(StreamWrites(c) /\ RequestWrites(c))

Legal(from, to) == from \in Statuses \ Terminal /\ to \in Transitions[from]

\* What was decided when the row was read is still a legal move.
StillLegal(c) ==
    /\ pc[c] = "queue" => calls[c].status = "agent_prepared"
    /\ pc[c] = "failing" /\ c \in dialled
           => calls[c].status \in {"agent_prepared", "queued"}
    /\ \A h \in Handlers :
           Updating(h, c) => Legal(calls[c].status, handler[h].next)
    /\ stream[c] = "connecting_update"
           => Legal(calls[c].status, "stream_connecting")
    /\ stream[c] = "streaming_update" => Legal(calls[c].status, "streaming")

\* Everybody who was told of the end, or is about to be, is told the status
\* the row has.
EndAgreed(c) ==
    /\ pc[c] = "failed" => calls[c].status \in Terminal
    /\ \A h \in Handlers : Announcing(h, c) => calls[c].status \in Terminal
    /\ \A i \in 1..Len(onTerminal[c]) :
           calls[c].status \in Terminal /\ onTerminal[c][i] = calls[c].status
    /\ post[c] # "none" =>
           calls[c].status \in Terminal /\ payload[c] = calls[c].status

InOrder ==
    \A c \in Calls \ overlapped : Alone(c) /\ StillLegal(c) /\ EndAgreed(c)

LifeInv ==
    /\ RequestInv /\ LifeTypeOK /\ FollowsDial /\ EndsDated /\ Counted
    /\ ClearsDeleted /\ Recorded /\ RowBeforeDial /\ InOrder

-----------------------------------------------------------------------------
(* What a request does, seen from the rest. *)

\* Where a request goes and what it leaves behind.
Requests(r) ==
    /\ pc' = [pc EXCEPT ![r] = pc'[r]]
    /\ \/ /\ pc[r] \in {"idle"} \cup BeforeRow
          /\ pc'[r] \in BeforeRow \cup {"replayed", "refused", "errored"}
          /\ UNCHANGED <<calls, dialled, onTerminal>>
       \/ /\ pc[r] \in {"insert", "prepare", "record", "queue", "failing"}
          /\ <<pc[r], pc'[r]>> \in
                 {<<"insert", "prepare">>, <<"insert", "errored">>,
                  <<"prepare", "agent">>, <<"prepare", "failing">>,
                  <<"record", "dial">>, <<"record", "failing">>,
                  <<"queue", "placed">>, <<"queue", "failing">>,
                  <<"failing", "failed">>, <<"failing", "errored">>}
          /\ calls' = [calls EXCEPT ![r] = Written(r)]
          /\ UNCHANGED <<dialled, onTerminal>>
       \/ /\ <<pc[r], pc'[r]>> \in
                 {<<"prepare", "failing">>, <<"record", "failing">>,
                  <<"queue", "failing">>, <<"failing", "errored">>,
                  <<"failed", "errored">>,
                  <<"agent", "record">>, <<"agent", "failing">>}
          /\ UNCHANGED <<calls, dialled, onTerminal>>
       \/ /\ pc[r] = "dial" /\ pc'[r] \in {"queue", "failing"}
          /\ \/ dialled' = dialled \cup {r}
             \/ pc'[r] = "failing" /\ UNCHANGED dialled
          /\ UNCHANGED <<calls, onTerminal>>
       \/ /\ pc[r] = "failed" /\ pc'[r] = "errored"
          /\ onTerminal' = [onTerminal EXCEPT
                                ![r] = Append(@, calls[r].status)]
          /\ UNCHANGED <<calls, dialled>>

LEMMA RequestsStep ==
    ASSUME TypeOK, NEW r \in Calls,
           Receive(r) \/ Advance(r) \/ DatabaseFault(r)
    PROVE  Requests(r)
<1> USE DEF TypeOK, Requests, Goto
<1>1. CASE Receive(r) \/ LookUp(r) \/ CountCalls(r) \/ CheckGap(r) \/ Screen(r)
           \/ Refetch(r)
  BY <1>1 DEF Receive, LookUp, Replay, CountCalls, CheckGap, Screen, Refetch,
              BeforeRow
<1>2. CASE CreateRow(r) \/ MarkPreparing(r) \/ MarkPrepared(r) \/ MarkQueued(r)
           \/ MarkFailed(r)
  BY <1>2 DEF CreateRow, MarkPreparing, MarkPrepared, MarkQueued, MarkFailed,
              Write, BeforeRow
<1>3. CASE PrepareAgent(r) \/ Dial(r) \/ AnnounceFailure(r)
  BY <1>3 DEF PrepareAgent, Dial, AnnounceFailure
<1>4. CASE DatabaseFault(r)
  <2>1. /\ pc' = [pc EXCEPT ![r] = pc'[r]]
        /\ pc'[r] = IF pc[r] \in WithRow THEN "failing" ELSE "errored"
        /\ pc[r] \in {"lookup", "count", "gap", "insert", "refetch", "prepare",
                      "record", "queue", "failing", "failed"}
        /\ UNCHANGED <<dialled, onTerminal>>
    BY <1>4 DEF DatabaseFault, InFlight, BeforeRow, WithRow, Failing
  <2>2. CASE UNCHANGED calls
    BY <2>1, <2>2 DEF BeforeRow, WithRow
  <2>3. CASE calls' = [calls EXCEPT ![r] = Written(r)]
    <3>1. CASE pc[r] \in {"insert", "prepare", "record", "queue", "failing"}
      BY <2>1, <2>3, <3>1 DEF WithRow
    <3>2. CASE pc[r] \in {"lookup", "count", "gap", "refetch", "failed"}
      <4>1. Written(r) = calls[r]
        BY <3>2 DEF Written
      <4>2. UNCHANGED calls
        BY <2>3, <4>1
      <4>3. QED
        BY <2>1, <2>2, <4>2
    <3>3. QED
      BY <2>1, <3>1, <3>2
  <2>4. QED
    BY <1>4, <2>2, <2>3 DEF DatabaseFault, Write
<1>5. QED
  BY <1>1, <1>2, <1>3, <1>4 DEF Advance

\* A row keeps its end and its claim through whatever its request writes.
LEMMA WrittenKeeps ==
    ASSUME TypeOK, NEW r \in Calls, pc[r] # "insert"
    PROVE  /\ Written(r).post_call_callback_sent_at
                  = calls[r].post_call_callback_sent_at
           /\ Written(r).completed_at
                  = (calls[r].completed_at \/ pc[r] = "failing")
           /\ Written(r).answered_at = calls[r].answered_at
           /\ Written(r).twilio_call_sid
                  = (calls[r].twilio_call_sid \/ pc[r] = "queue")
           /\ pc[r] = "prepare" => Written(r).status = "agent_preparing"
           /\ pc[r] = "record" => Written(r).status = "agent_prepared"
           /\ pc[r] = "queue" => Written(r).status = "queued"
           /\ pc[r] = "failing" => Written(r).status = "failed"
<1>1. calls[r] \in Row
  BY DEF TypeOK
<1>2. QED
  BY <1>1 DEF Written, Row

-----------------------------------------------------------------------------
(* What overlapped says. *)

\* At most one pending write is at most one task that is about to write.
LEMMA OneWriter ==
    ASSUME NEW c \in Calls, ~(PendingWrites(c)' > 1)
    PROVE  Alone(c)'
<1> DEFINE S == {h \in Handlers : Updating(h, c)'}
           n == Cardinality(S)
           a == IF StreamWrites(c)' THEN 1 ELSE 0
           b == IF RequestWrites(c)' THEN 1 ELSE 0
<1>1. PendingWrites(c)' = n + a + b
  BY DEF PendingWrites, Updating, StreamWrites, RequestWrites
<1>2. IsFiniteSet(S) /\ n \in Nat
  BY HandlersAssumption, FS_Subset, FS_CardinalityType
<1>3. a \in Nat /\ b \in Nat /\ (StreamWrites(c)' => a = 1)
                             /\ (RequestWrites(c)' => b = 1)
  OBVIOUS
<1>4. \A h \in S : n >= 1
  <2>1. ASSUME NEW h \in S PROVE n >= 1
    <3>1. Cardinality({h}) = 1 /\ {h} \in SUBSET S
      BY FS_Singleton
    <3>2. QED
      BY <1>2, <3>1, FS_Subset
  <2>2. QED
    BY <2>1
<1>5. \A g, h \in S : g # h => n >= 2
  <2>1. ASSUME NEW g \in S, NEW h \in S, g # h PROVE n >= 2
    <3>1. IsFiniteSet({g}) /\ Cardinality({g}) = 1
      BY FS_Singleton
    <3>2. {g} \cup {h} \in SUBSET S /\ h \notin {g}
      BY <2>1
    <3>3. Cardinality({g} \cup {h}) = 2
      BY <3>1, <3>2, FS_AddElement
    <3>4. Cardinality({g} \cup {h}) <= n
      BY <1>2, <3>2, FS_Subset
    <3>5. QED
      BY <1>2, <3>3, <3>4
  <2>2. QED
    BY <2>1
<1>6. /\ \A g, h \in S : g = h
      /\ \A h \in S : ~StreamWrites(c)' /\ ~RequestWrites(c)'
      /\ ~(StreamWrites(c)' /\ RequestWrites(c)')
  <2> HIDE DEF S, n, a, b
  <2>1. ~(n + a + b > 1)
    BY <1>1
  <2>2. QED
    BY <2>1, <1>2, <1>3, <1>4, <1>5
<1>7. QED
  BY <1>6 DEF Alone

\* What has not overlapped by the end of a step had not before.
LEMMA Overlaps ==
    ASSUME [Next]_vars, InOrder, NEW c \in Calls \ overlapped'
    PROVE  c \notin overlapped /\ Alone(c)'
<1>1. CASE Track
  <2>1. c \notin overlapped /\ ~(PendingWrites(c)' > 1)
    BY <1>1 DEF Track
  <2>2. QED
    BY <2>1, OneWriter
<1>2. CASE UNCHANGED vars
  <2>1. c \notin overlapped /\ Alone(c)
    BY <1>2 DEF vars, InOrder
  <2>2. UNCHANGED <<handler, stream, dialled, pc>>
    BY <1>2 DEF vars, placementVars, flowVars
  <2>3. QED
    BY <2>1, <2>2 DEF Alone, Updating, StreamWrites, RequestWrites
<1>3. QED
  BY <1>1, <1>2 DEF Next, InPlacement, InFlow, InCallback, InCleanup, Crash

-----------------------------------------------------------------------------
(* The steps of the rest, seen from the requests. *)

\* What the steps that are not a request's leave alone.
RequestsFrame == UNCHANGED <<now, pc, reply, dialled, verified, clones, raced>>

LEMMA FrameStep ==
    ASSUME RequestInv, RequestsFrame, SameRows,
           calls' \in [Calls -> Row], onTerminal' \in [Calls -> Seq(Statuses)],
           disturbed' \in [Kinds -> Nat]
    PROVE  RequestInv'
<1> USE DEF RequestInv, RequestsFrame, SameRows
<1>1. TypeOK'
  BY DEF TypeOK
<1>2. RowsFollowPC' /\ KeysUnique' /\ DialsHaveRows'
  BY DEF RowsFollowPC, KeysUnique, DialsHaveRows
<1>3. RepliesOwned'
  BY DEF RepliesOwned, TypeOK, Exists
<1>4. QED
  BY <1>1, <1>2, <1>3

\* The row of c takes other values; the others stay.
RowStep(c) == /\ calls' = [calls EXCEPT ![c] = calls'[c]]
              /\ calls'[c] \in Row
              /\ calls'[c].created_at = calls[c].created_at
              /\ Exists(c)' <=> Exists(c)

LEMMA RowStepFrame ==
    ASSUME TypeOK, UNCHANGED calls \/ \E c \in Calls : RowStep(c)
    PROVE  SameRows /\ calls' \in [Calls -> Row]
  BY DEF TypeOK, SameRows, RowStep, Exists

\* A webhook's UPDATE writes a row of the schema.
LEMMA StatusWritten ==
    ASSUME NEW row \in Row, NEW s \in Statuses
    PROVE  LET new == [row EXCEPT !.status = s,
                                  !.answered_at = @ \/ s = "answered",
                                  !.completed_at = @ \/ s \in Terminal]
           IN  /\ new \in Row
               /\ new.created_at = row.created_at
               /\ new.status = s
  BY DEF Row

LEMMA FlowRows ==
    ASSUME RequestInv, LifeTypeOK, FollowsDial,
           \/ \E c \in Calls : CarrierStep(c) \/ StreamStarts(c) \/ StreamStep(c)
                                 \/ StreamFault(c)
           \/ \E h \in Handlers : ReceiveWebhook(h) \/ HandlerStep(h)
                                    \/ HandlerFault(h)
    PROVE  /\ UNCHANGED calls \/ \E c \in Calls : RowStep(c)
           /\ UNCHANGED dialled
           /\ onTerminal' \in [Calls -> Seq(Statuses)]
           /\ disturbed' \in [Kinds -> Nat]
<1> DEFINE Goal == /\ UNCHANGED calls \/ \E c \in Calls : RowStep(c)
                   /\ UNCHANGED dialled
                   /\ onTerminal' \in [Calls -> Seq(Statuses)]
                   /\ disturbed' \in [Kinds -> Nat]
<1> USE DEF RequestInv, TypeOK
<1>1. ASSUME NEW c \in Calls,
             \/ CarrierStep(c) \/ StreamStarts(c) \/ JoinRoom(c)
             \/ ReadForStream(c, "stream_connecting", "connecting",
                              "connecting_update", "joining")
             \/ ReadForStream(c, "streaming", "streaming",
                              "streaming_update", "closed")
      PROVE  Goal
  BY <1>1 DEF CarrierStep, StreamStarts, JoinRoom, ReadForStream
<1>2. ASSUME NEW c \in Calls, StreamFault(c) PROVE Goal
  BY <1>2, DisturbType DEF StreamFault
<1>3. ASSUME NEW c \in Calls, stream[c] # "none",
             \/ StoreSids(c)
             \/ UpdateFromStream(c, "stream_connecting",
                                 "connecting_update", "joining")
             \/ UpdateFromStream(c, "streaming", "streaming_update", "closed")
      PROVE  Goal
  <2>1. calls[c] \in Row /\ Exists(c)
    BY <1>3 DEF FollowsDial, DialsHaveRows
  <2>2. RowStep(c)
    <3>1. /\ calls' = [calls EXCEPT ![c] = calls'[c]]
          /\ \/ calls'[c] = [calls[c] EXCEPT !.twilio_call_sid = TRUE]
             \/ \E s \in {"stream_connecting", "streaming"} :
                    calls'[c] = [calls[c] EXCEPT !.status = s,
                                                 !.answered_at = TRUE]
      BY <1>3 DEF StoreSids, UpdateFromStream
    <3>2. QED
      BY <2>1, <3>1 DEF RowStep, Row, Exists, Statuses, Live
  <2>3. QED
    BY <1>3, <2>2 DEF StoreSids, UpdateFromStream
<1>4. ASSUME NEW h \in Handlers, ReceiveWebhook(h) PROVE Goal
  <2>1. disturbed' \in [Kinds -> Nat]
    BY <1>4, DisturbType DEF ReceiveWebhook
  <2>2. QED
    BY <1>4, <2>1 DEF ReceiveWebhook
<1>5. ASSUME NEW h \in Handlers, HandlerFault(h) PROVE Goal
  BY <1>5, DisturbType DEF HandlerFault
<1>6. ASSUME NEW h \in Handlers, UpdateFromWebhook(h) PROVE Goal
  <2>1. PICK c \in Calls : c = handler[h].call
    BY <1>6 DEF UpdateFromWebhook, LifeTypeOK, HandlerStates, Idle
  <2>2. PICK next \in Statuses : next = handler[h].next
    BY <1>6 DEF UpdateFromWebhook, LifeTypeOK, HandlerStates, Idle, Reported,
                Statuses, Live
  <2>3. calls[c] \in Row /\ Exists(c)
    BY <1>6, <2>1 DEF UpdateFromWebhook, FollowsDial, Updating, DialsHaveRows
  <2>4. RowStep(c)
    <3> DEFINE new == [calls[c] EXCEPT !.status = next,
                                       !.answered_at = @ \/ next = "answered",
                                       !.completed_at = @ \/ next \in Terminal]
    <3>1. calls' = [calls EXCEPT ![c] = new]
      BY <1>6, <2>1, <2>2 DEF UpdateFromWebhook
    <3>2. /\ new \in Row
          /\ new.created_at = calls[c].created_at
          /\ new.status = next
      BY <2>3, StatusWritten
    <3>3. next # "absent"
      BY DEF Statuses, Preparation, Live, Terminal
    <3> HIDE DEF new
    <3>4. calls'[c] = new
      BY <3>1
    <3>5. QED
      BY <2>3, <3>1, <3>2, <3>3, <3>4 DEF RowStep, Exists
  <2>5. QED
    BY <1>6, <2>4 DEF UpdateFromWebhook
<1>7. ASSUME NEW h \in Handlers, AnnounceEnd(h) PROVE Goal
  <2>1. PICK c \in Calls : c = handler[h].call
    BY <1>7 DEF AnnounceEnd, LifeTypeOK, HandlerStates, Idle
  <2>2. calls[c] \in Row /\ Exists(c)
    BY <1>7, <2>1 DEF AnnounceEnd, FollowsDial, Announcing, DialsHaveRows
  <2>3. Append(onTerminal[c], calls[c].status) \in Seq(Statuses)
    BY <2>1, <2>2 DEF Row, Exists
  <2>4. QED
    BY <1>7, <2>1, <2>3 DEF AnnounceEnd
<1>8. QED
  BY <1>1, <1>2, <1>3, <1>4, <1>5, <1>6, <1>7
     DEF StreamStep, MarkConnecting, MarkStreaming, HandlerStep, StoreSids,
         UpdateFromStream, GotoStream

\* The claim and the clean-up each set one column of one row.
LEMMA ReportRows ==
    ASSUME TypeOK, NEW c \in Calls, CallbackStep(c) \/ CallbackFault(c)
    PROVE  /\ UNCHANGED calls \/ RowStep(c)
           /\ UNCHANGED <<dialled, onTerminal>>
           /\ disturbed' \in [Kinds -> Nat]
<1> USE DEF TypeOK
<1>1. /\ UNCHANGED <<dialled, onTerminal>>
      /\ \/ UNCHANGED calls
         \/ calls' = [calls EXCEPT ![c].post_call_callback_sent_at = TRUE]
  BY DEF CallbackStep, CallbackFault, Claim, Post, RecordSuccess, RecordFailure
<1>2. calls[c] \in Row
  OBVIOUS
<1>3. ASSUME calls' = [calls EXCEPT ![c].post_call_callback_sent_at = TRUE]
      PROVE  RowStep(c)
  BY <1>2, <1>3 DEF RowStep, Row, Exists
<1>4. disturbed' \in [Kinds -> Nat]
  BY DisturbType
     DEF CallbackStep, CallbackFault, Claim, Post, RecordSuccess, RecordFailure
<1>5. QED
  BY <1>1, <1>3, <1>4

LEMMA CleanupRows ==
    ASSUME TypeOK, LifeTypeOK, NEW w \in Sweepers, SweepStep(w) \/ ClearFault(w)
    PROVE  /\ UNCHANGED calls \/ \E c \in Calls : RowStep(c)
           /\ UNCHANGED <<dialled, onTerminal>>
           /\ disturbed' \in [Kinds -> Nat]
<1> USE DEF TypeOK
<1>1. /\ UNCHANGED <<dialled, onTerminal>>
      /\ \/ UNCHANGED calls
         \/ \E c \in Calls :
                calls' = [calls EXCEPT ![c].lyzr_call_agent_id = FALSE]
  BY DEF SweepStep, StartSweep, AgentDeleted, DeletionFails, ClearClonedAgent,
         ClearFault, Forget, LifeTypeOK
<1>2. ASSUME NEW c \in Calls,
             calls' = [calls EXCEPT ![c].lyzr_call_agent_id = FALSE]
      PROVE  RowStep(c)
  <2>1. calls[c] \in Row
    OBVIOUS
  <2>2. QED
    BY <1>2, <2>1 DEF RowStep, Row, Exists
<1>3. disturbed' \in [Kinds -> Nat]
  BY DisturbType
     DEF SweepStep, StartSweep, AgentDeleted, DeletionFails, ClearClonedAgent,
         ClearFault
<1>4. QED
  BY <1>1, <1>2, <1>3

\* The requests' invariant holds in the company of all the rest.
LEMMA RequestInvKept ==
    ASSUME LifeInv, [Next]_vars
    PROVE  RequestInv'
<1> USE DEF LifeInv
<1>1. TypeOK
  BY DEF RequestInv
<1>2. ASSUME NEW c \in Calls,
             InPlacement(Receive(c) \/ Advance(c) \/ DatabaseFault(c))
      PROVE  RequestInv'
  BY <1>2, RequestInvStep DEF InPlacement, PlacementNext
<1>3. CASE Crash
  <2>1. PlacementCrash
    BY <1>3 DEF Crash, PlacementCrash
  <2>2. QED
    BY <2>1, RequestInvStep DEF PlacementNext
<1>4. CASE UNCHANGED vars
  BY <1>4, RequestInvStep DEF vars
<1>5. ASSUME UNCHANGED calls \/ \E c \in Calls : RowStep(c),
             UNCHANGED <<requestVars, dialled>>,
             onTerminal' \in [Calls -> Seq(Statuses)],
             disturbed' \in [Kinds -> Nat]
      PROVE  RequestInv'
  BY <1>1, <1>5, RowStepFrame, FrameStep DEF RequestsFrame, requestVars
<1>6. ASSUME NEW c \in Calls,
             InFlow(CarrierStep(c) \/ StreamStarts(c) \/ StreamStep(c)
                      \/ StreamFault(c))
      PROVE  RequestInv'
  BY <1>5, <1>6, FlowRows DEF InFlow
<1>7. ASSUME NEW h \in Handlers,
             InFlow(ReceiveWebhook(h) \/ HandlerStep(h) \/ HandlerFault(h))
      PROVE  RequestInv'
  BY <1>5, <1>7, FlowRows DEF InFlow
<1>8. onTerminal \in [Calls -> Seq(Statuses)]
  BY <1>1 DEF TypeOK
<1>9. ASSUME NEW c \in Calls, InCallback(CallbackStep(c) \/ CallbackFault(c))
      PROVE  RequestInv'
  <2>1. /\ UNCHANGED calls \/ RowStep(c)
        /\ UNCHANGED <<dialled, onTerminal>>
        /\ disturbed' \in [Kinds -> Nat]
    BY <1>1, <1>9, ReportRows DEF InCallback
  <2>2. QED
    BY <1>5, <1>8, <1>9, <2>1 DEF InCallback
<1>10. ASSUME NEW w \in Sweepers, InCleanup(SweepStep(w) \/ ClearFault(w))
       PROVE  RequestInv'
  <2>1. /\ UNCHANGED calls \/ \E c \in Calls : RowStep(c)
        /\ UNCHANGED <<dialled, onTerminal>>
        /\ disturbed' \in [Kinds -> Nat]
    BY <1>1, <1>10, CleanupRows DEF InCleanup
  <2>2. QED
    BY <1>5, <1>8, <1>10, <2>1 DEF InCleanup
<1>11. QED
  BY <1>2, <1>3, <1>4, <1>6, <1>7, <1>9, <1>10 DEF Next

-----------------------------------------------------------------------------
(* The parts of the invariant, one by one. *)

\* What a webhook leads to when it is read: nothing, or a legal update of the
\* call whose sid it carries.
LEMMA WebhookRead ==
    ASSUME LifeTypeOK, NEW h \in Handlers, ReceiveWebhook(h)
    PROVE  \/ handler' = [handler EXCEPT ![h] = Idle]
           \/ \E c \in Calls, next \in Reported :
                  /\ calls[c].twilio_call_sid
                  /\ calls[c].status \notin Terminal
                  /\ next \in Transitions[calls[c].status]
                  /\ handler' = [handler EXCEPT ![h] =
                         [pc |-> "update", call |-> c, next |-> next]]
<1> DEFINE Now(m) == ResolveTransition(calls[m[1]].status, MapTwilioStatus(m[2]))
           Hit(m)  == calls[m[1]].twilio_call_sid
                          /\ Now(m) # calls[m[1]].status
<1>1. PICK m \in mail :
          handler' = [handler EXCEPT ![h] =
              IF Hit(m) THEN [pc |-> "update", call |-> m[1], next |-> Now(m)]
                        ELSE Idle]
  BY DEF ReceiveWebhook
<1>2. m[1] \in Calls /\ m[2] \in TwilioStatuses
  BY DEF LifeTypeOK
<1>3. MapTwilioStatus(m[2]) \in Reported
  BY <1>2 DEF MapTwilioStatus, TwilioStatuses, Reported, Terminal
<1>4. CASE ~Hit(m)
  BY <1>1, <1>4
<1>5. CASE Hit(m)
  <2>1. /\ calls[m[1]].status \notin Terminal
        /\ Now(m) = MapTwilioStatus(m[2])
        /\ Now(m) \in Transitions[calls[m[1]].status]
    BY <1>5 DEF ResolveTransition, CanTransition
  <2>2. handler' = [handler EXCEPT ![h] = [pc   |-> "update",
                                           call |-> m[1],
                                           next |-> Now(m)]]
    BY <1>1, <1>5
  <2> HIDE DEF Now
  <2>3. QED
    BY <1>2, <1>3, <1>5, <2>1, <2>2
<1>6. QED
  BY <1>4, <1>5

LEMMA LifeTypeStep ==
    ASSUME LifeInv, [Next]_vars
    PROVE  LifeTypeOK'
<1> USE DEF LifeInv, LifeTypeOK
<1>1. ASSUME NEW c \in Calls,
             InPlacement(Receive(c) \/ Advance(c) \/ DatabaseFault(c))
      PROVE  LifeTypeOK'
  BY <1>1 DEF InPlacement, flowVars, callbackVars, cleanupVars
<1>2. ASSUME NEW c \in Calls, InFlow(CarrierStep(c)) PROVE LifeTypeOK'
  <2>1. \A s \in CarrierNext(carrier[c]) : s \in TwilioStatuses
    BY DEF CarrierNext, TwilioStatuses
  <2>2. QED
    BY <1>2, <2>1 DEF InFlow, CarrierStep, callbackVars, cleanupVars
<1>3. ASSUME NEW c \in Calls,
             InFlow(StreamStarts(c) \/ StreamStep(c) \/ StreamFault(c))
      PROVE  LifeTypeOK'
  <2>1. /\ stream' \in [Calls -> StreamPCs]
        /\ UNCHANGED <<carrier, mail, handler>>
    BY <1>3 DEF InFlow, StreamStarts, StreamStep, StreamFault, StoreSids,
                MarkConnecting, MarkStreaming, ReadForStream, UpdateFromStream,
                JoinRoom, GotoStream, StreamPCs
  <2>2. QED
    BY <1>3, <2>1 DEF InFlow, callbackVars, cleanupVars
<1>4. ASSUME NEW h \in Handlers,
             InFlow(ReceiveWebhook(h) \/ HandlerStep(h) \/ HandlerFault(h))
      PROVE  LifeTypeOK'
  <2>1. mail' \subseteq Calls \X TwilioStatuses
    BY <1>4 DEF InFlow, ReceiveWebhook, HandlerStep, UpdateFromWebhook,
                AnnounceEnd, HandlerFault
  <2>2. CASE ReceiveWebhook(h)
    <3>1. handler' \in [Handlers -> HandlerStates]
      BY <2>2, WebhookRead DEF HandlerStates
    <3>2. QED
      BY <1>4, <2>1, <2>2, <3>1
         DEF InFlow, ReceiveWebhook, callbackVars, cleanupVars
  <2>3. CASE UpdateFromWebhook(h)
    <3>1. handler[h] \in [pc : {"update", "readback"}, call : Calls,
                          next : Reported]
      BY <2>3 DEF UpdateFromWebhook, HandlerStates, Idle
    <3>2. handler' \in [Handlers -> HandlerStates]
      BY <2>3, <3>1 DEF UpdateFromWebhook, HandlerStates
    <3>3. QED
      BY <1>4, <2>1, <2>3, <3>2
         DEF InFlow, UpdateFromWebhook, callbackVars, cleanupVars
  <2>4. CASE AnnounceEnd(h) \/ HandlerFault(h)
    BY <1>4, <2>1, <2>4 DEF InFlow, AnnounceEnd, HandlerFault, HandlerStates,
                            callbackVars, cleanupVars
  <2>5. QED
    BY <1>4, <2>2, <2>3, <2>4 DEF InFlow, HandlerStep
<1>5. ASSUME NEW c \in Calls, InCallback(CallbackStep(c) \/ CallbackFault(c))
      PROVE  LifeTypeOK'
  <2>1. onTerminal[c] \in Seq(Statuses)
    BY DEF RequestInv, TypeOK
  <2>2. taken[c] < Len(onTerminal[c]) => onTerminal[c][taken[c] + 1] \in Statuses
    BY <2>1
  <2>3. CASE Claim(c)
    <3>1. /\ taken' = [taken EXCEPT ![c] = taken[c] + 1]
          /\ UNCHANGED <<delivered, answerLost>>
          /\ \/ UNCHANGED <<post, attempt, payload>>
             \/ /\ post' = [post EXCEPT ![c] = "posting"]
                /\ attempt' = [attempt EXCEPT ![c] = 1]
                /\ payload' = [payload EXCEPT ![c] =
                                  onTerminal[c][taken[c] + 1]]
                /\ onTerminal[c][taken[c] + 1] \in Statuses
      BY <2>2, <2>3 DEF Claim
    <3>2. taken[c] + 1 \in Nat
      OBVIOUS
    <3>3. /\ taken' \in [Calls -> Nat] /\ post' \in [Calls -> PostPCs]
          /\ attempt' \in [Calls -> Nat] /\ payload' \in [Calls -> Statuses]
      BY <3>1, <3>2 DEF PostPCs
    <3>4. QED
      BY <1>5, <3>1, <3>3 DEF InCallback, flowVars, cleanupVars
  <2>4. CASE Post(c) \/ RecordSuccess(c) \/ RecordFailure(c)
    BY <1>5, <2>4 DEF InCallback, Post, RetryOrFail, RecordSuccess,
                      RecordFailure, PostPCs, flowVars, cleanupVars
  <2>5. CASE CallbackFault(c)
    <3>1. taken[c] + 1 \in Nat /\ attempt[c] + 1 \in Nat
      OBVIOUS
    <3>2. /\ taken' \in [Calls -> Nat] /\ post' \in [Calls -> PostPCs]
          /\ attempt' \in [Calls -> Nat]
      BY <2>5, <3>1 DEF CallbackFault, RetryOrFail, PostPCs
    <3>3. QED
      BY <1>5, <2>5, <3>2 DEF InCallback, CallbackFault, flowVars, cleanupVars
  <2>6. QED
    BY <1>5, <2>3, <2>4, <2>5 DEF InCallback, CallbackStep
<1>6. ASSUME NEW w \in Sweepers, InCleanup(SweepStep(w) \/ ClearFault(w))
      PROVE  LifeTypeOK'
  <2>1. sweeper' \in [Sweepers -> [todo     : SUBSET Calls,
                                   clearing : Calls \cup {NoCall}]]
    BY <1>6 DEF InCleanup, SweepStep, StartSweep, AgentDeleted, DeletionFails,
                ClearClonedAgent, ClearFault, FindExpiredClonedAgents
  <2>2. QED
    BY <1>6, <2>1 DEF InCleanup, flowVars, callbackVars
<1>7. CASE Crash
  <2>1. \A c \in Calls : Len(onTerminal[c]) \in Nat
    BY DEF RequestInv, TypeOK
  <2>2. QED
    BY <1>7, <2>1 DEF Crash, LoseHandlers, LoseSends, LoseSweeps, Resting,
                      HandlerStates, StreamPCs, PostPCs
<1>8. CASE UNCHANGED vars
  BY <1>8 DEF vars, flowVars, callbackVars, cleanupVars
<1>9. QED
  BY <1>1, <1>2, <1>3, <1>4, <1>5, <1>6, <1>7, <1>8 DEF Next, InFlow

\* A phone that rang has rung; and the only rows an UPDATE finds are there.
LEMMA FollowsDialStep ==
    ASSUME LifeInv, [Next]_vars
    PROVE  FollowsDial'
<1> USE DEF LifeInv
<1>1. ASSUME NEW r \in Calls,
             InPlacement(Receive(r) \/ Advance(r) \/ DatabaseFault(r))
      PROVE  FollowsDial'
  <2>1. /\ Requests(r) /\ TypeOK
        /\ UNCHANGED <<carrier, stream, handler>>
    BY <1>1, RequestsStep DEF InPlacement, RequestInv, flowVars
  <2>2. dialled \subseteq dialled'
    BY <2>1 DEF Requests
  <2>3. CASE UNCHANGED calls
    BY <2>1, <2>2, <2>3 DEF FollowsDial, Updating, Announcing, Exists
  <2>4. CASE /\ pc[r] \in {"insert", "prepare", "record", "queue", "failing"}
             /\ calls' = [calls EXCEPT ![r] = Written(r)]
    <3>1. pc[r] # "insert" => Exists(r)
      BY <2>4 DEF RequestInv, RowsFollowPC, WithRow, Failing
    <3>2. Exists(r)'
      BY <2>1, <2>4, <3>1, WrittenExists DEF TypeOK, Exists
    <3>3. calls'[r].twilio_call_sid => r \in dialled
      <4>1. CASE pc[r] = "insert"
        <5>1. Written(r).twilio_call_sid = FALSE
          BY <4>1 DEF Written, NoRow
        <5>2. QED
          BY <2>1, <2>4, <5>1 DEF TypeOK
      <4>2. CASE pc[r] # "insert"
        <5>1. pc[r] = "queue" => r \in dialled
          BY DEF RequestInv, DialsHaveRows
        <5>2. QED
          BY <2>1, <2>4, <4>2, <5>1, WrittenKeeps DEF TypeOK, FollowsDial
      <4>3. QED
        BY <4>1, <4>2
    <3>4. \A c \in Calls \ {r} : calls'[c] = calls[c]
      BY <2>1, <2>4 DEF TypeOK
    <3>5. QED
      BY <2>1, <2>2, <3>2, <3>3, <3>4
         DEF FollowsDial, Updating, Announcing, Exists
  <2>5. QED
    BY <2>1, <2>3, <2>4 DEF Requests
<1>2. ASSUME NEW c \in Calls, InFlow(CarrierStep(c)) PROVE FollowsDial'
  BY <1>2 DEF InFlow, CarrierStep, FollowsDial, Updating, Announcing, Exists,
              LifeTypeOK
<1>3. ASSUME NEW c \in Calls,
             InFlow(StreamStarts(c) \/ StreamStep(c) \/ StreamFault(c))
      PROVE  FollowsDial'
  <2>1. /\ UNCHANGED <<carrier, handler, dialled>>
        /\ stream' = [stream EXCEPT ![c] = stream'[c]]
        /\ stream[c] = "none" => UNCHANGED calls /\ carrier[c] = "in-progress"
        /\ UNCHANGED calls \/ calls' = [calls EXCEPT ![c] = calls'[c]]
    BY <1>3 DEF InFlow, StreamStarts, StreamStep, StreamFault, StoreSids,
                MarkConnecting, MarkStreaming, ReadForStream, UpdateFromStream,
                JoinRoom, GotoStream
  <2>2. c \in dialled /\ Exists(c)
    BY <2>1 DEF FollowsDial, RequestInv, DialsHaveRows
  <2>3. Exists(c)'
    BY <1>3, <2>2 DEF InFlow, StreamStarts, StreamStep, StreamFault, StoreSids,
                MarkConnecting, MarkStreaming, ReadForStream, UpdateFromStream,
                JoinRoom, GotoStream, Exists, RequestInv, TypeOK, Row
  <2>4. QED
    BY <2>1, <2>2, <2>3 DEF FollowsDial, Updating, Announcing, Exists,
                            RequestInv, TypeOK, LifeTypeOK
<1>4. ASSUME NEW h \in Handlers, InFlow(ReceiveWebhook(h)) PROVE FollowsDial'
  <2>1. ASSUME NEW c \in Calls, Updating(h, c)' \/ Announcing(h, c)'
        PROVE  calls[c].twilio_call_sid
    BY <1>4, <2>1, WebhookRead
       DEF InFlow, LifeTypeOK, Updating, Announcing, Idle
  <2>4. \A g \in Handlers \ {h} : handler'[g] = handler[g]
    BY <1>4 DEF InFlow, ReceiveWebhook, LifeTypeOK
  <2>5. UNCHANGED <<calls, dialled, carrier, stream>>
    BY <1>4 DEF InFlow, ReceiveWebhook
  <2>6. QED
    BY <2>1, <2>4, <2>5 DEF FollowsDial, Updating, Announcing, Exists
<1>5. ASSUME NEW h \in Handlers, InFlow(UpdateFromWebhook(h)) PROVE FollowsDial'
  <2>1. PICK c \in Calls : Updating(h, c)
    BY <1>5 DEF InFlow, UpdateFromWebhook, Updating, LifeTypeOK, HandlerStates,
                Idle
  <2>2. c \in dialled /\ Exists(c)
    BY <2>1 DEF FollowsDial, RequestInv, DialsHaveRows
  <2>3. \A d \in Calls : calls'[d].twilio_call_sid = calls[d].twilio_call_sid
    BY <1>5, <2>1 DEF InFlow, UpdateFromWebhook, Updating, RequestInv, TypeOK,
                      Row
  <2>4. \A d \in Calls \ {c} : calls'[d] = calls[d]
    BY <1>5, <2>1 DEF InFlow, UpdateFromWebhook, Updating, RequestInv, TypeOK
  <2>5. \A g \in Handlers, d \in Calls :
            Updating(g, d)' \/ Announcing(g, d)' => Updating(g, d) \/ Announcing(g, d)
    BY <1>5, <2>1 DEF InFlow, UpdateFromWebhook, Updating, Announcing,
                      LifeTypeOK, HandlerStates, Idle
  <2>6. Exists(c)'
    BY RequestInvKept, <1>5, <2>2 DEF InFlow, UpdateFromWebhook, RequestInv,
       DialsHaveRows, Next
  <2>7. UNCHANGED <<dialled, carrier, stream>>
    BY <1>5 DEF InFlow, UpdateFromWebhook
  <2>8. QED
    BY <2>3, <2>4, <2>5, <2>6, <2>7 DEF FollowsDial, Exists
<1>6. ASSUME NEW h \in Handlers, InFlow(AnnounceEnd(h) \/ HandlerFault(h))
      PROVE  FollowsDial'
  <2>1. /\ handler' \in {handler, [handler EXCEPT ![h] = Idle]}
        /\ UNCHANGED <<calls, dialled, carrier, stream>>
    BY <1>6 DEF InFlow, AnnounceEnd, HandlerFault
  <2>2. QED
    BY <2>1 DEF FollowsDial, Updating, Announcing, Exists, LifeTypeOK, Idle
<1>7. ASSUME NEW c \in Calls, InCallback(CallbackStep(c) \/ CallbackFault(c))
      PROVE  FollowsDial'
  <2>1. /\ UNCHANGED <<dialled, carrier, stream, handler>>
        /\ \/ UNCHANGED calls
           \/ /\ taken[c] < Len(onTerminal[c])
              /\ calls' = [calls EXCEPT ![c].post_call_callback_sent_at = TRUE]
    BY <1>7 DEF InCallback, CallbackStep, CallbackFault, Claim, Post,
                RecordSuccess, RecordFailure, flowVars
  <2>2. taken[c] < Len(onTerminal[c]) => Exists(c)
    <3>1. taken[c] < Len(onTerminal[c]) => onTerminal[c] # << >>
      BY DEF LifeTypeOK
    <3>2. QED
      BY <3>1 DEF EndsDated, FollowsDial
  <2>3. ASSUME NEW d \in Calls
        PROVE  /\ calls'[d].status = calls[d].status
               /\ calls'[d].twilio_call_sid = calls[d].twilio_call_sid
    <3>1. calls[d] \in Row
      BY DEF RequestInv, TypeOK
    <3>2. \/ calls'[d] = calls[d]
          \/ calls'[d] = [calls[d] EXCEPT !.post_call_callback_sent_at = TRUE]
      BY <2>1 DEF RequestInv, TypeOK
    <3>3. QED
      BY <3>1, <3>2 DEF Row
  <2>4. \A d \in Calls : ~Exists(d) => calls'[d] = calls[d]
    BY <2>1, <2>2 DEF RequestInv, TypeOK
  <2>5. QED
    BY <2>1, <2>3, <2>4 DEF FollowsDial, Updating, Announcing, Exists
<1>8. ASSUME NEW w \in Sweepers, InCleanup(SweepStep(w) \/ ClearFault(w))
      PROVE  FollowsDial'
  <2>1. /\ UNCHANGED <<dialled, carrier, stream, handler>>
        /\ \/ UNCHANGED calls
           \/ \E c \in Calls :
                  calls' = [calls EXCEPT ![c].lyzr_call_agent_id = FALSE]
    BY <1>8 DEF InCleanup, SweepStep, StartSweep, AgentDeleted, DeletionFails,
                ClearClonedAgent, ClearFault, Forget, LifeTypeOK, flowVars
  <2>2. CASE UNCHANGED calls
    BY <2>1, <2>2 DEF FollowsDial, Updating, Announcing, Exists
  <2>3. ASSUME NEW c \in Calls,
               calls' = [calls EXCEPT ![c].lyzr_call_agent_id = FALSE]
        PROVE  FollowsDial'
    <3>1. \A d \in Calls :
              /\ calls'[d].status = calls[d].status
              /\ calls'[d].twilio_call_sid = calls[d].twilio_call_sid
              /\ calls'[d].completed_at = calls[d].completed_at
              /\ calls'[d].post_call_callback_sent_at
                     = calls[d].post_call_callback_sent_at
      BY <2>3 DEF RequestInv, TypeOK, Row
    <3>2. QED
      BY <2>1, <3>1 DEF FollowsDial, Updating, Announcing, Exists
  <2>4. QED
    BY <2>1, <2>2, <2>3
<1>9. CASE Crash
  BY <1>9 DEF Crash, LoseHandlers, FollowsDial, Updating, Announcing, Exists,
              Idle
<1>10. CASE UNCHANGED vars
  BY <1>10 DEF vars, placementVars, flowVars, FollowsDial, Updating,
               Announcing, Exists
<1>11. QED
  BY <1>1, <1>2, <1>3, <1>4, <1>5, <1>6, <1>7, <1>8, <1>9, <1>10
     DEF Next, InFlow, HandlerStep

-----------------------------------------------------------------------------
(* What each step does to the columns. *)

\* Status and times of d stay, and so does its claim.
SameEnd(d) == /\ calls'[d].status = calls[d].status
              /\ calls'[d].answered_at = calls[d].answered_at
              /\ calls'[d].completed_at = calls[d].completed_at

SameClaim(d) == calls'[d].post_call_callback_sent_at
                    = calls[d].post_call_callback_sent_at

\* One of the steps that write neither.
Quiet ==
    \/ \E c \in Calls :
           InFlow(\/ CarrierStep(c) \/ StreamStarts(c) \/ StoreSids(c)
                  \/ JoinRoom(c) \/ StreamFault(c)
                  \/ ReadForStream(c, "stream_connecting", "connecting",
                                   "connecting_update", "joining")
                  \/ ReadForStream(c, "streaming", "streaming",
                                   "streaming_update", "closed"))
    \/ \E h \in Handlers :
           InFlow(ReceiveWebhook(h) \/ AnnounceEnd(h) \/ HandlerFault(h))
    \/ \E w \in Sweepers : InCleanup(SweepStep(w) \/ ClearFault(w))
    \/ Crash
    \/ UNCHANGED vars

StreamUpdate(c) ==
    \/ UpdateFromStream(c, "stream_connecting", "connecting_update", "joining")
    \/ UpdateFromStream(c, "streaming", "streaming_update", "closed")

\* The steps by what they write.
LEMMA StepKinds ==
    ASSUME RequestInv, [Next]_vars
    PROVE  \/ \E r \in Calls :
                  /\ Requests(r)
                  /\ UNCHANGED <<flowVars, callbackVars, cleanupVars>>
           \/ \E h \in Handlers : InFlow(UpdateFromWebhook(h))
           \/ \E c \in Calls : InFlow(StreamUpdate(c))
           \/ \E c \in Calls : InCallback(CallbackStep(c) \/ CallbackFault(c))
           \/ Quiet
<1>1. ASSUME NEW r \in Calls,
             InPlacement(Receive(r) \/ Advance(r) \/ DatabaseFault(r))
      PROVE  Requests(r) /\ UNCHANGED <<flowVars, callbackVars, cleanupVars>>
  BY <1>1, RequestsStep DEF InPlacement, RequestInv
<1>2. ASSUME NEW c \in Calls,
             InFlow(CarrierStep(c) \/ StreamStarts(c) \/ StreamStep(c)
                      \/ StreamFault(c))
      PROVE  Quiet \/ InFlow(StreamUpdate(c))
  BY <1>2 DEF InFlow, StreamStep, MarkConnecting, MarkStreaming, Quiet,
              StreamUpdate
<1>3. ASSUME NEW h \in Handlers,
             InFlow(ReceiveWebhook(h) \/ HandlerStep(h) \/ HandlerFault(h))
      PROVE  Quiet \/ InFlow(UpdateFromWebhook(h))
  BY <1>3 DEF InFlow, HandlerStep, Quiet
<1>4. QED
  BY <1>1, <1>2, <1>3 DEF Next, Quiet

LEMMA QuietRows ==
    ASSUME TypeOK, LifeTypeOK, Quiet
    PROVE  /\ \A d \in Calls : SameEnd(d) /\ SameClaim(d)
           /\ UNCHANGED dialled
<1>1. /\ UNCHANGED dialled
      /\ \/ UNCHANGED calls
         \/ \E c \in Calls : \/ calls' = [calls EXCEPT ![c].twilio_call_sid = TRUE]
                             \/ calls' = [calls EXCEPT
                                            ![c].lyzr_call_agent_id = FALSE]
  <2>1. ASSUME NEW c \in Calls,
               \/ CarrierStep(c) \/ StreamStarts(c) \/ StoreSids(c)
               \/ JoinRoom(c) \/ StreamFault(c)
               \/ ReadForStream(c, "stream_connecting", "connecting",
                                "connecting_update", "joining")
               \/ ReadForStream(c, "streaming", "streaming",
                                "streaming_update", "closed")
        PROVE  /\ UNCHANGED dialled
               /\ \/ UNCHANGED calls
                  \/ calls' = [calls EXCEPT ![c].twilio_call_sid = TRUE]
    BY <2>1 DEF CarrierStep, StreamStarts, StoreSids, JoinRoom, StreamFault,
                ReadForStream
  <2>2. ASSUME NEW h \in Handlers,
               ReceiveWebhook(h) \/ AnnounceEnd(h) \/ HandlerFault(h)
        PROVE  UNCHANGED <<dialled, calls>>
    BY <2>2 DEF ReceiveWebhook, AnnounceEnd, HandlerFault
  <2>3. ASSUME NEW w \in Sweepers, SweepStep(w) \/ ClearFault(w)
        PROVE  /\ UNCHANGED dialled
               /\ \/ UNCHANGED calls
                  \/ \E c \in Calls :
                         calls' = [calls EXCEPT ![c].lyzr_call_agent_id = FALSE]
    BY <2>3 DEF SweepStep, StartSweep, AgentDeleted, DeletionFails,
                ClearClonedAgent, ClearFault, Forget, LifeTypeOK
  <2>4. QED
    BY <2>1, <2>2, <2>3 DEF Quiet, InFlow, InCleanup, Crash, vars, placementVars
<1>2. ASSUME NEW d \in Calls PROVE SameEnd(d) /\ SameClaim(d)
  <2>1. calls[d] \in Row
    BY DEF TypeOK
  <2>2. \/ calls'[d] = calls[d]
        \/ calls'[d] = [calls[d] EXCEPT !.twilio_call_sid = TRUE]
        \/ calls'[d] = [calls[d] EXCEPT !.lyzr_call_agent_id = FALSE]
    BY <1>1 DEF TypeOK
  <2>3. QED
    BY <2>1, <2>2 DEF Row, SameEnd, SameClaim
<1>3. QED
  BY <1>1, <1>2

LEMMA ClaimRows ==
    ASSUME TypeOK, NEW c \in Calls, CallbackStep(c) \/ CallbackFault(c)
    PROVE  /\ \A d \in Calls : SameEnd(d)
           /\ \A d \in Calls \ {c} : SameClaim(d)
           /\ \/ SameClaim(c)
              \/ /\ taken[c] < Len(onTerminal[c])
                 /\ calls'[c].post_call_callback_sent_at
<1>1. \/ UNCHANGED calls
      \/ /\ taken[c] < Len(onTerminal[c])
         /\ calls' = [calls EXCEPT ![c].post_call_callback_sent_at = TRUE]
  BY DEF CallbackStep, CallbackFault, Claim, Post, RecordSuccess, RecordFailure
<1>2. ASSUME NEW d \in Calls
      PROVE  /\ SameEnd(d)
             /\ d # c => SameClaim(d)
             /\ UNCHANGED calls => SameClaim(d)
  <2>1. calls[d] \in Row
    BY DEF TypeOK
  <2>2. \/ calls'[d] = calls[d]
        \/ calls'[d] = [calls[d] EXCEPT !.post_call_callback_sent_at = TRUE]
    BY <1>1 DEF TypeOK
  <2>3. d # c => calls'[d] = calls[d]
    BY <1>1 DEF TypeOK
  <2>4. QED
    BY <2>1, <2>2, <2>3 DEF Row, SameEnd, SameClaim
<1>3. ASSUME calls' = [calls EXCEPT ![c].post_call_callback_sent_at = TRUE]
      PROVE  calls'[c].post_call_callback_sent_at
  BY <1>3 DEF TypeOK, Row
<1>4. QED
  BY <1>1, <1>2, <1>3

LEMMA StreamRow ==
    ASSUME TypeOK, NEW c \in Calls, StreamUpdate(c)
    PROVE  /\ \A d \in Calls \ {c} : calls'[d] = calls[d]
           /\ SameClaim(c)
           /\ calls'[c].answered_at
           /\ calls'[c].completed_at = calls[c].completed_at
           /\ StreamWrites(c)
           /\ \/ /\ stream[c] = "connecting_update"
                 /\ calls'[c].status = "stream_connecting"
              \/ /\ stream[c] = "streaming_update"
                 /\ calls'[c].status = "streaming"
<1>1. calls[c] \in Row
  BY DEF TypeOK
<1>2. \A d \in Calls \ {c} : calls'[d] = calls[d]
  BY DEF StreamUpdate, UpdateFromStream, TypeOK
<1>3. \/ /\ stream[c] = "connecting_update"
         /\ calls'[c] = [calls[c] EXCEPT !.status = "stream_connecting",
                                         !.answered_at = TRUE]
      \/ /\ stream[c] = "streaming_update"
         /\ calls'[c] = [calls[c] EXCEPT !.status = "streaming",
                                         !.answered_at = TRUE]
  BY DEF StreamUpdate, UpdateFromStream, GotoStream, TypeOK
<1>4. QED
  BY <1>1, <1>2, <1>3 DEF Row, SameClaim, StreamWrites

LEMMA WebhookRow ==
    ASSUME TypeOK, LifeTypeOK, NEW h \in Handlers, UpdateFromWebhook(h)
    PROVE  \E c \in Calls, next \in Reported :
               /\ Updating(h, c) /\ handler[h].next = next
               /\ \A d \in Calls \ {c} : calls'[d] = calls[d]
               /\ SameClaim(c)
               /\ calls'[c].status = next
               /\ calls'[c].answered_at
                      = (calls[c].answered_at \/ next = "answered")
               /\ calls'[c].completed_at
                      = (calls[c].completed_at \/ next \in Terminal)
<1>1. PICK c \in Calls, next \in Reported :
          Updating(h, c) /\ handler[h].next = next
  BY DEF UpdateFromWebhook, LifeTypeOK, HandlerStates, Idle, Updating
<1>2. calls[c] \in Row
  BY DEF TypeOK
<1>3. \A d \in Calls \ {c} : calls'[d] = calls[d]
  BY <1>1 DEF UpdateFromWebhook, Updating, TypeOK
<1>4. calls'[c] = [calls[c] EXCEPT !.status = next,
                                   !.answered_at = @ \/ next = "answered",
                                   !.completed_at = @ \/ next \in Terminal]
  BY <1>1 DEF UpdateFromWebhook, Updating, TypeOK
<1>5. /\ SameClaim(c)
      /\ calls'[c].status = next
      /\ calls'[c].answered_at = (calls[c].answered_at \/ next = "answered")
      /\ calls'[c].completed_at = (calls[c].completed_at \/ next \in Terminal)
  BY <1>2, <1>4 DEF Row, SameClaim
<1>6. QED
  BY <1>1, <1>3, <1>5

\* A request writes its own row only, and leaves a first row blank.
LEMMA RequestRow ==
    ASSUME TypeOK, NEW r \in Calls, Requests(r)
    PROVE  /\ \A d \in Calls \ {r} :
                  /\ calls'[d] = calls[d] /\ pc'[d] = pc[d]
                  /\ onTerminal'[d] = onTerminal[d]
                  /\ d \in dialled' <=> d \in dialled
           /\ calls'[r] = calls[r] \/ calls'[r] = Written(r)
           /\ pc[r] = "insert" /\ calls'[r] # calls[r] =>
                  /\ calls'[r].status = "created"
                  /\ calls'[r].answered_at = FALSE
                  /\ calls'[r].completed_at = FALSE
                  /\ calls'[r].post_call_callback_sent_at = FALSE
<1>1. \A d \in Calls \ {r} :
          /\ calls'[d] = calls[d] /\ pc'[d] = pc[d]
          /\ onTerminal'[d] = onTerminal[d]
          /\ d \in dialled' <=> d \in dialled
  BY DEF Requests, TypeOK
<1>2. calls'[r] = calls[r] \/ calls'[r] = Written(r)
  BY DEF Requests, TypeOK
<1>3. pc[r] = "insert" =>
          /\ Written(r).status = "created"
          /\ Written(r).answered_at = FALSE
          /\ Written(r).completed_at = FALSE
          /\ Written(r).post_call_callback_sent_at = FALSE
  BY DEF Written, NoRow
<1>4. QED
  BY <1>1, <1>2, <1>3

\* Only an UPDATE leads to an announcement, and only a lookup to an UPDATE,
\* which is then a legal one.
LEMMA HandlerMoves ==
    ASSUME LifeTypeOK, NEW h \in Handlers,
           ReceiveWebhook(h) \/ AnnounceEnd(h) \/ HandlerFault(h)
    PROVE  \A g \in Handlers, c \in Calls :
               /\ Announcing(g, c)' => Announcing(g, c)
               /\ Updating(g, c)' =>
                      \/ Updating(g, c) /\ handler'[g] = handler[g]
                      \/ /\ calls[c].status \notin Terminal
                         /\ handler'[g].next \in Transitions[calls[c].status]
                         /\ calls[c].twilio_call_sid
<1>1. CASE handler' = [handler EXCEPT ![h] = Idle]
  BY <1>1 DEF LifeTypeOK, Announcing, Updating, Idle
<1>2. ASSUME NEW d \in Calls, NEW next \in Reported,
             calls[d].twilio_call_sid,
             calls[d].status \notin Terminal,
             next \in Transitions[calls[d].status],
             handler' = [handler EXCEPT ![h] =
                             [pc |-> "update", call |-> d, next |-> next]]
      PROVE  \A g \in Handlers, c \in Calls :
                 /\ Announcing(g, c)' => Announcing(g, c)
                 /\ Updating(g, c)' =>
                        \/ Updating(g, c) /\ handler'[g] = handler[g]
                        \/ /\ calls[c].status \notin Terminal
                           /\ handler'[g].next \in Transitions[calls[c].status]
                           /\ calls[c].twilio_call_sid
  <2>1. \A g \in Handlers \ {h} : handler'[g] = handler[g]
    BY <1>2 DEF LifeTypeOK
  <2>2. handler'[h] = [pc |-> "update", call |-> d, next |-> next]
    BY <1>2 DEF LifeTypeOK
  <2>3. QED
    BY <1>2, <2>1, <2>2 DEF Announcing, Updating
<1>3. CASE ReceiveWebhook(h)
  BY <1>1, <1>2, <1>3, WebhookRead
<1>4. CASE AnnounceEnd(h) \/ HandlerFault(h)
  <2>1. handler' \in {handler, [handler EXCEPT ![h] = Idle]}
    BY <1>4 DEF AnnounceEnd, HandlerFault
  <2>2. QED
    BY <1>1, <2>1 DEF Announcing, Updating
<1>5. QED
  BY <1>3, <1>4

-----------------------------------------------------------------------------
(* Times and claims. *)

LEMMA EndsDatedStep ==
    ASSUME LifeInv, [Next]_vars
    PROVE  EndsDated'
<1> DEFINE Dated(c) ==
             /\ calls[c].status \in Terminal => calls[c].completed_at
             /\ calls[c].status \in {"answered", "stream_connecting", "streaming"}
                    => calls[c].answered_at
           Ends(c) == \/ onTerminal[c] # << >>
                      \/ pc[c] = "failed"
                      \/ calls[c].post_call_callback_sent_at
                      \/ \E h \in Handlers : Announcing(h, c)
<1>1. TypeOK /\ LifeTypeOK /\ \A c \in Calls : Dated(c) /\ (Ends(c) => calls[c].completed_at)
  BY DEF LifeInv, RequestInv, EndsDated, TimestampsFollowStatus
<1> SUFFICES ASSUME NEW c \in Calls
             PROVE  Dated(c)' /\ (Ends(c)' => calls'[c].completed_at)
  BY DEF EndsDated, TimestampsFollowStatus
<1>2. ASSUME NEW r \in Calls, Requests(r),
             UNCHANGED <<flowVars, callbackVars, cleanupVars>>
      PROVE  Dated(c)' /\ (Ends(c)' => calls'[c].completed_at)
  <2>1. \A h \in Handlers : Announcing(h, c)' <=> Announcing(h, c)
    BY <1>2 DEF flowVars, Announcing
  <2>2. CASE c # r
    BY <1>1, <1>2, <2>1, <2>2, RequestRow
  <2>3. CASE c = r /\ calls'[r] = calls[r]
    <3>1. pc'[r] = "failed" => calls[r].completed_at
      <4>1. CASE pc'[r] = "failed"
        <5>1. pc[r] = "failing" /\ calls'[r] = Written(r)
          BY <1>1, <1>2, <4>1 DEF Requests, BeforeRow, TypeOK
        <5>2. QED
          BY <1>1, <2>3, <5>1, WrittenKeeps
      <4>2. QED
        BY <4>1
    <3>2. onTerminal'[r] # << >> => onTerminal[r] # << >> \/ pc[r] = "failed"
      BY <1>1, <1>2 DEF Requests, TypeOK
    <3>3. QED
      BY <1>1, <2>1, <2>3, <3>1, <3>2
  <2>4. CASE c = r /\ pc[r] = "insert" /\ calls'[r] # calls[r]
    <3>1. ~calls[r].completed_at
      BY <2>4 DEF LifeInv, FollowsDial, RequestInv, RowsFollowPC, BeforeRow
    <3>2. onTerminal'[r] = onTerminal[r] /\ pc'[r] # "failed"
      BY <1>2, <2>4 DEF Requests
    <3>3. /\ calls'[r].status = "created"
          /\ calls'[r].completed_at = FALSE
          /\ calls'[r].post_call_callback_sent_at = FALSE
      BY <1>1, <1>2, <2>4, RequestRow
    <3>4. "created" \notin Terminal
                \cup {"answered", "stream_connecting", "streaming"}
      BY DEF Terminal
    <3>5. QED
      BY <1>1, <2>1, <2>4, <3>1, <3>2, <3>3, <3>4
  <2>5. CASE c = r /\ pc[r] # "insert" /\ calls'[r] # calls[r]
    <3>1. /\ <<pc[r], pc'[r]>> \in
                 {<<"prepare", "agent">>, <<"prepare", "failing">>,
                  <<"record", "dial">>, <<"record", "failing">>,
                  <<"queue", "placed">>, <<"queue", "failing">>,
                  <<"failing", "failed">>, <<"failing", "errored">>}
          /\ calls'[r] = Written(r) /\ onTerminal'[r] = onTerminal[r]
      BY <1>1, <1>2, <2>5 DEF Requests, TypeOK
    <3>2. /\ calls'[r].post_call_callback_sent_at
                 = calls[r].post_call_callback_sent_at
          /\ calls'[r].completed_at
                 = (calls[r].completed_at \/ pc[r] = "failing")
          /\ calls'[r].status \in
                 {"agent_preparing", "agent_prepared", "queued", "failed"}
          /\ calls'[r].status = "failed" => pc[r] = "failing"
      BY <1>1, <2>5, <3>1, WrittenKeeps
    <3>3. pc'[r] = "failed" => pc[r] = "failing"
      BY <3>1
    <3>4. Dated(r)'
      BY <3>2 DEF Terminal
    <3>5. QED
      BY <1>1, <2>1, <2>5, <3>1, <3>2, <3>3, <3>4
  <2>6. QED
    BY <2>2, <2>3, <2>4, <2>5
<1>3. ASSUME NEW h \in Handlers, InFlow(UpdateFromWebhook(h))
      PROVE  Dated(c)' /\ (Ends(c)' => calls'[c].completed_at)
  <2>1. PICK d \in Calls, next \in Reported :
            /\ Updating(h, d) /\ handler[h].next = next
            /\ \A e \in Calls \ {d} : calls'[e] = calls[e]
            /\ SameClaim(d)
            /\ calls'[d].status = next
            /\ calls'[d].answered_at = (calls[d].answered_at \/ next = "answered")
            /\ calls'[d].completed_at
                   = (calls[d].completed_at \/ next \in Terminal)
    BY <1>1, <1>3, WebhookRow DEF InFlow
  <2>2. UNCHANGED <<pc, onTerminal>>
    BY <1>3 DEF InFlow, requestVars, UpdateFromWebhook
  <2>3. \A g \in Handlers :
            Announcing(g, c)' =>
                Announcing(g, c) \/ (g = h /\ c = d /\ next \in Terminal)
    BY <1>1, <1>3, <2>1 DEF InFlow, UpdateFromWebhook, Updating, Announcing,
                            LifeTypeOK, HandlerStates, Idle
  <2>4. {"stream_connecting", "streaming"} \cap Reported = {}
    BY DEF Reported, Terminal
  <2>5. CASE c # d
    BY <1>1, <2>1, <2>2, <2>3, <2>5
  <2>6. CASE c = d
    <3>1. Dated(c)'
      BY <2>1, <2>4, <2>6
    <3>2. Ends(c)' => Ends(c) \/ next \in Terminal
      BY <2>1, <2>2, <2>3, <2>6 DEF SameClaim
    <3>3. QED
      BY <1>1, <2>1, <2>6, <3>1, <3>2
  <2>7. QED
    BY <2>5, <2>6
<1>4. ASSUME NEW d \in Calls, InFlow(StreamUpdate(d))
      PROVE  Dated(c)' /\ (Ends(c)' => calls'[c].completed_at)
  <2>1. UNCHANGED <<pc, onTerminal, handler>>
    BY <1>4 DEF InFlow, requestVars, StreamUpdate, UpdateFromStream
  <2>2. Ends(c)' <=> \/ onTerminal[c] # << >> \/ pc[c] = "failed"
                     \/ calls'[c].post_call_callback_sent_at
                     \/ \E h \in Handlers : Announcing(h, c)
    BY <2>1 DEF Announcing
  <2>3. CASE c # d
    BY <1>1, <1>4, <2>2, <2>3, StreamRow DEF InFlow
  <2>4. CASE c = d
    BY <1>1, <1>4, <2>2, <2>4, StreamRow DEF InFlow, SameClaim, Terminal
  <2>5. QED
    BY <2>3, <2>4
<1>5. ASSUME NEW d \in Calls, InCallback(CallbackStep(d) \/ CallbackFault(d))
      PROVE  Dated(c)' /\ (Ends(c)' => calls'[c].completed_at)
  <2>1. UNCHANGED <<pc, onTerminal, handler>>
    BY <1>1, <1>5, ReportRows DEF InCallback, requestVars, flowVars
  <2>2. SameEnd(c)
    BY <1>1, <1>5, ClaimRows DEF InCallback
  <2>3. Ends(c)' => Ends(c)
    <3>1. taken[d] < Len(onTerminal[d]) => onTerminal[d] # << >>
      BY <1>1 DEF LifeTypeOK
    <3>2. SameClaim(c) \/ (c = d /\ onTerminal[d] # << >>)
      BY <1>1, <1>5, <3>1, ClaimRows DEF InCallback
    <3>3. QED
      BY <2>1, <3>2 DEF Announcing, SameClaim
  <2>4. QED
    BY <1>1, <2>2, <2>3 DEF SameEnd
<1>6. CASE Quiet
  <2>1. SameEnd(c) /\ SameClaim(c)
    BY <1>1, <1>6, QuietRows
  <2>2. pc'[c] = "failed" => pc[c] = "failed"
    BY <1>6 DEF Quiet, InFlow, InCleanup, requestVars, Crash, LoseRequests,
                vars, placementVars
  <2>3. Ends(c)' => Ends(c)
    <3>1. ASSUME NEW h \in Handlers, InFlow(AnnounceEnd(h)) PROVE Ends(c)' => Ends(c)
      BY <1>1, <2>1, <2>2, <3>1
         DEF InFlow, AnnounceEnd, Announcing, SameClaim, TypeOK, LifeTypeOK, Idle
    <3>2. ASSUME NEW h \in Handlers, InFlow(HandlerFault(h) \/ ReceiveWebhook(h))
          PROVE  Ends(c)' => Ends(c)
      <4>1. onTerminal' = onTerminal
        BY <3>2 DEF InFlow, HandlerFault, ReceiveWebhook
      <4>2. \A g \in Handlers : Announcing(g, c)' => Announcing(g, c)
        BY <1>1, <3>2, HandlerMoves DEF InFlow
      <4>3. QED
        BY <2>1, <2>2, <4>1, <4>2 DEF SameClaim
    <3>3. CASE UNCHANGED <<onTerminal, handler>>
      BY <2>1, <2>2, <3>3 DEF SameClaim, Announcing
    <3>4. CASE Crash
      <4>1. onTerminal' = onTerminal /\ \A g \in Handlers : ~Announcing(g, c)'
        BY <3>4 DEF Crash, LoseHandlers, Announcing, Idle
      <4>2. QED
        BY <2>1, <2>2, <4>1 DEF SameClaim
    <3>5. QED
      <4>1. ASSUME NEW d \in Calls,
                   InFlow(\/ CarrierStep(d) \/ StreamStarts(d) \/ StoreSids(d)
                          \/ JoinRoom(d) \/ StreamFault(d)
                          \/ ReadForStream(d, "stream_connecting", "connecting",
                                           "connecting_update", "joining")
                          \/ ReadForStream(d, "streaming", "streaming",
                                           "streaming_update", "closed"))
            PROVE  UNCHANGED <<onTerminal, handler>>
        BY <4>1 DEF InFlow, CarrierStep, StreamStarts, StoreSids, JoinRoom,
                    StreamFault, ReadForStream
      <4>2. ASSUME NEW w \in Sweepers, InCleanup(SweepStep(w) \/ ClearFault(w))
            PROVE  UNCHANGED <<onTerminal, handler>>
        BY <1>1, <4>2, CleanupRows DEF InCleanup, flowVars
      <4>3. UNCHANGED vars => UNCHANGED <<onTerminal, handler>>
        BY DEF vars, placementVars, flowVars
      <4>4. QED
        BY <1>6, <3>1, <3>2, <3>3, <3>4, <4>1, <4>2, <4>3 DEF Quiet, InFlow
  <2>4. QED
    BY <1>1, <2>1, <2>3 DEF SameEnd
<1>7. QED
  BY <1>2, <1>3, <1>4, <1>5, <1>6, StepKinds DEF LifeInv

LEMMA CountedStep ==
    ASSUME LifeInv, [Next]_vars
    PROVE  Counted'
<1>1. TypeOK /\ LifeTypeOK /\ Counted
  BY DEF LifeInv, RequestInv
<1>2. CASE UNCHANGED callbackVars /\ \A c \in Calls : SameClaim(c)
  BY <1>1, <1>2 DEF Counted, callbackVars, SameClaim
<1>3. ASSUME NEW r \in Calls, Requests(r), UNCHANGED callbackVars
      PROVE  Counted'
  <2>1. CASE pc[r] = "insert" /\ calls'[r] # calls[r]
    <3>1. ~calls[r].post_call_callback_sent_at
      BY <2>1 DEF LifeInv, FollowsDial, RequestInv, RowsFollowPC, BeforeRow
    <3>2. post[r] = "none"
      BY <1>1, <3>1 DEF Counted
    <3>3. \A c \in Calls \ {r} : calls'[c] = calls[c]
      BY <1>1, <1>3, RequestRow
    <3>4. QED
      BY <1>1, <1>3, <3>2, <3>3 DEF Counted, callbackVars
  <2>2. CASE pc[r] # "insert" \/ calls'[r] = calls[r]
    <3>1. \A c \in Calls : SameClaim(c)
      <4>1. \A c \in Calls \ {r} : SameClaim(c)
        BY <1>1, <1>3, RequestRow DEF SameClaim
      <4>2. SameClaim(r)
        <5>1. calls'[r] = calls[r] \/ (pc[r] # "insert" /\ calls'[r] = Written(r))
          BY <1>1, <1>3, <2>2, RequestRow
        <5>2. pc[r] # "insert" => Written(r).post_call_callback_sent_at
                                    = calls[r].post_call_callback_sent_at
          BY <1>1, WrittenKeeps
        <5>3. QED
          BY <5>1, <5>2 DEF SameClaim
      <4>3. QED
        BY <4>1, <4>2
    <3>2. QED
      BY <1>2, <1>3, <3>1
  <2>3. QED
    BY <2>1, <2>2
<1>4. ASSUME NEW h \in Handlers, InFlow(UpdateFromWebhook(h)) PROVE Counted'
  <2>1. \A c \in Calls : SameClaim(c)
    BY <1>1, <1>4, WebhookRow DEF InFlow, SameClaim
  <2>2. QED
    BY <1>2, <1>4, <2>1 DEF InFlow
<1>5. ASSUME NEW d \in Calls, InFlow(StreamUpdate(d)) PROVE Counted'
  <2>1. \A c \in Calls : SameClaim(c)
    BY <1>1, <1>5, StreamRow DEF InFlow, SameClaim
  <2>2. QED
    BY <1>2, <1>5, <2>1 DEF InFlow
<1>6. ASSUME NEW d \in Calls, InCallback(CallbackStep(d) \/ CallbackFault(d))
      PROVE  Counted'
  <2>1. \A c \in Calls : calls[c].post_call_callback_sent_at
                             => calls'[c].post_call_callback_sent_at
    BY <1>1, <1>6, ClaimRows DEF InCallback, SameClaim
  <2>2. CASE Claim(d)
    <3>1. CASE calls[d].post_call_callback_sent_at
      BY <1>1, <2>1, <2>2, <3>1 DEF Claim, Counted
    <3>2. CASE ~calls[d].post_call_callback_sent_at
      <4>1. /\ post' = [post EXCEPT ![d] = "posting"]
            /\ attempt' = [attempt EXCEPT ![d] = 1]
            /\ UNCHANGED <<delivered, answerLost>>
        BY <2>2, <3>2 DEF Claim
      <4>2. calls'[d].post_call_callback_sent_at
        BY <1>1, <2>2, <3>2 DEF Claim, TypeOK, Row
      <4>3. delivered[d] = 0
        BY <1>1, <3>2 DEF Counted
      <4>4. QED
        BY <1>1, <2>1, <4>1, <4>2, <4>3, CallbackAssumption
           DEF Counted, LifeTypeOK
    <3>3. QED
      BY <3>1, <3>2
  <2>3. CASE Post(d)
    BY <1>1, <2>1, <2>3, CallbackAssumption
       DEF Post, RetryOrFail, Counted, LifeTypeOK
  <2>4. CASE RecordSuccess(d) \/ RecordFailure(d)
    BY <1>1, <2>1, <2>4 DEF RecordSuccess, RecordFailure, Counted, LifeTypeOK
  <2>5. CASE CallbackFault(d)
    <3>1. CASE UNCHANGED <<post, attempt, answerLost>>
      BY <1>1, <2>1, <2>5, <3>1 DEF CallbackFault, Counted
    <3>2. CASE /\ post[d] = "recording"
               /\ \/ RetryOrFail(d)
                  \/ post' = [post EXCEPT ![d] = "failed"] /\ UNCHANGED attempt
               /\ answerLost' = answerLost \cup {d}
               /\ UNCHANGED delivered
      BY <1>1, <2>1, <3>2, CallbackAssumption
         DEF RetryOrFail, Counted, LifeTypeOK
    <3>3. QED
      BY <2>5, <3>1, <3>2 DEF CallbackFault
  <2>6. QED
    BY <1>6, <2>2, <2>3, <2>4, <2>5 DEF InCallback, CallbackStep
<1>7. CASE Quiet
  <2>1. \A c \in Calls : SameClaim(c)
    BY <1>1, <1>7, QuietRows
  <2>2. CASE Crash
    BY <1>1, <2>1, <2>2 DEF Crash, LoseSends, Counted, LifeTypeOK, SameClaim
  <2>3. CASE UNCHANGED callbackVars
    BY <1>2, <2>1, <2>3
  <2>4. QED
    BY <1>7, <2>2, <2>3 DEF Quiet, InFlow, InCleanup, vars
<1>8. QED
  BY <1>3, <1>4, <1>5, <1>6, <1>7, StepKinds DEF LifeInv

LEMMA ClearsDeletedStep ==
    ASSUME LifeInv, [Next]_vars
    PROVE  ClearsDeleted'
<1> USE DEF LifeInv, ClearsDeleted
<1>1. ASSUME NEW w \in Sweepers, SweepStep(w) \/ ClearFault(w)
      PROVE  ClearsDeleted'
  BY <1>1 DEF SweepStep, StartSweep, AgentDeleted, DeletionFails,
              ClearClonedAgent, ClearFault, Forget, LifeTypeOK
<1>2. CASE UNCHANGED cleanupVars
  BY <1>2 DEF cleanupVars
<1>3. CASE Crash
  BY <1>3 DEF Crash, LoseSweeps, Resting
<1>4. QED
  BY <1>1, <1>2, <1>3
     DEF Next, InPlacement, InFlow, InCallback, InCleanup, vars

\* Only a request's UPDATE and a sweep write the id of a clone.
LEMMA AgentIds ==
    ASSUME TypeOK, LifeTypeOK, [Next]_vars
    PROVE  \/ \E r \in Calls :
                  /\ Requests(r)
                  /\ UNCHANGED <<flowVars, callbackVars, cleanupVars>>
           \/ \E w \in Sweepers : InCleanup(SweepStep(w) \/ ClearFault(w))
           \/ /\ UNCHANGED <<dialled, deleted>>
              /\ \A c \in Calls : /\ pc'[c] = "dial" => pc[c] = "dial"
                                  /\ calls'[c].lyzr_call_agent_id
                                         = calls[c].lyzr_call_agent_id
<1> DEFINE Same == /\ UNCHANGED <<dialled, deleted>>
                   /\ \A c \in Calls : /\ pc'[c] = "dial" => pc[c] = "dial"
                                       /\ calls'[c].lyzr_call_agent_id
                                              = calls[c].lyzr_call_agent_id
<1>0. calls = [c \in Calls |-> calls[c]] /\ \A c \in Calls : calls[c] \in Row
  BY DEF TypeOK
<1>1. ASSUME NEW r \in Calls,
             InPlacement(Receive(r) \/ Advance(r) \/ DatabaseFault(r))
      PROVE  Requests(r) /\ UNCHANGED <<flowVars, callbackVars, cleanupVars>>
  BY <1>1, RequestsStep DEF InPlacement
<1>2. ASSUME NEW c \in Calls,
             InFlow(CarrierStep(c) \/ StreamStarts(c) \/ StreamStep(c)
                      \/ StreamFault(c))
      PROVE  Same
  <2>1. \/ UNCHANGED calls
        \/ calls' = [calls EXCEPT ![c].twilio_call_sid = TRUE]
        \/ \E target \in {"stream_connecting", "streaming"} :
               calls' = [calls EXCEPT ![c].status = target, ![c].answered_at = TRUE]
    BY <1>2 DEF InFlow, CarrierStep, StreamStarts, StreamStep, StreamFault,
                StoreSids, JoinRoom, MarkConnecting, MarkStreaming,
                ReadForStream, UpdateFromStream
  <2>2. UNCHANGED <<pc, dialled, deleted>>
    BY <1>2 DEF InFlow, requestVars, cleanupVars, CarrierStep, StreamStarts,
                StreamStep, StreamFault, StoreSids, JoinRoom, MarkConnecting,
                MarkStreaming, ReadForStream, UpdateFromStream
  <2>3. ASSUME NEW d \in Calls
        PROVE  calls'[d].lyzr_call_agent_id = calls[d].lyzr_call_agent_id
    <3>1. \/ calls'[d] = calls[d]
          \/ calls'[d] = [calls[d] EXCEPT !.twilio_call_sid = TRUE]
          \/ \E target \in {"stream_connecting", "streaming"} :
                 calls'[d] = [calls[d] EXCEPT !.status = target,
                                              !.answered_at = TRUE]
      BY <1>0, <2>1
    <3> QED
      BY <1>0, <3>1 DEF Row
  <2> QED
    BY <2>2, <2>3
<1>3. ASSUME NEW h \in Handlers,
             InFlow(ReceiveWebhook(h) \/ HandlerStep(h) \/ HandlerFault(h))
      PROVE  Same
  <2>1. CASE UpdateFromWebhook(h)
    <3>1. UNCHANGED <<pc, dialled, deleted>>
      BY <1>3, <2>1 DEF InFlow, requestVars, cleanupVars, UpdateFromWebhook
    <3>2. ASSUME NEW d \in Calls
          PROVE  calls'[d].lyzr_call_agent_id = calls[d].lyzr_call_agent_id
      <4>1. calls[d] \in Row
        BY <1>0
      <4>2. \/ calls'[d] = calls[d]
            \/ /\ d = handler[h].call
               /\ calls'[d] = [calls[d] EXCEPT
                      !.status = handler[h].next,
                      !.answered_at = @ \/ handler[h].next = "answered",
                      !.completed_at = @ \/ handler[h].next \in Terminal]
        BY <1>0, <2>1, Zenon DEF UpdateFromWebhook
      <4> QED
        BY <4>1, <4>2 DEF Row
    <3> QED
      BY <3>1, <3>2
  <2>2. CASE ~UpdateFromWebhook(h)
    BY <1>3, <2>2 DEF InFlow, requestVars, cleanupVars, ReceiveWebhook,
                      HandlerStep, AnnounceEnd, HandlerFault
  <2> QED
    BY <2>1, <2>2
<1>4. ASSUME NEW c \in Calls, InCallback(CallbackStep(c) \/ CallbackFault(c))
      PROVE  Same
  <2>1. \/ UNCHANGED calls
        \/ calls' = [calls EXCEPT ![c].post_call_callback_sent_at = TRUE]
    BY <1>4 DEF InCallback, CallbackStep, CallbackFault, Claim, Post,
                RecordSuccess, RecordFailure
  <2>2. UNCHANGED <<pc, dialled, deleted>>
    BY <1>4 DEF InCallback, requestVars, cleanupVars, CallbackStep,
                CallbackFault, Claim, Post, RecordSuccess, RecordFailure
  <2>3. ASSUME NEW d \in Calls
        PROVE  calls'[d].lyzr_call_agent_id = calls[d].lyzr_call_agent_id
    <3>1. \/ calls'[d] = calls[d]
          \/ calls'[d] = [calls[d] EXCEPT !.post_call_callback_sent_at = TRUE]
      BY <1>0, <2>1
    <3> QED
      BY <1>0, <3>1 DEF Row
  <2> QED
    BY <2>2, <2>3
<1>5. CASE Crash
  BY <1>5 DEF Crash, LoseRequests
<1>6. CASE UNCHANGED vars
  BY <1>6 DEF vars, placementVars, cleanupVars
<1> QED
  BY <1>1, <1>2, <1>3, <1>4, <1>5, <1>6 DEF Next

LEMMA RecordedStep ==
    ASSUME LifeInv, [Next]_vars
    PROVE  Recorded'
<1>1. TypeOK /\ LifeTypeOK /\ Recorded /\ ClearsDeleted
  BY DEF LifeInv, RequestInv
<1>2. ASSUME NEW r \in Calls, Requests(r),
             UNCHANGED <<flowVars, callbackVars, cleanupVars>>
      PROVE  Recorded'
  <2>1. UNCHANGED deleted
    BY <1>2 DEF cleanupVars
  <2>2. ASSUME NEW c \in Calls, c # r
        PROVE  /\ calls'[c] = calls[c] /\ pc'[c] = pc[c]
               /\ c \in dialled' <=> c \in dialled
    BY <1>1, <1>2, <2>2, RequestRow
  <2>3. ASSUME Cloning, r \in dialled' \/ pc'[r] = "dial"
        PROVE  calls'[r].lyzr_call_agent_id \/ r \in deleted
    <3>1. pc[r] = "insert" => r \notin dialled
      BY DEF LifeInv, RequestInv, RowsFollowPC, BeforeRow, DialsHaveRows
    <3>2. CASE calls' = [calls EXCEPT ![r] = Written(r)] /\ UNCHANGED dialled
      BY <1>1, <1>2, <2>3, <3>1, <3>2, WrittenColumns
         DEF Requests, Recorded, TypeOK, BeforeRow
    <3>3. CASE UNCHANGED calls
      <4>1. CASE r \in dialled \/ pc[r] = "dial"
        BY <1>1, <2>3, <3>3, <4>1 DEF Recorded
      <4>2. CASE r \notin dialled /\ pc[r] # "dial"
        <5>1. pc'[r] = "dial" /\ r \notin dialled' /\ pc[r] = "record"
          BY <1>2, <2>3, <4>2 DEF Requests, BeforeRow
        <5>2. calls' = [calls EXCEPT ![r] = Written(r)]
          BY <1>2, <5>1 DEF Requests, BeforeRow
        <5> QED
          BY <1>2, <3>2, <5>1, <5>2 DEF Requests, BeforeRow
      <4> QED
        BY <4>1, <4>2
    <3> QED
      BY <1>2, <3>2, <3>3 DEF Requests
  <2> QED
    BY <1>1, <2>1, <2>2, <2>3 DEF Recorded
<1>3. ASSUME NEW w \in Sweepers, InCleanup(SweepStep(w) \/ ClearFault(w))
      PROVE  Recorded'
  <2>1. UNCHANGED <<pc, dialled>> /\ deleted \subseteq deleted'
    BY <1>3 DEF InCleanup, requestVars, SweepStep, StartSweep, AgentDeleted,
                DeletionFails, ClearClonedAgent, ClearFault
  <2>2. \A c \in Calls : \/ calls'[c].lyzr_call_agent_id
                              = calls[c].lyzr_call_agent_id
                        \/ c \in deleted
    <3>1. \/ UNCHANGED calls
          \/ /\ sweeper[w].clearing \in deleted
             /\ calls' = [calls EXCEPT
                              ![sweeper[w].clearing].lyzr_call_agent_id = FALSE]
      BY <1>1, <1>3 DEF InCleanup, SweepStep, StartSweep, AgentDeleted,
                DeletionFails, ClearClonedAgent, ClearFault, Forget, ClearsDeleted
    <3> QED
      BY <1>1, <3>1 DEF TypeOK
  <2> QED
    BY <1>1, <2>1, <2>2 DEF Recorded
<1>4. ASSUME UNCHANGED <<dialled, deleted>>,
             \A c \in Calls : /\ pc'[c] = "dial" => pc[c] = "dial"
                             /\ calls'[c].lyzr_call_agent_id
                                    = calls[c].lyzr_call_agent_id
      PROVE  Recorded'
  BY <1>1, <1>4 DEF Recorded
<1> QED
  BY <1>1, <1>2, <1>3, <1>4, AgentIds

LEMMA RowBeforeDialStep ==
    ASSUME LifeInv, [Next]_vars
    PROVE  RowBeforeDial'
<1>1. TypeOK /\ LifeTypeOK /\ RowBeforeDial
  BY DEF LifeInv, RequestInv
<1>2. ASSUME NEW r \in Calls, Requests(r) PROVE RowBeforeDial'
  <2> SUFFICES ASSUME NEW c \in Calls
               PROVE  /\ pc'[c] \in {"prepare", "agent", "record", "dial"}
                             => c \notin dialled'
                      /\ pc'[c] = "prepare" => calls'[c].status = "created"
                      /\ pc'[c] \in {"agent", "record"}
                             => calls'[c].status = "agent_preparing"
                      /\ pc'[c] = "dial"
                             => calls'[c].status = "agent_prepared"
                      /\ pc'[c] = "failing" /\ c \notin dialled'
                             => calls'[c].status \in Preparation
    BY DEF RowBeforeDial
  <2>1. CASE c # r
    <3>1. /\ calls'[c] = calls[c] /\ pc'[c] = pc[c]
          /\ c \in dialled' <=> c \in dialled
      BY <1>1, <1>2, <2>1, RequestRow
    <3>2. QED
      BY <1>1, <3>1 DEF RowBeforeDial
  <2>2. CASE c = r
    <3>1. pc[r] = "insert" => r \notin dialled /\ Written(r).status = "created"
      BY DEF LifeInv, RequestInv, RowsFollowPC, BeforeRow, Written, NoRow
    <3>2. pc[r] = "queue" => r \in dialled
      BY DEF LifeInv, RequestInv, DialsHaveRows
    <3>3. CASE pc[r] = "insert"
      BY <1>1, <1>2, <2>2, <3>1, <3>3 DEF Requests, TypeOK, BeforeRow
    <3>4. CASE /\ pc[r] \in {"prepare", "record", "queue", "failing"}
               /\ calls' = [calls EXCEPT ![r] = Written(r)]
      BY <1>1, <1>2, <2>2, <3>2, <3>4, WrittenKeeps
         DEF Requests, TypeOK, RowBeforeDial, Preparation, BeforeRow
    <3>5. CASE /\ pc'[r] \notin {"prepare", "agent", "record", "dial",
                                   "queue", "failing"}
               /\ UNCHANGED <<calls, dialled>>
      BY <2>2, <3>5
    <3>6. CASE /\ <<pc[r], pc'[r]>> \in
                      {<<"prepare", "failing">>, <<"record", "failing">>,
                       <<"queue", "failing">>, <<"agent", "record">>,
                       <<"agent", "failing">>}
               /\ UNCHANGED <<calls, dialled>>
      BY <1>1, <2>2, <3>2, <3>6 DEF RowBeforeDial, Preparation
    <3>7. CASE /\ pc[r] = "dial" /\ pc'[r] \in {"queue", "failing"}
               /\ UNCHANGED calls
      BY <1>1, <2>2, <3>7 DEF RowBeforeDial, Preparation
    <3>8. QED
      BY <1>2, <3>3, <3>4, <3>5, <3>6, <3>7 DEF Requests, BeforeRow
  <2>3. QED
    BY <2>1, <2>2
<1>3. ASSUME UNCHANGED dialled,
             \A c \in Calls :
                 /\ pc'[c] \in {"prepare", "agent", "record", "dial", "failing"}
                        => pc'[c] = pc[c]
                 /\ c \notin dialled => calls'[c].status = calls[c].status
      PROVE  RowBeforeDial'
  BY <1>1, <1>3 DEF RowBeforeDial
<1>4. ASSUME NEW h \in Handlers, InFlow(UpdateFromWebhook(h))
      PROVE  RowBeforeDial'
  <2>1. \A c \in Calls : c \notin dialled => calls'[c].status = calls[c].status
    BY <1>1, <1>4, WebhookRow DEF InFlow, LifeInv, FollowsDial
  <2>2. UNCHANGED <<pc, dialled>>
    BY <1>4 DEF InFlow, requestVars, UpdateFromWebhook
  <2>3. QED
    BY <1>3, <2>1, <2>2
<1>5. ASSUME NEW d \in Calls, InFlow(StreamUpdate(d)) PROVE RowBeforeDial'
  <2>1. d \in dialled
    BY <1>1, <1>5, StreamRow DEF InFlow, LifeInv, FollowsDial, StreamWrites
  <2>2. \A c \in Calls : c \notin dialled => calls'[c].status = calls[c].status
    BY <1>1, <1>5, <2>1, StreamRow DEF InFlow
  <2>3. UNCHANGED <<pc, dialled>>
    BY <1>5 DEF InFlow, requestVars, StreamUpdate, UpdateFromStream
  <2>4. QED
    BY <1>3, <2>2, <2>3
<1>6. ASSUME NEW d \in Calls, InCallback(CallbackStep(d) \/ CallbackFault(d))
      PROVE  RowBeforeDial'
  <2>1. UNCHANGED <<pc, dialled>>
    BY <1>1, <1>6, ReportRows DEF InCallback, requestVars
  <2>2. \A c \in Calls : calls'[c].status = calls[c].status
    BY <1>1, <1>6, ClaimRows DEF InCallback, SameEnd
  <2>3. QED
    BY <1>3, <2>1, <2>2
<1>7. CASE Quiet
  <2>1. UNCHANGED dialled /\ \A c \in Calls : calls'[c].status = calls[c].status
    BY <1>1, <1>7, QuietRows DEF SameEnd
  <2>2. UNCHANGED pc \/ LoseRequests
    BY <1>7 DEF Quiet, InFlow, InCleanup, requestVars, Crash, vars,
                placementVars
  <2>3. \A c \in Calls :
            pc'[c] \in {"prepare", "agent", "record", "dial", "failing"}
                => pc'[c] = pc[c]
    BY <2>2 DEF LoseRequests
  <2>4. QED
    BY <1>3, <2>1, <2>3
<1>8. QED
  BY <1>2, <1>4, <1>5, <1>6, <1>7, StepKinds DEF LifeInv

-----------------------------------------------------------------------------
(* Updates that do not overlap. *)

\* Nobody was told of the end of a call whose row has not ended.
LEMMA NotEnded ==
    ASSUME TypeOK, NEW c \in Calls, EndAgreed(c), calls[c].status \notin Terminal
    PROVE  /\ pc[c] # "failed" /\ post[c] = "none"
           /\ \A h \in Handlers : ~Announcing(h, c)
           /\ Len(onTerminal[c]) = 0
<1>1. Len(onTerminal[c]) \in Nat
  BY DEF TypeOK
<1>2. ~(1 \in 1..Len(onTerminal[c]))
  BY DEF EndAgreed
<1>3. Len(onTerminal[c]) = 0
  BY <1>1, <1>2
<1>4. QED
  BY <1>3 DEF EndAgreed

\* One more announcement of the status the row has.
LEMMA AnnouncedAgain ==
    ASSUME TypeOK, NEW c \in Calls, EndAgreed(c), calls[c].status \in Terminal,
           onTerminal'[c] = Append(onTerminal[c], calls[c].status)
    PROVE  \A i \in 1..Len(onTerminal'[c]) : onTerminal'[c][i] = calls[c].status
<1>1. onTerminal[c] \in Seq(Statuses)
  BY DEF TypeOK
<1>2. calls[c].status \in Statuses
  BY DEF Statuses
<1>3. /\ Len(onTerminal'[c]) = Len(onTerminal[c]) + 1
      /\ \A i \in 1..Len(onTerminal[c]) :
             onTerminal'[c][i] = onTerminal[c][i]
      /\ onTerminal'[c][Len(onTerminal[c]) + 1] = calls[c].status
  BY <1>1, <1>2
<1>4. Len(onTerminal[c]) \in Nat
  BY <1>1
<1>5. QED
  BY <1>3, <1>4 DEF EndAgreed

\* The UPDATE of a handler is the end of it, or leads to its announcement.
LEMMA HandlerWrites ==
    ASSUME LifeTypeOK, NEW h \in Handlers, UpdateFromWebhook(h)
    PROVE  \A g \in Handlers, c \in Calls :
               /\ Updating(g, c)' => /\ g # h /\ Updating(g, c)
                                     /\ handler'[g] = handler[g]
               /\ Announcing(g, c)' =>
                      \/ Announcing(g, c)
                      \/ /\ g = h /\ Updating(h, c)
                         /\ handler[h].next \in Terminal
<1>1. \A g \in Handlers \ {h} : handler'[g] = handler[g]
  BY DEF UpdateFromWebhook, LifeTypeOK
<1>2. handler[h].pc = "update" /\ handler[h] \in HandlerStates
  BY DEF UpdateFromWebhook, LifeTypeOK
<1>3. \/ /\ handler[h].next \in Terminal
         /\ handler'[h] = [handler[h] EXCEPT !.pc = "readback"]
      \/ handler'[h] = Idle
  BY DEF UpdateFromWebhook, LifeTypeOK
<1>4. /\ handler'[h].pc # "update"
      /\ handler'[h].pc = "readback" =>
             /\ handler[h].next \in Terminal
             /\ handler'[h].call = handler[h].call
  BY <1>2, <1>3 DEF HandlerStates, Idle
<1>5. QED
  BY <1>1, <1>2, <1>4 DEF Updating, Announcing

\* What a request does to its own row.
LEMMA InOrderRequest ==
    ASSUME LifeInv, NEW r \in Calls, Requests(r),
           UNCHANGED <<flowVars, callbackVars, cleanupVars>>,
           Alone(r), StillLegal(r), EndAgreed(r)
    PROVE  StillLegal(r)' /\ EndAgreed(r)'
<1>1. TypeOK /\ LifeTypeOK /\ RowBeforeDial
  BY DEF LifeInv, RequestInv
<1>2. UNCHANGED <<handler, stream, post, payload>>
  BY DEF flowVars, callbackVars
<1>3. r \notin dialled =>
          ~StreamWrites(r) /\ \A h \in Handlers : ~Updating(h, r)
  BY DEF LifeInv, FollowsDial, StreamWrites
<1>4. CASE /\ pc'[r] \notin {"queue", "failing", "failed"}
           /\ UNCHANGED <<calls, onTerminal>>
  BY <1>2, <1>4 DEF StillLegal, EndAgreed, Updating, Announcing
<1>5. CASE /\ pc[r] \in {"insert", "prepare", "record", "queue", "failing"}
           /\ calls' = [calls EXCEPT ![r] = Written(r)]
  <2>1. /\ pc[r] = "queue" => r \in dialled
        /\ pc[r] \in {"insert", "prepare", "record"} => r \notin dialled
        /\ pc[r] = "insert" => calls[r].status = "absent"
    BY <1>1 DEF RowBeforeDial, LifeInv, RequestInv, RowsFollowPC, DialsHaveRows,
                BeforeRow, Exists
  <2>2. ~StreamWrites(r) /\ \A h \in Handlers : ~Updating(h, r)
    BY <1>3, <1>5, <2>1 DEF Alone, RequestWrites
  <2>3. calls[r].status \notin Terminal
    BY <1>1, <1>5, <2>1 DEF RowBeforeDial, StillLegal, Terminal, Preparation
  <2>4. /\ post[r] = "none" /\ \A h \in Handlers : ~Announcing(h, r)
        /\ Len(onTerminal[r]) = 0
    BY <1>1, <2>3, NotEnded
  <2>5. /\ dialled' = dialled /\ onTerminal' = onTerminal
        /\ pc'[r] # "queue"
        /\ pc'[r] = "failing" => pc[r] \in {"prepare", "record", "queue"}
        /\ pc'[r] = "failed" => pc[r] = "failing"
        /\ calls'[r] = Written(r)
    BY <1>1, <1>5 DEF Requests, BeforeRow, TypeOK
  <2>6. /\ pc[r] = "queue" => calls'[r].status = "queued"
        /\ pc[r] = "failing" => calls'[r].status = "failed"
    BY <1>1, <2>5, WrittenKeeps
  <2>7. StillLegal(r)'
    BY <1>2, <2>1, <2>2, <2>5, <2>6
       DEF StillLegal, Updating, StreamWrites
  <2>8. EndAgreed(r)'
    BY <1>2, <2>4, <2>5, <2>6 DEF EndAgreed, Announcing, Terminal
  <2>9. QED
    BY <2>7, <2>8
<1>6. CASE /\ <<pc[r], pc'[r]>> \in
                  {<<"prepare", "failing">>, <<"record", "failing">>,
                   <<"queue", "failing">>, <<"agent", "record">>,
                   <<"agent", "failing">>}
           /\ UNCHANGED <<calls, dialled, onTerminal>>
  BY <1>1, <1>2, <1>6
     DEF StillLegal, EndAgreed, Updating, Announcing, RowBeforeDial
<1>7. CASE /\ pc[r] = "dial" /\ pc'[r] \in {"queue", "failing"}
           /\ UNCHANGED <<calls, onTerminal>>
  BY <1>1, <1>2, <1>7
     DEF StillLegal, EndAgreed, Updating, Announcing, RowBeforeDial
<1>8. CASE /\ pc[r] = "failed" /\ pc'[r] = "errored"
           /\ onTerminal' = [onTerminal EXCEPT
                                 ![r] = Append(@, calls[r].status)]
           /\ UNCHANGED calls
  <2>1. calls[r].status \in Terminal
    BY <1>8 DEF EndAgreed
  <2>2. onTerminal'[r] = Append(onTerminal[r], calls[r].status)
    BY <1>1, <1>8 DEF TypeOK
  <2>3. \A i \in 1..Len(onTerminal'[r]) : onTerminal'[r][i] = calls[r].status
    BY <1>1, <2>1, <2>2, AnnouncedAgain
  <2>4. QED
    BY <1>2, <1>8, <2>1, <2>3 DEF StillLegal, EndAgreed, Updating, Announcing
<1>9. QED
  BY <1>1, <1>4, <1>5, <1>6, <1>7, <1>8 DEF Requests, TypeOK, BeforeRow

\* A webhook's UPDATE is legal when nobody else is about to write.
LEMMA InOrderWebhook ==
    ASSUME LifeInv, NEW h \in Handlers, InFlow(UpdateFromWebhook(h)),
           NEW c \in Calls, Alone(c), StillLegal(c), EndAgreed(c)
    PROVE  StillLegal(c)' /\ EndAgreed(c)'
<1>1. TypeOK /\ LifeTypeOK
  BY DEF LifeInv, RequestInv
<1>2. UNCHANGED <<pc, dialled, stream, onTerminal, post, payload>>
  BY DEF InFlow, requestVars, callbackVars, UpdateFromWebhook
<1>3. PICK d \in Calls, next \in Reported :
          /\ Updating(h, d) /\ handler[h].next = next
          /\ \A e \in Calls \ {d} : calls'[e] = calls[e]
          /\ calls'[d].status = next
  BY <1>1, WebhookRow DEF InFlow
<1>4. \A g \in Handlers :
          /\ Updating(g, c)' => /\ g # h /\ Updating(g, c)
                                /\ handler'[g] = handler[g]
          /\ Announcing(g, c)' =>
                 \/ Announcing(g, c)
                 \/ g = h /\ Updating(h, c) /\ handler[h].next \in Terminal
  BY <1>1, HandlerWrites DEF InFlow
<1>5. CASE c # d
  <2>1. ~Updating(h, c)
    BY <1>3, <1>5 DEF Updating
  <2>2. QED
    BY <1>2, <1>3, <1>4, <1>5, <2>1 DEF StillLegal, EndAgreed
<1>6. CASE c = d
  <2>1. /\ ~StreamWrites(c) /\ ~RequestWrites(c)
        /\ \A g \in Handlers : ~Updating(g, c)'
    BY <1>3, <1>4, <1>6 DEF Alone
  <2>2. pc[c] = "queue" => c \in dialled
    BY DEF LifeInv, RequestInv, DialsHaveRows
  <2>3. StillLegal(c)'
    BY <1>2, <2>1, <2>2 DEF StillLegal, StreamWrites, RequestWrites
  <2>4. calls[c].status \notin Terminal
    BY <1>3, <1>6 DEF StillLegal, Legal
  <2>5. /\ pc[c] # "failed" /\ post[c] = "none"
        /\ \A g \in Handlers : ~Announcing(g, c)
        /\ Len(onTerminal[c]) = 0
    BY <1>1, <2>4, NotEnded
  <2>6. EndAgreed(c)'
    BY <1>2, <1>3, <1>4, <1>6, <2>5 DEF EndAgreed
  <2>7. QED
    BY <2>3, <2>6
<1>7. QED
  BY <1>5, <1>6

\* So is the UPDATE of the media stream.
LEMMA InOrderStream ==
    ASSUME LifeInv, NEW d \in Calls, InFlow(StreamUpdate(d)),
           NEW c \in Calls, Alone(c), StillLegal(c), EndAgreed(c)
    PROVE  StillLegal(c)' /\ EndAgreed(c)'
<1>1. TypeOK /\ LifeTypeOK
  BY DEF LifeInv, RequestInv
<1>2. UNCHANGED <<pc, dialled, handler, onTerminal, post, payload>>
  BY DEF InFlow, requestVars, callbackVars, StreamUpdate, UpdateFromStream
<1>3. stream'[c] = stream[c] \/ (c = d /\ stream'[c] \in {"joining", "closed"})
  BY <1>1 DEF InFlow, StreamUpdate, UpdateFromStream, GotoStream, LifeTypeOK
<1>4. CASE c # d
  BY <1>1, <1>2, <1>3, <1>4, StreamRow
     DEF InFlow, StillLegal, EndAgreed, Updating, Announcing
<1>5. CASE c = d
  <2>1. StreamWrites(c) /\ stream'[c] \in {"joining", "closed"}
    BY <1>1, <1>5, StreamRow
       DEF InFlow, StreamUpdate, UpdateFromStream, GotoStream, LifeTypeOK
  <2>2. ~RequestWrites(c) /\ \A g \in Handlers : ~Updating(g, c)
    BY <2>1 DEF Alone
  <2>3. pc[c] = "queue" => c \in dialled
    BY DEF LifeInv, RequestInv, DialsHaveRows
  <2>4. StillLegal(c)'
    BY <1>2, <2>1, <2>2, <2>3 DEF StillLegal, Updating, RequestWrites
  <2>5. calls[c].status \notin Terminal
    BY <2>1 DEF StreamWrites, StillLegal, Legal
  <2>6. /\ pc[c] # "failed" /\ post[c] = "none"
        /\ \A g \in Handlers : ~Announcing(g, c)
        /\ Len(onTerminal[c]) = 0
    BY <1>1, <2>5, NotEnded
  <2>7. EndAgreed(c)'
    BY <1>2, <2>6 DEF EndAgreed, Announcing
  <2>8. QED
    BY <2>4, <2>7
<1>6. QED
  BY <1>4, <1>5

\* A claim reports the status of the notification that it won with.
LEMMA InOrderReport ==
    ASSUME LifeInv, NEW d \in Calls, InCallback(CallbackStep(d) \/ CallbackFault(d)),
           NEW c \in Calls, StillLegal(c), EndAgreed(c)
    PROVE  StillLegal(c)' /\ EndAgreed(c)'
<1>1. TypeOK /\ LifeTypeOK
  BY DEF LifeInv, RequestInv
<1>2. UNCHANGED <<pc, dialled, handler, stream, onTerminal>>
  BY <1>1, ReportRows DEF InCallback, requestVars, flowVars
<1>3. calls'[c].status = calls[c].status
  BY <1>1, ClaimRows DEF InCallback, SameEnd
<1>4. post'[c] # "none" =>
          /\ calls[c].status \in Terminal
          /\ payload'[c] = calls[c].status
  <2>1. CASE UNCHANGED <<post, payload>>
    BY <2>1 DEF EndAgreed
  <2>2. CASE Claim(d) /\ ~UNCHANGED <<post, payload>>
    <3>1. /\ taken[d] < Len(onTerminal[d])
          /\ post' = [post EXCEPT ![d] = "posting"]
          /\ payload' = [payload EXCEPT ![d] = onTerminal[d][taken[d] + 1]]
      BY <2>2 DEF Claim
    <3>2. CASE c # d
      BY <1>1, <3>1, <3>2 DEF EndAgreed, LifeTypeOK
    <3>3. CASE c = d
      <4>1. taken[c] + 1 \in 1..Len(onTerminal[c])
        BY <1>1, <3>1, <3>3 DEF LifeTypeOK, TypeOK
      <4>2. payload'[c] = onTerminal[c][taken[c] + 1]
        BY <1>1, <3>1, <3>3 DEF LifeTypeOK
      <4>3. QED
        BY <4>1, <4>2 DEF EndAgreed
    <3>4. QED
      BY <3>2, <3>3
  <2>3. CASE Post(d) \/ RecordSuccess(d) \/ RecordFailure(d) \/ CallbackFault(d)
    <3>1. UNCHANGED payload
      BY <2>3 DEF Post, RecordSuccess, RecordFailure, CallbackFault
    <3>2. post'[c] = post[c] \/ (c = d /\ post[d] # "none")
      BY <1>1, <2>3 DEF Post, RecordSuccess, RecordFailure, CallbackFault,
                        RetryOrFail, LifeTypeOK
    <3>3. QED
      BY <3>1, <3>2 DEF EndAgreed
  <2>4. QED
    BY <2>1, <2>2, <2>3 DEF InCallback, CallbackStep
<1>5. QED
  BY <1>2, <1>3, <1>4 DEF StillLegal, EndAgreed, Updating, Announcing

\* Nothing that a quiet step does makes a decision stale or a report wrong.
LEMMA InOrderQuiet ==
    ASSUME LifeInv, Quiet, NEW c \in Calls, StillLegal(c), EndAgreed(c)
    PROVE  StillLegal(c)' /\ EndAgreed(c)'
<1>1. TypeOK /\ LifeTypeOK
  BY DEF LifeInv, RequestInv
<1>2. calls'[c].status = calls[c].status /\ UNCHANGED dialled
  BY <1>1, QuietRows DEF SameEnd
<1>3. ASSUME UNCHANGED <<pc, handler, stream, onTerminal, post, payload>>
      PROVE  StillLegal(c)' /\ EndAgreed(c)'
  BY <1>2, <1>3 DEF StillLegal, EndAgreed, Updating, Announcing
<1>4. ASSUME NEW h \in Handlers,
             InFlow(ReceiveWebhook(h) \/ AnnounceEnd(h) \/ HandlerFault(h))
      PROVE  StillLegal(c)' /\ EndAgreed(c)'
  <2>1. UNCHANGED <<pc, stream, post, payload>>
    BY <1>4 DEF InFlow, requestVars, callbackVars, ReceiveWebhook, AnnounceEnd,
                HandlerFault
  <2>2. \A g \in Handlers :
            /\ Announcing(g, c)' => Announcing(g, c)
            /\ Updating(g, c)' =>
                   \/ Updating(g, c) /\ handler'[g] = handler[g]
                   \/ /\ calls[c].status \notin Terminal
                      /\ handler'[g].next \in Transitions[calls[c].status]
                      /\ calls[c].twilio_call_sid
    BY <1>1, <1>4, HandlerMoves DEF InFlow
  <2>3. calls[c].twilio_call_sid => calls[c].status \in Statuses
    <3>1. calls[c].twilio_call_sid => Exists(c)
      BY DEF LifeInv, FollowsDial, RequestInv, DialsHaveRows
    <3>2. QED
      BY <1>1, <3>1 DEF TypeOK, Row, Exists
  <2>4. \A g \in Handlers :
            Updating(g, c)' => Legal(calls[c].status, handler'[g].next)
    BY <2>2, <2>3 DEF StillLegal, Legal
  <2>5. StillLegal(c)'
    BY <1>2, <2>1, <2>4 DEF StillLegal
  <2>6. EndAgreed(c)'
    <3>1. CASE onTerminal'[c] = onTerminal[c]
      BY <1>2, <2>1, <2>2, <3>1 DEF EndAgreed
    <3>2. CASE onTerminal'[c] # onTerminal[c]
      <4>1. /\ Announcing(h, c)
            /\ onTerminal'[c] = Append(onTerminal[c], calls[c].status)
        BY <1>1, <1>4, <3>2 DEF InFlow, ReceiveWebhook, AnnounceEnd,
                                HandlerFault, Announcing, TypeOK
      <4>2. calls[c].status \in Terminal
        BY <4>1 DEF EndAgreed
      <4>3. \A i \in 1..Len(onTerminal'[c]) :
                onTerminal'[c][i] = calls[c].status
        BY <1>1, <4>1, <4>2, AnnouncedAgain
      <4>4. QED
        BY <1>2, <2>1, <2>2, <4>2, <4>3 DEF EndAgreed
    <3>3. QED
      BY <3>1, <3>2
  <2>7. QED
    BY <2>5, <2>6
<1>5. ASSUME NEW d \in Calls,
             InFlow(\/ CarrierStep(d) \/ StreamStarts(d) \/ StoreSids(d)
                    \/ JoinRoom(d) \/ StreamFault(d))
      PROVE  StillLegal(c)' /\ EndAgreed(c)'
  <2>1. UNCHANGED <<pc, handler, onTerminal, post, payload>>
    BY <1>5 DEF InFlow, requestVars, callbackVars, CarrierStep, StreamStarts,
                StoreSids, JoinRoom, StreamFault
  <2>2. /\ stream'[c] = "connecting_update" => stream[c] = "connecting_update"
        /\ stream'[c] = "streaming_update" => stream[c] = "streaming_update"
    BY <1>1, <1>5 DEF InFlow, CarrierStep, StreamStarts, StoreSids, JoinRoom,
                      StreamFault, GotoStream, LifeTypeOK
  <2>3. QED
    BY <1>2, <2>1, <2>2 DEF StillLegal, EndAgreed, Updating, Announcing
<1>6. ASSUME NEW d \in Calls,
             InFlow(\/ ReadForStream(d, "stream_connecting", "connecting",
                                     "connecting_update", "joining")
                    \/ ReadForStream(d, "streaming", "streaming",
                                     "streaming_update", "closed"))
      PROVE  StillLegal(c)' /\ EndAgreed(c)'
  <2>1. UNCHANGED <<pc, handler, onTerminal, post, payload>>
    BY <1>6 DEF InFlow, requestVars, callbackVars, ReadForStream
  <2>2. stream[c] # "none" => calls[c].status \in Statuses
    <3>1. stream[c] # "none" => Exists(c)
      BY DEF LifeInv, FollowsDial, RequestInv, DialsHaveRows
    <3>2. QED
      BY <1>1, <3>1 DEF TypeOK, Row, Exists
  <2>3. /\ stream'[c] = "connecting_update" =>
               \/ stream[c] = "connecting_update"
               \/ Legal(calls[c].status, "stream_connecting")
        /\ stream'[c] = "streaming_update" =>
               \/ stream[c] = "streaming_update"
               \/ Legal(calls[c].status, "streaming")
    <3>1. CASE stream'[c] = stream[c]
      BY <3>1
    <3>2. CASE stream'[c] # stream[c]
      <4>1. \/ /\ stream[c] = "connecting"
               /\ stream'[c] =
                      IF ResolveTransition(calls[c].status, "stream_connecting")
                             = calls[c].status
                        THEN "joining" ELSE "connecting_update"
            \/ /\ stream[c] = "streaming"
               /\ stream'[c] =
                      IF ResolveTransition(calls[c].status, "streaming")
                             = calls[c].status
                        THEN "closed" ELSE "streaming_update"
        BY <1>1, <1>6, <3>2 DEF InFlow, ReadForStream, GotoStream, LifeTypeOK
      <4>2. QED
        BY <2>2, <4>1 DEF ResolveTransition, CanTransition, Legal
    <3>3. QED
      BY <3>1, <3>2
  <2>4. QED
    BY <1>2, <2>1, <2>3 DEF StillLegal, EndAgreed, Updating, Announcing
<1>7. ASSUME NEW w \in Sweepers, InCleanup(SweepStep(w) \/ ClearFault(w))
      PROVE  StillLegal(c)' /\ EndAgreed(c)'
  BY <1>1, <1>3, <1>7, CleanupRows
     DEF InCleanup, requestVars, flowVars, callbackVars
<1>8. CASE UNCHANGED vars
  BY <1>3, <1>8 DEF vars, placementVars, flowVars, callbackVars
<1>9. CASE Crash
  <2>1. /\ pc'[c] = pc[c] \/ pc'[c] = "lost"
        /\ \A h \in Handlers : ~Updating(h, c)' /\ ~Announcing(h, c)'
        /\ stream'[c] \in {"none", "closed"}
        /\ post'[c] # "none" => post[c] # "none"
        /\ UNCHANGED <<onTerminal, payload>>
    BY <1>9 DEF Crash, LoseRequests, LoseHandlers, LoseSends, Updating,
                Announcing, Idle
  <2>2. QED
    BY <1>2, <2>1 DEF StillLegal, EndAgreed
<1>10. QED
  BY <1>4, <1>5, <1>6, <1>7, <1>8, <1>9 DEF Quiet, InFlow

LEMMA InOrderStep ==
    ASSUME LifeInv, [Next]_vars
    PROVE  InOrder'
<1> SUFFICES ASSUME NEW c \in Calls \ overlapped'
             PROVE  Alone(c)' /\ StillLegal(c)' /\ EndAgreed(c)'
  BY DEF InOrder
<1>1. /\ Alone(c)' /\ Alone(c) /\ StillLegal(c) /\ EndAgreed(c)
      /\ TypeOK /\ LifeTypeOK
  BY Overlaps DEF LifeInv, InOrder, RequestInv
<1>2. ASSUME NEW r \in Calls, Requests(r),
             UNCHANGED <<flowVars, callbackVars, cleanupVars>>
      PROVE  StillLegal(c)' /\ EndAgreed(c)'
  <2>1. CASE c = r
    BY <1>1, <1>2, <2>1, InOrderRequest
  <2>2. CASE c # r
    <3>1. /\ calls'[c] = calls[c] /\ pc'[c] = pc[c]
          /\ onTerminal'[c] = onTerminal[c]
          /\ c \in dialled' <=> c \in dialled
      BY <1>1, <1>2, <2>2, RequestRow
    <3>2. UNCHANGED <<handler, stream, post, payload>>
      BY <1>2 DEF flowVars, callbackVars
    <3>3. QED
      BY <1>1, <3>1, <3>2 DEF StillLegal, EndAgreed, Updating, Announcing
  <2>3. QED
    BY <2>1, <2>2
<1>3. QED
  BY <1>1, <1>2, InOrderWebhook, InOrderStream, InOrderReport, InOrderQuiet,
     StepKinds DEF LifeInv

-----------------------------------------------------------------------------
(* The invariant, and what it implies. *)

LEMMA LifeInit == Init => LifeInv
<1> SUFFICES ASSUME Init PROVE LifeInv
  OBVIOUS
<1> USE DEF Init, PlacementInit, FlowInit, CallbackInit, CleanupInit
<1>1. RequestInv
  BY InitIInv DEF IInv
<1>2. LifeTypeOK
  BY DEF LifeTypeOK, TwilioStatuses, HandlerStates, StreamPCs, PostPCs,
         Statuses, Preparation, Resting
<1>3. \A h \in Handlers, c \in Calls : ~Updating(h, c) /\ ~Announcing(h, c)
  BY DEF Updating, Announcing, Idle
<1>4. FollowsDial
  BY <1>3 DEF FollowsDial, NoRow
<1>5. EndsDated
  BY <1>3 DEF EndsDated, TimestampsFollowStatus, NoRow, Terminal
<1>6. Counted
  BY CallbackAssumption DEF Counted
<1>7. ClearsDeleted
  BY DEF ClearsDeleted, Resting
<1>8. RowBeforeDial /\ Recorded
  BY DEF RowBeforeDial, Recorded
<1>9. InOrder
  BY <1>3 DEF InOrder, Alone, StillLegal, EndAgreed, StreamWrites, RequestWrites
<1>10. QED
  BY <1>1, <1>2, <1>4, <1>5, <1>6, <1>7, <1>8, <1>9 DEF LifeInv

LEMMA LifeInductive == Spec => []LifeInv
<1>1. LifeInv /\ [Next]_vars => LifeInv'
  BY RequestInvKept, LifeTypeStep, FollowsDialStep, EndsDatedStep, CountedStep,
     ClearsDeletedStep, RecordedStep, RowBeforeDialStep, InOrderStep DEF LifeInv
<1>2. QED
  BY LifeInit, <1>1, PTL DEF Spec

\* In company, too, at most one phone rings for an Idempotency-Key.
THEOREM OneDialInLife == Spec => []OneDialPerKey
<1>1. LifeInv => OneDialPerKey
  BY InvOneDial DEF LifeInv
<1>2. QED
  BY LifeInductive, <1>1, PTL

\* In company, too, all callers of a key are told of the same call.
THEOREM AgreementInLife == Spec => []AnswersAgree
<1>1. LifeInv => AnswersAgree
  BY InvAgreement DEF LifeInv
<1>2. QED
  BY LifeInductive, <1>1, PTL

\* An ended call has its completion time and an answered one its answer time,
\* whatever the interleaving of those who write the row.
THEOREM TimesFollow == Spec => []TimestampsFollowStatus
<1>1. LifeInv => TimestampsFollowStatus
  BY DEF LifeInv, EndsDated
<1>2. QED
  BY LifeInductive, <1>1, PTL

\* SuperFlow is told the status that the row keeps, unless updates overlapped.
THEOREM ReportMatches == Spec => []ReportMatchesRow
<1>1. LifeInv => ReportMatchesRow
  BY DEF LifeInv, InOrder, EndAgreed, ReportMatchesRow
<1>2. QED
  BY LifeInductive, <1>1, PTL

\* Only an answer that was lost makes SuperFlow process a second POST.
THEOREM RepeatsExplained == Spec => []RepeatOnlyAfterLostAnswer
<1>1. LifeInv => RepeatOnlyAfterLostAnswer
  <2> SUFFICES ASSUME LifeInv, NEW c \in Calls
               PROVE  /\ delivered[c] > 1 => c \in answerLost
                      /\ delivered[c] <= MaxAttempts
    BY DEF RepeatOnlyAfterLostAnswer
  <2>1. delivered[c] \in Nat /\ attempt[c] \in Nat /\ MaxAttempts \in Nat
    BY CallbackAssumption DEF LifeInv, LifeTypeOK
  <2>2. QED
    BY <2>1 DEF LifeInv, Counted
<1>2. QED
  BY LifeInductive, <1>1, PTL

\* However many sweeps and tasks write the row, whatever fails and whenever the
\* process dies: the clone a prospect was called with is on record until it has
\* been deleted, and an id is cleared only after its clone is gone.
THEOREM ClonesOnRecord == Spec => []ForgottenOnlyWhenGone
<1>1. LifeInv => ForgottenOnlyWhenGone
  <2> SUFFICES ASSUME LifeInv PROVE ForgottenOnlyWhenGone
    OBVIOUS
  <2>1. dialled \subseteq Calls
    BY DEF LifeInv, RequestInv, TypeOK
  <2> QED
    BY <2>1 DEF LifeInv, ClearsDeleted, Recorded, ForgottenOnlyWhenGone
<1>2. QED
  BY LifeInductive, <1>1, PTL

-----------------------------------------------------------------------------
(* Every move of a status is one that the table of transitions allows. *)

LEMMA StatusStep ==
    ASSUME LifeInv, [Next]_vars, NEW c \in Calls \ overlapped',
           Exists(c), calls'[c].status # calls[c].status
    PROVE  /\ calls[c].status \notin Terminal
           /\ CanTransition(calls[c].status, calls'[c].status)
<1>1. /\ StillLegal(c) /\ TypeOK /\ LifeTypeOK /\ RowBeforeDial
      /\ calls[c].status \in Statuses
  BY Overlaps DEF LifeInv, InOrder, RequestInv, TypeOK, Row, Exists
<1> SUFFICES Legal(calls[c].status, calls'[c].status)
  BY DEF Legal, CanTransition
<1>2. ASSUME NEW r \in Calls, Requests(r)
      PROVE  Legal(calls[c].status, calls'[c].status)
  <2>1. c = r /\ calls'[r] = Written(r)
    BY <1>1, <1>2, RequestRow
  <2>2. pc[r] # "insert"
    BY <2>1 DEF LifeInv, RequestInv, RowsFollowPC, BeforeRow
  <2>3. pc[r] \in {"prepare", "record", "queue", "failing"}
    BY <2>1, <2>2 DEF Written
  <2>4. CASE pc[r] = "prepare"
    BY <1>1, <2>1, <2>4, WrittenKeeps
       DEF RowBeforeDial, Legal, Transitions, Terminal
  <2>5. CASE pc[r] = "record"
    BY <1>1, <2>1, <2>5, WrittenKeeps
       DEF RowBeforeDial, Legal, Transitions, Terminal
  <2>6. CASE pc[r] = "queue"
    BY <1>1, <2>1, <2>6, WrittenKeeps
       DEF StillLegal, Legal, Transitions, Terminal
  <2>7. CASE pc[r] = "failing"
    <3>1. calls[r].status \in Preparation \cup {"queued"}
      BY <1>1, <2>1, <2>7 DEF StillLegal, RowBeforeDial, Preparation
    <3>2. calls'[r].status = "failed"
      BY <1>1, <2>1, <2>7, WrittenKeeps
    <3>3. QED
      BY <1>1, <2>1, <3>1, <3>2 DEF Legal, Transitions, Terminal, Preparation
  <2>8. QED
    BY <2>3, <2>4, <2>5, <2>6, <2>7
<1>3. ASSUME NEW h \in Handlers, InFlow(UpdateFromWebhook(h))
      PROVE  Legal(calls[c].status, calls'[c].status)
  BY <1>1, <1>3, WebhookRow DEF InFlow, StillLegal, Updating
<1>4. ASSUME NEW d \in Calls, InFlow(StreamUpdate(d))
      PROVE  Legal(calls[c].status, calls'[c].status)
  BY <1>1, <1>4, StreamRow DEF InFlow, StillLegal
<1>5. ASSUME NEW d \in Calls, InCallback(CallbackStep(d) \/ CallbackFault(d))
      PROVE  FALSE
  BY <1>1, <1>5, ClaimRows DEF InCallback, SameEnd
<1>6. ~Quiet
  BY <1>1, QuietRows DEF SameEnd
<1>7. QED
  BY <1>1, <1>2, <1>3, <1>4, <1>5, <1>6, StepKinds DEF LifeInv

\* A status only moves along the table of transitions, and a terminal one not
\* at all, as long as no two updates of the call overlap.
THEOREM LegalMoves == Spec => LegalUnlessOverlapped
<1>1. LifeInv /\ [Next]_vars =>
          [\A c \in Calls :
              LET from == calls[c].status
                  to   == calls'[c].status
              IN  Exists(c) /\ to # from /\ c \notin overlapped' =>
                      from \notin Terminal /\ CanTransition(from, to)]_vars
  BY StatusStep
<1>2. QED
  BY LifeInductive, <1>1, PTL DEF Spec, LegalUnlessOverlapped

-----------------------------------------------------------------------------
(* The report: open, then ended, then claimed once. *)

\* The end and the claim of no other call than c change.  Those of c do not go
\* back, and the claim comes when the end is there.
Moves(c) ==
    /\ \A d \in Calls \ {c} :
           calls'[d].completed_at = calls[d].completed_at /\ SameClaim(d)
    /\ \/ SameClaim(c) /\ (calls[c].completed_at => calls'[c].completed_at)
       \/ /\ calls[c].completed_at
          /\ calls'[c].completed_at = calls[c].completed_at
          /\ calls'[c].post_call_callback_sent_at

NothingMoves ==
    \A d \in Calls :
        calls'[d].completed_at = calls[d].completed_at /\ SameClaim(d)

LEMMA OneMoves ==
    ASSUME LifeInv, [Next]_vars
    PROVE  NothingMoves \/ \E c \in Calls : Moves(c)
<1>1. TypeOK /\ LifeTypeOK /\ EndsDated
  BY DEF LifeInv, RequestInv
<1>2. ASSUME NEW r \in Calls, Requests(r) PROVE Moves(r)
  <2>1. \A d \in Calls \ {r} : calls'[d] = calls[d]
    BY <1>1, <1>2, RequestRow
  <2>2. CASE calls'[r] = calls[r]
    BY <2>1, <2>2 DEF Moves, SameClaim
  <2>3. CASE pc[r] = "insert" /\ calls'[r] # calls[r]
    <3>1. ~calls[r].completed_at /\ ~calls[r].post_call_callback_sent_at
      BY <2>3 DEF LifeInv, FollowsDial, RequestInv, RowsFollowPC, BeforeRow
    <3>2. calls'[r].post_call_callback_sent_at = FALSE
      BY <1>1, <1>2, <2>3, RequestRow
    <3>3. calls[r].post_call_callback_sent_at \in BOOLEAN
      BY <1>1 DEF TypeOK, Row
    <3>4. QED
      BY <2>1, <3>1, <3>2, <3>3 DEF Moves, SameClaim
  <2>4. CASE pc[r] # "insert" /\ calls'[r] # calls[r]
    <3>1. calls'[r] = Written(r)
      BY <1>1, <1>2, <2>4, RequestRow
    <3>2. SameClaim(r) /\ (calls[r].completed_at => calls'[r].completed_at)
      BY <1>1, <2>4, <3>1, WrittenKeeps DEF SameClaim
    <3>3. QED
      BY <2>1, <3>2 DEF Moves, SameClaim
  <2>5. QED
    BY <2>2, <2>3, <2>4
<1>3. ASSUME NEW h \in Handlers, InFlow(UpdateFromWebhook(h))
      PROVE  \E c \in Calls : Moves(c)
  BY <1>1, <1>3, WebhookRow DEF InFlow, Moves, SameClaim
<1>4. ASSUME NEW d \in Calls, InFlow(StreamUpdate(d)) PROVE Moves(d)
  BY <1>1, <1>4, StreamRow DEF InFlow, Moves, SameClaim
<1>5. ASSUME NEW d \in Calls, InCallback(CallbackStep(d) \/ CallbackFault(d))
      PROVE  Moves(d)
  <2>1. taken[d] < Len(onTerminal[d]) => calls[d].completed_at
    <3>1. taken[d] < Len(onTerminal[d]) => onTerminal[d] # << >>
      BY <1>1 DEF LifeTypeOK
    <3>2. QED
      BY <1>1, <3>1 DEF EndsDated
  <2>2. /\ \A e \in Calls : SameEnd(e)
        /\ \A e \in Calls \ {d} : SameClaim(e)
        /\ \/ SameClaim(d)
           \/ /\ taken[d] < Len(onTerminal[d])
              /\ calls'[d].post_call_callback_sent_at
    BY <1>1, <1>5, ClaimRows DEF InCallback
  <2>3. QED
    BY <2>1, <2>2 DEF Moves, SameEnd
<1>6. CASE Quiet
  BY <1>1, <1>6, QuietRows DEF NothingMoves, SameEnd
<1>7. QED
  BY <1>2, <1>3, <1>4, <1>5, <1>6, StepKinds DEF LifeInv

LEMMA Phases ==
    ASSUME NEW c
    PROVE  PhaseOf(c) = IF calls[c].post_call_callback_sent_at THEN "claimed"
                        ELSE IF calls[c].completed_at THEN "ended" ELSE "open"
  BY DEF PhaseOf

LEMMA LaterPhases ==
    ASSUME NEW c
    PROVE  PhaseOf(c)' = IF calls'[c].post_call_callback_sent_at THEN "claimed"
                         ELSE IF calls'[c].completed_at THEN "ended" ELSE "open"
  BY DEF PhaseOf

LEMMA ReportInit == Init => Report!Init
<1> SUFFICES ASSUME Init, NEW c \in Calls PROVE PhaseOf(c) = "open"
  BY DEF Report!Init
<1>1. ~calls[c].post_call_callback_sent_at /\ ~calls[c].completed_at
  BY DEF Init, PlacementInit, NoRow
<1>2. QED
  BY <1>1, Phases

LEMMA ReportStep ==
    ASSUME LifeInv, [Next]_vars
    PROVE  [Report!Next]_([c \in Calls |-> PhaseOf(c)])
<1> DEFINE phase == [c \in Calls |-> PhaseOf(c)]
<1>1. CASE NothingMoves
  <2>1. \A d \in Calls : PhaseOf(d)' = PhaseOf(d)
    BY <1>1, Phases, LaterPhases DEF NothingMoves, SameClaim
  <2>2. QED
    BY <2>1
<1>2. ASSUME NEW c \in Calls, Moves(c) PROVE [Report!Next]_phase
  <2>1. \A d \in Calls \ {c} : PhaseOf(d)' = PhaseOf(d)
    BY <1>2, Phases, LaterPhases DEF Moves, SameClaim
  <2>2. phase' = [phase EXCEPT ![c] = PhaseOf(c)']
    BY <2>1
  <2>3. \/ PhaseOf(c)' = PhaseOf(c)
        \/ PhaseOf(c) = "open" /\ PhaseOf(c)' = "ended"
        \/ PhaseOf(c) = "ended" /\ PhaseOf(c)' = "claimed"
    BY <1>2, Phases, LaterPhases DEF Moves, SameClaim
  <2>4. CASE PhaseOf(c)' = PhaseOf(c)
    BY <2>1, <2>4
  <2>5. CASE PhaseOf(c) = "open" /\ PhaseOf(c)' = "ended"
    <3>1. Report!End(c)
      BY <2>2, <2>5 DEF Report!End
    <3>2. QED
      BY <3>1 DEF Report!Next
  <2>6. CASE PhaseOf(c) = "ended" /\ PhaseOf(c)' = "claimed"
    <3>1. Report!ClaimReport(c)
      BY <2>2, <2>6 DEF Report!ClaimReport
    <3>2. QED
      BY <3>1 DEF Report!Next
  <2>7. QED
    BY <2>3, <2>4, <2>5, <2>6
<1>3. QED
  BY <1>1, <1>2, OneMoves

\* Every call is open, then ended, then claimed once, under every
\* interleaving, fault and crash.
THEOREM ReportRefinement == Spec => ImplementsCallReport
<1>1. LifeInv /\ [Next]_vars => [Report!Next]_([c \in Calls |-> PhaseOf(c)])
  BY ReportStep
<1>2. QED
  BY LifeInductive, ReportInit, <1>1, PTL
     DEF Spec, ImplementsCallReport, Report!Spec

-----------------------------------------------------------------------------
(* The promise of the Idempotency-Key, in company. *)

LEMMA DialStepInLife ==
    ASSUME LifeInv, [Next]_vars
    PROVE  [Dialling!Next]_(Dialling!dialVars)
<1>1. RequestInv /\ TypeOK
  BY DEF LifeInv, RequestInv
<1>2. ASSUME SameRows, UNCHANGED <<dialled, reply>>
      PROVE  UNCHANGED Dialling!dialVars
  <2>1. [k \in Keys |-> Owner(k)]' = [k \in Keys |-> Owner(k)]
    BY <1>2, SameOwners
  <2>2. QED
    BY <1>2, <2>1 DEF Dialling!dialVars
<1>3. ASSUME NEW c \in Calls,
             InPlacement(Receive(c) \/ Advance(c) \/ DatabaseFault(c))
      PROVE  [Dialling!Next]_(Dialling!dialVars)
  BY <1>1, <1>3, DiallingStep DEF InPlacement, PlacementNext
<1>4. ASSUME UNCHANGED calls \/ \E c \in Calls : RowStep(c),
             UNCHANGED <<requestVars, dialled>>
      PROVE  UNCHANGED Dialling!dialVars
  BY <1>1, <1>2, <1>4, RowStepFrame DEF requestVars
<1>5. ASSUME NEW c \in Calls,
             InFlow(CarrierStep(c) \/ StreamStarts(c) \/ StreamStep(c)
                      \/ StreamFault(c))
      PROVE  UNCHANGED Dialling!dialVars
  BY <1>1, <1>4, <1>5, FlowRows DEF InFlow, LifeInv
<1>6. ASSUME NEW h \in Handlers,
             InFlow(ReceiveWebhook(h) \/ HandlerStep(h) \/ HandlerFault(h))
      PROVE  UNCHANGED Dialling!dialVars
  BY <1>1, <1>4, <1>6, FlowRows DEF InFlow, LifeInv
<1>7. ASSUME NEW c \in Calls, InCallback(CallbackStep(c) \/ CallbackFault(c))
      PROVE  UNCHANGED Dialling!dialVars
  BY <1>1, <1>4, <1>7, ReportRows DEF InCallback
<1>8. ASSUME NEW w \in Sweepers, InCleanup(SweepStep(w) \/ ClearFault(w))
      PROVE  UNCHANGED Dialling!dialVars
  BY <1>1, <1>4, <1>8, CleanupRows DEF InCleanup, LifeInv
<1>9. CASE Crash \/ UNCHANGED vars
  BY <1>1, <1>2, <1>9 DEF Crash, vars, placementVars, SameRows, Exists
<1>10. QED
  BY <1>3, <1>5, <1>6, <1>7, <1>8, <1>9 DEF Next

\* No webhook, stream, callback or clean-up breaks the promise of the
\* Idempotency-Key.
THEOREM DialRefinementInLife == Spec => ImplementsIdempotentDial
<1>1. LifeInv /\ [Next]_vars => [Dialling!Next]_(Dialling!dialVars)
  BY DialStepInLife
<1>2. Init => Dialling!Init
  BY DiallingInit DEF Init
<1>3. QED
  BY LifeInductive, <1>1, <1>2, PTL
     DEF Spec, ImplementsIdempotentDial, Dialling!Spec
=============================================================================
