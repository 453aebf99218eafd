----------------------------- MODULE MediaProofs -----------------------------
(***************************************************************************)
(* Proofs about MediaSession, for any tracks and any set of awaits that    *)
(* may be rejected.                                                        *)
(*                                                                         *)
(* ReleasedUnlessOvertaken speaks of a conversation that has come to rest; *)
(* the invariant below says what must hold on the way there.  Set-up and   *)
(* tear-down only share closedAt, where the set-up was when the tear-down  *)
(* began: what existed then is closed by the tear-down (BridgeHeld,        *)
(* VoiceHeld, RoomHeld), what did not comes from a later step of the       *)
(* set-up (SetupMovesOn, MadeInOrder).                                     *)
(***************************************************************************)
EXTENDS MediaSession, TLAPS

-----------------------------------------------------------------------------
(* The inductive invariant. *)

\* Where the set-up is before it has something.
NoBridgeYet  == {"none", "lookup", "sids", "status"}
NoSessionYet == NoBridgeYet \cup {"session"}
NoRoomYet    == NoSessionYet \cup {"record"}
NoSourceYet  == NoRoomYet \cup {"connect"}

\* The set-up only moves on, and after the tear-down began it is no earlier
\* than where it was then.
SetupMovesOn ==
    /\ closedAt = "open" <=> teardown = "open"
    /\ setup = "stopped" => teardown # "open"
    /\ closedAt = "none" => setup \in {"none", "stopped"}
    /\ closedAt = "sids" => setup \notin {"none", "lookup"}
    /\ closedAt = "status" => setup \notin {"none", "lookup", "sids"}
    /\ closedAt = "session" => setup \notin NoBridgeYet
    /\ closedAt = "record" => setup \notin NoSessionYet
    /\ closedAt = "connect" => setup \notin NoRoomYet
    /\ closedAt = "publish" => setup \notin NoSourceYet
    /\ closedAt = "done" => setup = "done"
    /\ closedAt # "stopped"

\* Nothing exists before the step that makes it.
MadeInOrder ==
    /\ setup \in NoBridgeYet => bridge = "none" /\ voice = "none"
    /\ setup \in NoSessionYet => ~sessionId
    /\ setup \in NoRoomYet => conn = "none"
    /\ setup \in NoSourceYet => source = "none"
    /\ conn = "none" => source = "none" /\ leaving = "in"
    /\ setup = "connect" <=> conn = "connecting"
    /\ conn = "connecting" => source = "none"
    /\ conn = "joined" => source # "none"
    /\ setup \in {"publish", "done"} => conn \in {"joined", "left"}

\* What is open is either going to be closed or was not there when the
\* tear-down went by.
BridgeHeld ==
    bridge = "open" => teardown = "open" \/ closedAt \in NoBridgeYet

VoiceHeld ==
    voice = "open" =>
        \/ setup = "session" \/ closedAt \in NoSessionYet
        \/ sessionId /\ teardown # "closed"

RoomHeld ==
    /\ teardown = "agent" => leaving = "closing"
    /\ leaving = "out" => teardown = "closed"
    /\ teardown = "closed" /\ leaving = "in" => closedAt \in NoRoomYet
    /\ leaving = "out" /\ (conn = "joined" \/ source = "open")
           => closedAt \in NoSourceYet
    /\ closedAt = "none" => conn = "none" /\ bridge = "none" /\ voice = "none"

\* The bridge is told of the agent by a room that has a source.
ReadyHeld ==
    /\ ready => source # "none"
    /\ source = "closed" => leaving = "out"

\* Which track is bridged, and what kind it is.
SpeechHeld ==
    leaving = "in" =>
        /\ onMic <=> streamed \in MicTracks
        /\ (\E t \in MicTracks : track[t] = "seen") => onMic
        /\ onMic => track[streamed] \in {"seen", "ended"}

IInv == /\ MediaTypeOK /\ SetupMovesOn /\ MadeInOrder
        /\ BridgeHeld /\ VoiceHeld /\ RoomHeld /\ ReadyHeld /\ SpeechHeld

-----------------------------------------------------------------------------
(* One lemma for every action: it keeps the invariant, part by part. *)

\* Closing keeps the types of what it touches, whoever asks for it.
LEMMA CloseTypes ==
    ASSUME MediaTypeOK, Close
    PROVE  /\ teardown' \in {"open", "agent", "closed"}
           /\ leaving' \in {"in", "closing", "out"}
           /\ bridge' \in {"none", "open", "closed"}
           /\ voice' \in {"none", "open", "ended", "unended"}
           /\ sessionId' \in BOOLEAN
           /\ closedAt' \in {"open"} \cup Pending \cup Settled
<1>1. CASE teardown # "open"
  BY <1>1 DEF Close, MediaTypeOK
<1>2. CASE teardown = "open" /\ HasAgent /\ leaving = "in"
  BY <1>2 DEF Close, MediaTypeOK
<1>3. CASE teardown = "open" /\ ~(HasAgent /\ leaving = "in")
  BY <1>3 DEF Close, Release, MediaTypeOK
<1> QED BY <1>1, <1>2, <1>3

LEMMA StartFrameStep ==
    ASSUME IInv, StartFrame
    PROVE  IInv'
<1>1. MediaTypeOK'
  BY DEF IInv, MediaTypeOK, Pending, Settled, StartFrame, Proceed, Stop,
         Resume, Close, Release, HasAgent, otherVars, trackVars, retryVars
<1>2. SetupMovesOn'
  BY DEF IInv, SetupMovesOn, NoBridgeYet, NoSessionYet, NoRoomYet,
         NoSourceYet, StartFrame, Proceed, Stop, Resume, Close, Release,
         HasAgent, otherVars, trackVars, retryVars
<1>3. MadeInOrder'
  BY DEF IInv, MadeInOrder, NoBridgeYet, NoSessionYet, NoRoomYet,
         NoSourceYet, StartFrame, Proceed, Stop, Resume, Close, Release,
         HasAgent, otherVars, trackVars, retryVars
<1>4. BridgeHeld'
  BY DEF IInv, BridgeHeld, NoBridgeYet, StartFrame, Proceed, Stop, Resume,
         Close, Release, HasAgent, otherVars, trackVars, retryVars
<1>5. VoiceHeld'
  BY DEF IInv, VoiceHeld, NoBridgeYet, NoSessionYet, StartFrame, Proceed,
         Stop, Resume, Close, Release, HasAgent, otherVars, trackVars, retryVars
<1>6. RoomHeld'
  BY DEF IInv, RoomHeld, NoBridgeYet, NoSessionYet, NoRoomYet, NoSourceYet,
         MadeInOrder, StartFrame, Proceed, Stop, Resume, Close, Release,
         HasAgent, otherVars, trackVars, retryVars
<1>7. ReadyHeld'
  BY DEF IInv, ReadyHeld, StartFrame, Proceed, Stop, Resume, Close, Release,
         HasAgent, otherVars, trackVars, retryVars
<1>8. SpeechHeld'
  BY DEF IInv, SpeechHeld, StartFrame, Proceed, Stop, Resume, Close,
         Release, HasAgent, otherVars, trackVars, retryVars
<1> QED BY <1>1, <1>2, <1>3, <1>4, <1>5, <1>6, <1>7, <1>8 DEF IInv

LEMMA LookUpCallStep ==
    ASSUME IInv, LookUpCall
    PROVE  IInv'
<1>1. MediaTypeOK'
  BY DEF IInv, MediaTypeOK, Pending, Settled, SetupMovesOn, NoBridgeYet,
         NoSessionYet, NoRoomYet, NoSourceYet, LookUpCall, Proceed, Stop,
         Resume, Close, Release, HasAgent, otherVars, trackVars, retryVars
<1>2. SetupMovesOn'
  BY DEF IInv, SetupMovesOn, NoBridgeYet, NoSessionYet, NoRoomYet,
         NoSourceYet, LookUpCall, Proceed, Stop, Resume, Close, Release,
         HasAgent, otherVars, trackVars, retryVars
<1>3. MadeInOrder'
  BY DEF IInv, MadeInOrder, NoBridgeYet, NoSessionYet, NoRoomYet,
         NoSourceYet, LookUpCall, Proceed, Stop, Resume, Close, Release,
         HasAgent, otherVars, trackVars, retryVars
<1>4. BridgeHeld'
  BY DEF IInv, BridgeHeld, NoBridgeYet, LookUpCall, Proceed, Stop, Resume,
         Close, Release, HasAgent, otherVars, trackVars, retryVars
<1>5. VoiceHeld'
  BY DEF IInv, VoiceHeld, NoBridgeYet, NoSessionYet, LookUpCall, Proceed,
         Stop, Resume, Close, Release, HasAgent, otherVars, trackVars, retryVars
<1>6. RoomHeld'
  BY DEF IInv, RoomHeld, NoBridgeYet, NoSessionYet, NoRoomYet, NoSourceYet,
         LookUpCall, Proceed, Stop, Resume, Close, Release, HasAgent,
         otherVars, trackVars, retryVars
<1>7. ReadyHeld'
  BY DEF IInv, ReadyHeld, LookUpCall, Proceed, Stop, Resume, Close, Release,
         HasAgent, otherVars, trackVars, retryVars
<1>8. SpeechHeld'
  BY DEF IInv, SpeechHeld, LookUpCall, Proceed, Stop, Resume, Close,
         Release, HasAgent, otherVars, trackVars, retryVars
<1> QED BY <1>1, <1>2, <1>3, <1>4, <1>5, <1>6, <1>7, <1>8 DEF IInv

LEMMA StoreSidsStep ==
    ASSUME IInv, StoreSids
    PROVE  IInv'
<1>1. MediaTypeOK'
  BY DEF IInv, MediaTypeOK, Pending, Settled, StoreSids, Proceed, Resume,
         otherVars, trackVars, retryVars
<1>2. SetupMovesOn'
  BY DEF IInv, SetupMovesOn, NoBridgeYet, NoSessionYet, NoRoomYet, NoSourceYet,
         StoreSids, Proceed, Resume, otherVars, trackVars, retryVars
<1>3. MadeInOrder'
  BY DEF IInv, MadeInOrder, NoBridgeYet, NoSessionYet, NoRoomYet, NoSourceYet,
         StoreSids, Proceed, Resume, otherVars, trackVars, retryVars
<1>4. BridgeHeld'
  BY DEF IInv, BridgeHeld, NoBridgeYet, StoreSids, Proceed, Resume, otherVars,
         trackVars, retryVars
<1>5. VoiceHeld'
  BY DEF IInv, VoiceHeld, NoBridgeYet, NoSessionYet, StoreSids, Proceed,
         Resume, otherVars, trackVars, retryVars
<1>6. RoomHeld'
  BY DEF IInv, RoomHeld, NoBridgeYet, NoSessionYet, NoRoomYet, NoSourceYet,
         StoreSids, Proceed, Resume, otherVars, trackVars, retryVars
<1>7. ReadyHeld'
  BY DEF IInv, ReadyHeld, StoreSids, Proceed, Resume, otherVars, trackVars,
         retryVars
<1>8. SpeechHeld'
  BY DEF IInv, SpeechHeld, StoreSids, Proceed, Resume, otherVars, trackVars,
         retryVars
<1> QED BY <1>1, <1>2, <1>3, <1>4, <1>5, <1>6, <1>7, <1>8 DEF IInv

LEMMA MakeBridgeStep ==
    ASSUME IInv, MakeBridge
    PROVE  IInv'
<1>1. MediaTypeOK'
  BY DEF IInv, MediaTypeOK, Pending, Settled, MadeInOrder, NoBridgeYet,
         NoSessionYet, NoRoomYet, NoSourceYet, MakeBridge, Stop, Resume, Close,
         Release, HasAgent, otherVars, trackVars, retryVars
<1>2. SetupMovesOn'
  BY DEF IInv, SetupMovesOn, NoBridgeYet, NoSessionYet, NoRoomYet, NoSourceYet,
         MakeBridge, Stop, Resume, Close, Release, HasAgent, otherVars,
         trackVars, retryVars
<1>3. MadeInOrder'
  BY DEF IInv, MadeInOrder, NoBridgeYet, NoSessionYet, NoRoomYet, NoSourceYet,
         MakeBridge, Stop, Resume, Close, Release, HasAgent, otherVars,
         trackVars, retryVars
<1>4. BridgeHeld'
  BY DEF IInv, BridgeHeld, NoBridgeYet, MediaTypeOK, Pending, Settled,
         MadeInOrder, NoSessionYet, NoRoomYet, NoSourceYet, SetupMovesOn,
         MakeBridge, Stop, Resume, Close, Release, HasAgent, otherVars,
         trackVars, retryVars
<1>5. VoiceHeld'
  BY DEF IInv, VoiceHeld, NoBridgeYet, NoSessionYet, MakeBridge, Stop,
         Resume, Close, Release, HasAgent, otherVars, trackVars, retryVars
<1>6. RoomHeld'
  BY DEF IInv, RoomHeld, NoBridgeYet, NoSessionYet, NoRoomYet, NoSourceYet,
         SetupMovesOn, MakeBridge, Stop, Resume, Close, Release, HasAgent,
         otherVars, trackVars, retryVars
<1>7. ReadyHeld'
  BY DEF IInv, ReadyHeld, MakeBridge, Stop, Resume, Close, Release,
         HasAgent, otherVars, trackVars, retryVars
<1>8. SpeechHeld'
  BY DEF IInv, SpeechHeld, MakeBridge, Stop, Resume, Close, Release,
         HasAgent, otherVars, trackVars, retryVars
<1> QED BY <1>1, <1>2, <1>3, <1>4, <1>5, <1>6, <1>7, <1>8 DEF IInv

LEMMA LyzrStartsSessionStep ==
    ASSUME IInv, LyzrStartsSession
    PROVE  IInv'
<1>1. MediaTypeOK'
  BY DEF IInv, MediaTypeOK, Pending, Settled, LyzrStartsSession, otherVars,
         trackVars, retryVars
<1>2. SetupMovesOn'
  BY DEF IInv, SetupMovesOn, NoBridgeYet, NoSessionYet, NoRoomYet,
         NoSourceYet, LyzrStartsSession, otherVars, trackVars, retryVars
<1>3. MadeInOrder'
  BY DEF IInv, MadeInOrder, NoBridgeYet, NoSessionYet, NoRoomYet,
         NoSourceYet, LyzrStartsSession, otherVars, trackVars, retryVars
<1>4. BridgeHeld'
  BY DEF IInv, BridgeHeld, NoBridgeYet, LyzrStartsSession, otherVars,
         trackVars, retryVars
<1>5. VoiceHeld'
  BY DEF IInv, VoiceHeld, NoBridgeYet, NoSessionYet, LyzrStartsSession,
         otherVars, trackVars, retryVars
<1>6. RoomHeld'
  BY DEF IInv, RoomHeld, NoBridgeYet, NoSessionYet, NoRoomYet, NoSourceYet,
         SetupMovesOn, LyzrStartsSession, otherVars, trackVars, retryVars
<1>7. ReadyHeld'
  BY DEF IInv, ReadyHeld, LyzrStartsSession, otherVars, trackVars, retryVars
<1>8. SpeechHeld'
  BY DEF IInv, SpeechHeld, LyzrStartsSession, otherVars, trackVars, retryVars
<1> QED BY <1>1, <1>2, <1>3, <1>4, <1>5, <1>6, <1>7, <1>8 DEF IInv

LEMMA RepeatSessionStep ==
    ASSUME IInv, RepeatSession
    PROVE  IInv'
<1>1. MediaTypeOK'
  BY MediaAssumption
     DEF IInv, MediaTypeOK, Pending, Settled, RepeatSession, trackVars
<1>2. SetupMovesOn'
  BY DEF IInv, SetupMovesOn, NoBridgeYet, NoSessionYet, NoRoomYet,
         NoSourceYet, RepeatSession, trackVars
<1>3. MadeInOrder'
  BY DEF IInv, MadeInOrder, NoBridgeYet, NoSessionYet, NoRoomYet,
         NoSourceYet, RepeatSession, trackVars
<1>4. BridgeHeld'
  BY DEF IInv, BridgeHeld, NoBridgeYet, RepeatSession, trackVars
<1>5. VoiceHeld'
  BY DEF IInv, VoiceHeld, NoBridgeYet, NoSessionYet, RepeatSession,
         trackVars
<1>6. RoomHeld'
  BY DEF IInv, RoomHeld, NoBridgeYet, NoSessionYet, NoRoomYet, NoSourceYet,
         SetupMovesOn, RepeatSession, trackVars
<1>7. ReadyHeld'
  BY DEF IInv, ReadyHeld, RepeatSession, trackVars
<1>8. SpeechHeld'
  BY DEF IInv, SpeechHeld, RepeatSession, trackVars
<1> QED BY <1>1, <1>2, <1>3, <1>4, <1>5, <1>6, <1>7, <1>8 DEF IInv

LEMMA StartVoiceSessionStep ==
    ASSUME IInv, StartVoiceSession
    PROVE  IInv'
<1>1. MediaTypeOK'
  BY DEF IInv, MediaTypeOK, Pending, Settled, StartVoiceSession, Resume,
         otherVars, trackVars, retryVars
<1>2. SetupMovesOn'
  BY DEF IInv, SetupMovesOn, NoBridgeYet, NoSessionYet, NoRoomYet,
         NoSourceYet, StartVoiceSession, Resume, otherVars, trackVars, retryVars
<1>3. MadeInOrder'
  BY DEF IInv, MadeInOrder, NoBridgeYet, NoSessionYet, NoRoomYet,
         NoSourceYet, StartVoiceSession, Resume, otherVars, trackVars, retryVars
<1>4. BridgeHeld'
  BY DEF IInv, BridgeHeld, NoBridgeYet, StartVoiceSession, Resume, otherVars,
         trackVars, retryVars
<1>5. VoiceHeld'
  BY DEF IInv, VoiceHeld, NoBridgeYet, NoSessionYet, MadeInOrder, NoRoomYet,
         NoSourceYet, SetupMovesOn, RoomHeld, StartVoiceSession, Resume,
         otherVars, trackVars, retryVars
<1>6. RoomHeld'
  BY DEF IInv, RoomHeld, NoBridgeYet, NoSessionYet, NoRoomYet, NoSourceYet,
         StartVoiceSession, Resume, otherVars, trackVars, retryVars
<1>7. ReadyHeld'
  BY DEF IInv, ReadyHeld, StartVoiceSession, Resume, otherVars, trackVars,
         retryVars
<1>8. SpeechHeld'
  BY DEF IInv, SpeechHeld, StartVoiceSession, Resume, otherVars, trackVars,
         retryVars
<1> QED BY <1>1, <1>2, <1>3, <1>4, <1>5, <1>6, <1>7, <1>8 DEF IInv

LEMMA EnterRoomStep ==
    ASSUME IInv, EnterRoom
    PROVE  IInv'
<1>1. MediaTypeOK'
  BY DEF IInv, MediaTypeOK, Pending, Settled, EnterRoom, Proceed, Resume,
         otherVars, trackVars, retryVars
<1>2. SetupMovesOn'
  BY DEF IInv, SetupMovesOn, NoBridgeYet, NoSessionYet, NoRoomYet, NoSourceYet,
         EnterRoom, Proceed, Resume, otherVars, trackVars, retryVars
<1>3. MadeInOrder'
  BY DEF IInv, MadeInOrder, NoBridgeYet, NoSessionYet, NoRoomYet, NoSourceYet,
         EnterRoom, Proceed, Resume, otherVars, trackVars, retryVars
<1>4. BridgeHeld'
  BY DEF IInv, BridgeHeld, NoBridgeYet, EnterRoom, Proceed, Resume, otherVars,
         trackVars, retryVars
<1>5. VoiceHeld'
  BY DEF IInv, VoiceHeld, NoBridgeYet, NoSessionYet, EnterRoom, Proceed,
         Resume, otherVars, trackVars, retryVars
<1>6. RoomHeld'
  BY DEF IInv, RoomHeld, NoBridgeYet, NoSessionYet, NoRoomYet, NoSourceYet,
         SetupMovesOn, EnterRoom, Proceed, Resume, otherVars, trackVars,
         retryVars
<1>7. ReadyHeld'
  BY DEF IInv, ReadyHeld, EnterRoom, Proceed, Resume, otherVars, trackVars,
         retryVars
<1>8. SpeechHeld'
  BY DEF IInv, SpeechHeld, EnterRoom, Proceed, Resume, otherVars, trackVars,
         retryVars
<1> QED BY <1>1, <1>2, <1>3, <1>4, <1>5, <1>6, <1>7, <1>8 DEF IInv

LEMMA JoinRoomStep ==
    ASSUME IInv, JoinRoom
    PROVE  IInv'
<1>1. MediaTypeOK'
  BY DEF IInv, MediaTypeOK, Pending, Settled, JoinRoom, Proceed, Resume,
         otherVars, trackVars, retryVars
<1>2. SetupMovesOn'
  BY DEF IInv, SetupMovesOn, NoBridgeYet, NoSessionYet, NoRoomYet,
         NoSourceYet, JoinRoom, Proceed, Resume, otherVars, trackVars, retryVars
<1>3. MadeInOrder'
  BY DEF IInv, MadeInOrder, NoBridgeYet, NoSessionYet, NoRoomYet,
         NoSourceYet, JoinRoom, Proceed, Resume, otherVars, trackVars, retryVars
<1>4. BridgeHeld'
  BY DEF IInv, BridgeHeld, NoBridgeYet, JoinRoom, Proceed, Resume, otherVars,
         trackVars, retryVars
<1>5. VoiceHeld'
  BY DEF IInv, VoiceHeld, NoBridgeYet, NoSessionYet, JoinRoom, Proceed,
         Resume, otherVars, trackVars, retryVars
<1>6. RoomHeld'
  BY DEF IInv, RoomHeld, NoBridgeYet, NoSessionYet, NoRoomYet, NoSourceYet,
         MediaTypeOK, Pending, Settled, MadeInOrder, SetupMovesOn, JoinRoom,
         Proceed, Resume, otherVars, trackVars, retryVars
<1>7. ReadyHeld'
  BY DEF IInv, ReadyHeld, JoinRoom, Proceed, Resume, otherVars, trackVars,
         retryVars
<1>8. SpeechHeld'
  BY DEF IInv, SpeechHeld, JoinRoom, Proceed, Resume, otherVars, trackVars,
         retryVars
<1> QED BY <1>1, <1>2, <1>3, <1>4, <1>5, <1>6, <1>7, <1>8 DEF IInv

LEMMA SetupRejectedStep ==
    ASSUME IInv, SetupRejected
    PROVE  IInv'
<1>1. MediaTypeOK'
  <2>1. MediaTypeOK /\ Close
    BY DEF IInv, SetupRejected, Stop, Resume
  <2> QED BY <2>1, CloseTypes
          DEF MediaTypeOK, Pending, Settled, SetupRejected, Stop, Resume,
              otherVars, trackVars, retryVars
<1>2. SetupMovesOn'
  <2>1. setup \in Pending
    BY MediaAssumption
       DEF IInv, MediaTypeOK, SetupRejected, Pending, Settled
  <2> QED BY <2>1
          DEF IInv, SetupMovesOn, NoBridgeYet, NoSessionYet, NoRoomYet,
              NoSourceYet, MadeInOrder, Pending, Settled, SetupRejected, Stop,
              Resume, Close, Release, HasAgent, otherVars, trackVars, retryVars
<1>3. MadeInOrder'
  BY DEF IInv, MadeInOrder, NoBridgeYet, NoSessionYet, NoRoomYet, NoSourceYet,
         SetupRejected, Stop, Resume, Close, Release, HasAgent, otherVars,
         trackVars, retryVars
<1>4. BridgeHeld'
  BY DEF IInv, BridgeHeld, NoBridgeYet, SetupRejected, Stop, Resume, Close,
         Release, HasAgent, otherVars, trackVars, retryVars
<1>5. VoiceHeld'
  BY DEF IInv, VoiceHeld, NoBridgeYet, NoSessionYet, MediaTypeOK, Pending,
         Settled, MadeInOrder, NoRoomYet, NoSourceYet, SetupMovesOn,
         SetupRejected, Stop, Resume, Close, Release, HasAgent, otherVars,
         trackVars, retryVars
<1>6. RoomHeld'
  BY DEF IInv, RoomHeld, NoBridgeYet, NoSessionYet, NoRoomYet, NoSourceYet,
         MediaTypeOK, Pending, Settled, MadeInOrder, SetupMovesOn,
         SetupRejected, Stop, Resume, Close, Release, HasAgent, otherVars,
         trackVars, retryVars
<1>7. ReadyHeld'
  BY DEF IInv, ReadyHeld, SetupRejected, Stop, Resume, Close, Release,
         HasAgent, otherVars, trackVars, retryVars
<1>8. SpeechHeld'
  BY DEF IInv, SpeechHeld, SetupRejected, Stop, Resume, Close, Release,
         HasAgent, otherVars, trackVars, retryVars
<1> QED BY <1>1, <1>2, <1>3, <1>4, <1>5, <1>6, <1>7, <1>8 DEF IInv

LEMMA TwilioEndsStep ==
    ASSUME IInv, TwilioEnds
    PROVE  IInv'
<1>1. MediaTypeOK'
  <2>1. MediaTypeOK /\ Close
    BY DEF IInv, TwilioEnds
  <2> QED BY <2>1, CloseTypes
          DEF MediaTypeOK, Pending, Settled, TwilioEnds, otherVars, trackVars,
              retryVars
<1>2. SetupMovesOn'
  BY DEF IInv, SetupMovesOn, NoBridgeYet, NoSessionYet, NoRoomYet,
         NoSourceYet, MediaTypeOK, Pending, Settled, TwilioEnds, Close,
         Release, HasAgent, otherVars, trackVars, retryVars
<1>3. MadeInOrder'
  BY DEF IInv, MadeInOrder, NoBridgeYet, NoSessionYet, NoRoomYet, NoSourceYet,
         TwilioEnds, Close, Release, HasAgent, otherVars, trackVars, retryVars
<1>4. BridgeHeld'
  BY DEF IInv, BridgeHeld, NoBridgeYet, TwilioEnds, Close, Release,
         HasAgent, otherVars, trackVars, retryVars
<1>5. VoiceHeld'
  BY DEF IInv, VoiceHeld, NoBridgeYet, NoSessionYet, SetupMovesOn, NoRoomYet,
         NoSourceYet, TwilioEnds, Close, Release, HasAgent, otherVars,
         trackVars, retryVars
<1>6. RoomHeld'
  BY DEF IInv, RoomHeld, NoBridgeYet, NoSessionYet, NoRoomYet, NoSourceYet,
         MediaTypeOK, Pending, Settled, MadeInOrder, SetupMovesOn, TwilioEnds,
         Close, Release, HasAgent, otherVars, trackVars, retryVars
<1>7. ReadyHeld'
  BY DEF IInv, ReadyHeld, TwilioEnds, Close, Release, HasAgent, otherVars,
         trackVars, retryVars
<1>8. SpeechHeld'
  BY DEF IInv, SpeechHeld, TwilioEnds, Close, Release, HasAgent, otherVars,
         trackVars, retryVars
<1> QED BY <1>1, <1>2, <1>3, <1>4, <1>5, <1>6, <1>7, <1>8 DEF IInv

LEMMA RoomEndsStep ==
    ASSUME IInv, RoomEnds
    PROVE  IInv'
<1>1. MediaTypeOK'
  BY DEF IInv, MediaTypeOK, Pending, Settled, RoomEnds, otherVars, trackVars,
         retryVars
<1>2. SetupMovesOn'
  BY DEF IInv, SetupMovesOn, NoBridgeYet, NoSessionYet, NoRoomYet,
         NoSourceYet, RoomEnds, otherVars, trackVars, retryVars
<1>3. MadeInOrder'
  BY DEF IInv, MadeInOrder, NoBridgeYet, NoSessionYet, NoRoomYet,
         NoSourceYet, RoomEnds, otherVars, trackVars, retryVars
<1>4. BridgeHeld'
  BY DEF IInv, BridgeHeld, NoBridgeYet, RoomEnds, otherVars, trackVars,
         retryVars
<1>5. VoiceHeld'
  BY DEF IInv, VoiceHeld, NoBridgeYet, NoSessionYet, RoomEnds, otherVars,
         trackVars, retryVars
<1>6. RoomHeld'
  BY DEF IInv, RoomHeld, NoBridgeYet, NoSessionYet, NoRoomYet, NoSourceYet,
         RoomEnds, otherVars, trackVars, retryVars
<1>7. ReadyHeld'
  BY DEF IInv, ReadyHeld, RoomEnds, otherVars, trackVars, retryVars
<1>8. SpeechHeld'
  BY DEF IInv, SpeechHeld, RoomEnds, otherVars, trackVars, retryVars
<1> QED BY <1>1, <1>2, <1>3, <1>4, <1>5, <1>6, <1>7, <1>8 DEF IInv

LEMMA FinishLeaveStep ==
    ASSUME IInv, FinishLeave
    PROVE  IInv'
<1>1. MediaTypeOK'
  BY DEF IInv, MediaTypeOK, Pending, Settled, SetupMovesOn, NoBridgeYet,
         NoSessionYet, NoRoomYet, NoSourceYet, FinishLeave, Release,
         retryVars
<1>2. SetupMovesOn'
  BY DEF IInv, SetupMovesOn, NoBridgeYet, NoSessionYet, NoRoomYet,
         NoSourceYet, MediaTypeOK, Pending, Settled, FinishLeave, Release,
         retryVars
<1>3. MadeInOrder'
  BY DEF IInv, MadeInOrder, NoBridgeYet, NoSessionYet, NoRoomYet,
         NoSourceYet, FinishLeave, Release,
         retryVars
<1>4. BridgeHeld'
  BY DEF IInv, BridgeHeld, NoBridgeYet, FinishLeave, Release,
         retryVars
<1>5. VoiceHeld'
  BY DEF IInv, VoiceHeld, NoBridgeYet, NoSessionYet, FinishLeave, Release,
         retryVars
<1>6. RoomHeld'
  BY DEF IInv, RoomHeld, NoBridgeYet, NoSessionYet, NoRoomYet, NoSourceYet,
         MadeInOrder, FinishLeave, Release,
         retryVars
<1>7. ReadyHeld'
  BY DEF IInv, ReadyHeld, FinishLeave, Release,
         retryVars
<1>8. SpeechHeld'
  BY DEF IInv, SpeechHeld, FinishLeave, Release,
         retryVars
<1> QED BY <1>1, <1>2, <1>3, <1>4, <1>5, <1>6, <1>7, <1>8 DEF IInv
-----------------------------------------------------------------------------
(* The tracks: only the two actions that show the bridge tracks are not    *)
(* like the others.                                                        *)

\* Showing the bridge tracks keeps their types; the bridge is told of the
\* agent only by a room that is not being left; and speech is given up for
\* nothing, the bridge ending up with speech if it has been shown any.
LEMMA TracksSeen ==
    ASSUME NEW S \in SUBSET Tracks, MediaTypeOK, SpeechHeld,
           OnTracksSubscribed(S), leaving' = leaving
    PROVE  /\ track' \in [Tracks -> {"none", "live", "seen", "ended"}]
           /\ streamed' \in Tracks \cup {NoTrack}
           /\ onMic' \in BOOLEAN /\ ready' \in BOOLEAN
           /\ ready' => ready \/ leaving = "in"
           /\ SpeechHeld'
<1>1. track' \in [Tracks -> {"none", "live", "seen", "ended"}]
  BY DEF OnTracksSubscribed, MediaTypeOK
<1>2. \A t \in Tracks :
          /\ track'[t] = "seen" <=> t \in S \/ track[t] = "seen"
          /\ track[t] \in {"seen", "ended"} => track'[t] \in {"seen", "ended"}
  BY DEF OnTracksSubscribed, MediaTypeOK
<1>3. MicTracks \subseteq Tracks /\ NoTrack \notin MicTracks
  BY MediaAssumption
<1>4. CASE leaving # "in"
  BY <1>1, <1>4 DEF OnTracksSubscribed, MediaTypeOK, SpeechHeld
<1>5. CASE leaving = "in" /\ Wanted(S) = {}
  <2>1. UNCHANGED <<streamed, onMic, ready>>
    BY <1>5 DEF OnTracksSubscribed
  <2>2. onMic \/ S \cap MicTracks = {}
    BY <1>5 DEF Wanted
  <2>3. SpeechHeld'
    BY <1>2, <1>3, <1>5, <2>1, <2>2 DEF SpeechHeld
  <2> QED BY <1>1, <2>1, <2>3 DEF MediaTypeOK
<1>6. CASE leaving = "in" /\ Wanted(S) # {}
  <2>1. PICK t \in Wanted(S) :
            /\ streamed' = t
            /\ onMic' = (t \in MicTracks)
            /\ ready' = (ready \/ bridge = "open")
    BY <1>6 DEF OnTracksSubscribed
  <2>2. /\ ~onMic /\ t \in S
        /\ S \cap MicTracks # {} => t \in MicTracks
    BY <1>6 DEF Wanted
  <2>3. SpeechHeld'
    BY <1>2, <1>3, <1>6, <2>1, <2>2 DEF SpeechHeld
  <2>4. onMic' \in BOOLEAN /\ ready' \in BOOLEAN
    BY <2>1 DEF MediaTypeOK
  <2> QED BY <1>1, <1>6, <2>1, <2>2, <2>3, <2>4
<1> QED BY <1>4, <1>5, <1>6

LEMMA PublishTrackStep ==
    ASSUME IInv, PublishTrack
    PROVE  IInv'
<1> DEFINE S == {t \in Tracks : track[t] \in {"live", "seen"}}
<1>1. /\ OnTracksSubscribed(S)
      /\ conn = "joined" /\ setup = "publish" /\ setup' = "done"
      /\ UNCHANGED <<teardown, leaving, bridge, voice, sessionId, closedAt,
                     conn, source, attempt, strays>>
  BY DEF PublishTrack, Proceed, Resume, retryVars
<1>2. /\ track' \in [Tracks -> {"none", "live", "seen", "ended"}]
      /\ streamed' \in Tracks \cup {NoTrack}
      /\ onMic' \in BOOLEAN /\ ready' \in BOOLEAN
      /\ ready' => ready \/ leaving = "in"
      /\ SpeechHeld'
  BY <1>1, TracksSeen, S \in SUBSET Tracks DEF IInv
<1>3. MediaTypeOK'
  BY <1>1, <1>2 DEF IInv, MediaTypeOK, Pending, Settled
<1>4. SetupMovesOn'
  BY <1>1 DEF IInv, SetupMovesOn, NoBridgeYet, NoSessionYet, NoRoomYet,
              NoSourceYet
<1>5. MadeInOrder'
  BY <1>1 DEF IInv, MadeInOrder, NoBridgeYet, NoSessionYet, NoRoomYet,
              NoSourceYet
<1>6. BridgeHeld' /\ RoomHeld'
  BY <1>1 DEF IInv, BridgeHeld, RoomHeld, NoBridgeYet, NoSessionYet,
              NoRoomYet, NoSourceYet
<1>7. VoiceHeld'
  BY <1>1 DEF IInv, VoiceHeld, NoBridgeYet, NoSessionYet
<1>8. ReadyHeld'
  BY <1>1, <1>2 DEF IInv, ReadyHeld, MadeInOrder, NoBridgeYet, NoSessionYet,
              NoRoomYet, NoSourceYet
<1> QED BY <1>2, <1>3, <1>4, <1>5, <1>6, <1>7, <1>8 DEF IInv

LEMMA TrackSubscribedStep ==
    ASSUME IInv, NEW t \in Tracks, TrackSubscribed(t)
    PROVE  IInv'
<1>1. /\ OnTracksSubscribed({t}) /\ conn = "joined"
      /\ UNCHANGED <<setup, teardown, leaving, conn, source, bridge, voice,
                     sessionId, closedAt, attempt, strays>>
  BY DEF TrackSubscribed, retryVars
<1>2. /\ track' \in [Tracks -> {"none", "live", "seen", "ended"}]
      /\ streamed' \in Tracks \cup {NoTrack}
      /\ onMic' \in BOOLEAN /\ ready' \in BOOLEAN
      /\ ready' => ready \/ leaving = "in"
      /\ SpeechHeld'
  BY <1>1, TracksSeen, {t} \in SUBSET Tracks DEF IInv
<1>3. MediaTypeOK'
  BY <1>1, <1>2 DEF IInv, MediaTypeOK
<1>4. SetupMovesOn' /\ MadeInOrder' /\ BridgeHeld' /\ VoiceHeld' /\ RoomHeld'
  BY <1>1 DEF IInv, SetupMovesOn, MadeInOrder, BridgeHeld, VoiceHeld, RoomHeld
<1>5. ReadyHeld'
  BY <1>1, <1>2 DEF IInv, ReadyHeld, MadeInOrder
<1> QED BY <1>2, <1>3, <1>4, <1>5 DEF IInv

LEMMA AgentPublishesStep ==
    ASSUME IInv, NEW t \in Tracks, AgentPublishes(t)
    PROVE  IInv'
<1>1. /\ UNCHANGED <<setup, teardown, leaving, conn, source, bridge, ready,
                     voice, sessionId, streamed, onMic, closedAt, attempt,
                     strays>>
      /\ track' = [track EXCEPT ![t] = "live"]
      /\ track[t] = "none"
  BY DEF AgentPublishes, retryVars
<1>2. MediaTypeOK'
  BY <1>1 DEF IInv, MediaTypeOK
<1>3. \A u \in Tracks : /\ track'[u] = "seen" <=> track[u] = "seen"
                       /\ track'[u] = "ended" <=> track[u] = "ended"
  BY <1>1 DEF IInv, MediaTypeOK
<1>4. SetupMovesOn' /\ MadeInOrder' /\ BridgeHeld' /\ VoiceHeld' /\ RoomHeld'
  BY <1>1 DEF IInv, SetupMovesOn, MadeInOrder, BridgeHeld, VoiceHeld, RoomHeld
<1>5. ReadyHeld'
  BY <1>1 DEF IInv, ReadyHeld
<1>6. SpeechHeld'
  BY <1>1, <1>3, MediaAssumption DEF IInv, SpeechHeld
<1> QED BY <1>2, <1>4, <1>5, <1>6 DEF IInv

LEMMA AgentUnpublishesStep ==
    ASSUME IInv, NEW t \in Tracks, AgentUnpublishes(t)
    PROVE  IInv'
<1>1. /\ UNCHANGED <<setup, teardown, leaving, conn, source, bridge, ready,
                     voice, sessionId, streamed, onMic, closedAt, attempt,
                     strays>>
      /\ track' = [track EXCEPT ![t] = "ended"]
  BY DEF AgentUnpublishes, retryVars
<1>2. MediaTypeOK'
  BY <1>1 DEF IInv, MediaTypeOK
<1>3. \A u \in Tracks : /\ track'[u] = "seen" => track[u] = "seen"
                       /\ track[u] \in {"seen", "ended"} =>
                              track'[u] \in {"seen", "ended"}
  BY <1>1 DEF IInv, MediaTypeOK
<1>4. SetupMovesOn' /\ MadeInOrder' /\ BridgeHeld' /\ VoiceHeld' /\ RoomHeld'
  BY <1>1 DEF IInv, SetupMovesOn, MadeInOrder, BridgeHeld, VoiceHeld, RoomHeld
<1>5. ReadyHeld'
  BY <1>1 DEF IInv, ReadyHeld
<1>6. SpeechHeld'
  BY <1>1, <1>3, MediaAssumption DEF IInv, SpeechHeld
<1> QED BY <1>2, <1>4, <1>5, <1>6 DEF IInv

-----------------------------------------------------------------------------
(* The theorems. *)

LEMMA InitIInv == MediaInit => IInv
<1> SUFFICES ASSUME MediaInit PROVE IInv
  OBVIOUS
<1>1. MediaTypeOK
  <2>1. attempt \in 1..Attempts /\ strays \in Nat
    BY MediaAssumption DEF MediaInit
  <2> QED BY <2>1 DEF MediaInit, MediaTypeOK, Pending, Settled
<1>2. SetupMovesOn /\ MadeInOrder /\ BridgeHeld /\ VoiceHeld
  BY DEF MediaInit, SetupMovesOn, MadeInOrder, BridgeHeld, VoiceHeld,
         NoBridgeYet, NoSessionYet, NoRoomYet, NoSourceYet
<1>3. RoomHeld /\ ReadyHeld
  BY DEF MediaInit, RoomHeld, ReadyHeld
<1>4. SpeechHeld
  BY MediaAssumption DEF MediaInit, SpeechHeld
<1> QED BY <1>1, <1>2, <1>3, <1>4 DEF IInv

LEMMA NextIInv == IInv /\ [MediaNext]_mediaVars => IInv'
<1> SUFFICES ASSUME IInv, [MediaNext]_mediaVars PROVE IInv'
  OBVIOUS
<1>1. CASE UNCHANGED mediaVars
  BY <1>1 DEF mediaVars, IInv, MediaTypeOK, SetupMovesOn, MadeInOrder,
              BridgeHeld, VoiceHeld, RoomHeld, ReadyHeld, SpeechHeld
<1>2. CASE SetupStep
  BY <1>2, LookUpCallStep, StoreSidsStep, MakeBridgeStep,
     LyzrStartsSessionStep, RepeatSessionStep, StartVoiceSessionStep,
     EnterRoomStep, JoinRoomStep, PublishTrackStep, SetupRejectedStep
     DEF SetupStep
<1>3. CASE \E t \in Tracks :
              AgentPublishes(t) \/ AgentUnpublishes(t) \/ TrackSubscribed(t)
  BY <1>3, AgentPublishesStep, AgentUnpublishesStep, TrackSubscribedStep
<1>4. CASE StartFrame \/ TwilioEnds \/ RoomEnds \/ FinishLeave
  BY <1>4, StartFrameStep, TwilioEndsStep, RoomEndsStep, FinishLeaveStep
<1> QED BY <1>1, <1>2, <1>3, <1>4 DEF MediaNext

LEMMA AlwaysIInv == MediaSpec => []IInv
BY InitIInv, NextIInv, PTL DEF MediaSpec

\* Type correctness of a conversation.
THEOREM MediaTypeCorrect == MediaSpec => []MediaTypeOK
<1>1. IInv => MediaTypeOK
  BY DEF IInv
<1> QED BY <1>1, AlwaysIInv, PTL

\* Whatever order the ends of a conversation come in (MediaSession.close,
\* LiveKitRoomBridge.close), when all has come to rest, what the set-up took
\* has been let go, unless the tear-down was over before it was taken.
THEOREM TearDownReleases == MediaSpec => []ReleasedUnlessOvertaken
<1>1. IInv => ReleasedUnlessOvertaken
  <2> SUFFICES ASSUME IInv, Quiet PROVE ReleasedUnlessOvertaken
    BY DEF ReleasedUnlessOvertaken
  <2>1. bridge = "open" => closedAt \in {"lookup", "sids", "status"}
    BY DEF IInv, Quiet, BridgeHeld, RoomHeld, NoBridgeYet
  <2>2. voice = "open" =>
            closedAt \in {"lookup", "sids", "status", "session"}
    BY DEF IInv, Quiet, VoiceHeld, RoomHeld, NoBridgeYet, NoSessionYet,
           Settled
  <2>3. conn = "joined" \/ source = "open" =>
            closedAt \in Pending \ {"publish"}
    <3>1. leaving \in {"in", "out"} /\ teardown = "closed"
      BY DEF IInv, Quiet, MediaTypeOK
    <3>2. CASE leaving = "in"
      BY <3>1, <3>2 DEF IInv, RoomHeld, MadeInOrder, NoBridgeYet, NoSessionYet,
                        NoRoomYet, Pending
    <3>3. CASE leaving = "out"
      BY <3>1, <3>3 DEF IInv, RoomHeld, MadeInOrder, NoBridgeYet,
                        NoSessionYet, NoRoomYet, NoSourceYet, Pending
    <3> QED BY <3>1, <3>2, <3>3
  <2> QED BY <2>1, <2>2, <2>3 DEF ReleasedUnlessOvertaken
<1> QED BY <1>1, AlwaysIInv, PTL

\* AudioBridge.agentReady is called by a room that has a source for the audio
\* the bridge then lets go.
THEOREM ReadyHasPath == MediaSpec => []ReadyMeansPath
<1>1. IInv => ReadyMeansPath
  BY DEF IInv, ReadyMeansPath, ReadyHeld, MediaTypeOK
<1> QED BY <1>1, AlwaysIInv, PTL

\* What a tear-down and a repeated attempt do to the session, and that nothing
\* else counts attempts.
SessionsHeld == strays < attempt /\ (sessionId => voice # "none")

LEMMA RetriesCounted ==
    ASSUME IInv, MediaNext
    PROVE  RepeatSession \/ UNCHANGED retryVars
<1>1. CASE StartFrame \/ TwilioEnds \/ RoomEnds
  BY <1>1 DEF StartFrame, TwilioEnds, RoomEnds, otherVars
<1>2. CASE FinishLeave
  BY <1>2 DEF FinishLeave
<1>3. CASE \E t \in Tracks :
              AgentPublishes(t) \/ AgentUnpublishes(t) \/ TrackSubscribed(t)
  BY <1>3 DEF AgentPublishes, AgentUnpublishes, TrackSubscribed
<1>4. CASE SetupStep
  BY <1>4 DEF SetupStep, LookUpCall, StoreSids, MakeBridge, LyzrStartsSession,
              StartVoiceSession, EnterRoom, JoinRoom, PublishTrack,
              SetupRejected, otherVars
<1> QED BY <1>1, <1>2, <1>3, <1>4 DEF MediaNext

LEMMA SessionKept ==
    ASSUME IInv, MediaNext, SessionsHeld
    PROVE  sessionId' => voice' # "none"
<1>1. CASE StartFrame \/ TwilioEnds
  BY <1>1 DEF SessionsHeld, StartFrame, Proceed, Stop, TwilioEnds, Close,
              Release
<1>2. CASE RoomEnds \/ FinishLeave
  BY <1>2 DEF SessionsHeld, RoomEnds, FinishLeave, Release
<1>3. CASE \E t \in Tracks :
              AgentPublishes(t) \/ AgentUnpublishes(t) \/ TrackSubscribed(t)
  BY <1>3 DEF SessionsHeld, AgentPublishes, AgentUnpublishes, TrackSubscribed
<1>4. CASE SetupStep
  <2>1. CASE RepeatSession
    BY <2>1 DEF IInv, MadeInOrder, NoSessionYet, RepeatSession
  <2>2. CASE LyzrStartsSession \/ StartVoiceSession
    BY <2>2 DEF SessionsHeld, LyzrStartsSession, StartVoiceSession
  <2>3. CASE LookUpCall \/ StoreSids \/ MakeBridge \/ EnterRoom \/ JoinRoom
             \/ PublishTrack \/ SetupRejected
    BY <2>3 DEF SessionsHeld, LookUpCall, StoreSids, MakeBridge, EnterRoom,
                JoinRoom, PublishTrack, SetupRejected, Proceed, Stop, Close,
                Release
  <2> QED BY <1>4, <2>1, <2>2, <2>3 DEF SetupStep
<1> QED BY <1>1, <1>2, <1>3, <1>4 DEF MediaNext

\* startVoiceSession repeats a request that may have started a session; one call
\* still has no more sessions at Lyzr than its retry has attempts.
THEOREM SessionsAreBounded == MediaSpec => []SessionsBounded
<1>1. MediaInit => SessionsHeld
  BY DEF MediaInit, SessionsHeld
<1>2. IInv /\ SessionsHeld /\ [MediaNext]_mediaVars => SessionsHeld'
  <2> SUFFICES ASSUME IInv, SessionsHeld, [MediaNext]_mediaVars
               PROVE  SessionsHeld'
    OBVIOUS
  <2>1. CASE UNCHANGED mediaVars
    BY <2>1 DEF SessionsHeld, mediaVars
  <2>2. CASE MediaNext
    <3>1. sessionId' => voice' # "none"
      BY <2>2, SessionKept
    <3>2. strays' < attempt'
      <4>1. CASE RepeatSession
        BY <4>1 DEF IInv, MediaTypeOK, SessionsHeld, RepeatSession
      <4>2. CASE UNCHANGED retryVars
        BY <4>2 DEF SessionsHeld, retryVars
      <4> QED BY <2>2, <4>1, <4>2, RetriesCounted
    <3> QED BY <3>1, <3>2 DEF SessionsHeld
  <2> QED BY <2>1, <2>2
<1>3. IInv /\ SessionsHeld => SessionsBounded
  BY MediaAssumption DEF IInv, MediaTypeOK, SessionsHeld, SessionsBounded
<1> QED BY <1>1, <1>2, <1>3, AlwaysIInv, PTL DEF MediaSpec

\* onTrackSubscribed keeps the agent's speech in preference to any other
\* track, however many the agent publishes and in whatever order they come.
THEOREM SpeechIsBridged == MediaSpec => []SpeechWins
<1>1. IInv => SpeechWins
  BY DEF IInv, SpeechWins, SpeechHeld
<1> QED BY <1>1, AlwaysIInv, PTL
=============================================================================
