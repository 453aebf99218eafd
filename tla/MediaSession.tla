---------------------------- MODULE MediaSession ----------------------------
(***************************************************************************)
(* One conversation: MediaSession (src/websocket/twilioMedia.ts) between   *)
(* Twilio's media socket and the LiveKit room that LiveKitRoomBridge       *)
(* (src/livekit/roomBridge.ts) joins on behalf of the prospect.            *)
(*                                                                         *)
(* Setting up is one chain of awaits, from the "start" frame of the stream *)
(* to the published track:                                                 *)
(*                                                                         *)
(*  "lookup" -> "sids" -> "status" -> "session" -> "record" -> "connect"   *)
(*     -> "publish" -> "done"                                              *)
(*                                                                         *)
(* and so is tearing down.  Twilio hanging up, the agent leaving, the room *)
(* closing and any rejected await start a tear-down, which does not stop   *)
(* the set-up: what is pending is resumed when its answer comes, and       *)
(* nothing in it looks at "closing" again.  Writes to the call's row are   *)
(* in StatusFlow; the sound itself is in AudioPath.                        *)
(***************************************************************************)
EXTENDS FiniteSets, Naturals

CONSTANTS
    Tracks,       \* audio tracks the agent may publish
    MicTracks,    \* those whose source is the microphone: its speech
    NoTrack,
    Rejected,     \* awaits that may be rejected
    Attempts      \* "attempts" of the retry around the start of a session

VARIABLES
    setup,     \* the await the set-up is at
    teardown,  \* the await MediaSession.close is at
    leaving,   \* where LiveKitRoomBridge.close stands
    conn,      \* our connection to the room
    source,    \* the audio source our track is fed from
    bridge,    \* the AudioBridge
    ready,     \* AudioBridge.agentReady: caller audio is no longer held back
    attempt,   \* the attempt at starting a session
    strays,    \* sessions of attempts that looked failed and were repeated
    voice,     \* the voice session at Lyzr of this attempt
    sessionId, \* whether its id is stored for the tear-down
    track,     \* the state of each track of the agent
    streamed,  \* the track bridged to Twilio (agentStream)
    onMic,     \* usingMicrophoneTrack
    closedAt   \* history: where the set-up was when the tear-down began

mediaVars == <<setup, teardown, leaving, conn, source, bridge, ready, attempt,
               strays, voice, sessionId, track, streamed, onMic, closedAt>>

trackVars == <<track, streamed, onMic, ready>>
retryVars == <<attempt, strays>>
otherVars == <<trackVars, retryVars>>

Pending  == {"lookup", "sids", "status", "session", "record", "connect",
             "publish"}
Settled  == {"none", "done", "stopped"}

ASSUME MediaAssumption ==
    /\ MicTracks \subseteq Tracks
    /\ NoTrack \notin Tracks
    /\ Rejected \subseteq Pending \cup {"end"}
    /\ Attempts \in Nat \ {0}

MediaInit ==
    /\ setup = "none"
    /\ teardown = "open"
    /\ leaving = "in"
    /\ conn = "none" /\ source = "none" /\ bridge = "none"
    /\ ready = FALSE
    /\ attempt = 1 /\ strays = 0
    /\ voice = "none" /\ sessionId = FALSE
    /\ track = [t \in Tracks |-> "none"]
    /\ streamed = NoTrack /\ onMic = FALSE
    /\ closedAt = "open"

-----------------------------------------------------------------------------
(* Tearing down. *)

\* Mutant: the session is left to expire.
ReleaseSocketOnly == UNCHANGED <<voice, sessionId>>

\* The end of MediaSession.close: the voice session is ended, when its id is
\* known, in one request that is not retried; then the socket is closed.
Release ==
    /\ \/ voice' = IF sessionId THEN "ended" ELSE voice
       \/ sessionId /\ "end" \in Rejected /\ voice' = "unended"
    /\ sessionId' = FALSE

\* this.agent is set together with the room, just before it connects.
HasAgent == conn # "none"

\* MediaSession.close: only the first one does anything.  The bridge goes at
\* once; then the room is closed, which takes a while unless it is closed or
\* being closed already.
Close ==
    IF teardown # "open"
      THEN UNCHANGED <<teardown, leaving, bridge, voice, sessionId, closedAt>>
      ELSE /\ closedAt' = setup
           /\ bridge' = IF bridge = "open" THEN "closed" ELSE bridge
           /\ IF HasAgent /\ leaving = "in"
                THEN /\ teardown' = "agent" /\ leaving' = "closing"
                     /\ UNCHANGED <<voice, sessionId>>
                ELSE /\ teardown' = "closed"
                     /\ Release
                     /\ UNCHANGED leaving

\* Mutant: the room reports its end to nobody.
FinishLeaveQuietly ==
    /\ leaving = "closing"
    /\ leaving' = "out"
    /\ source' = IF source = "open" THEN "closed" ELSE source
    /\ conn' = IF conn = "joined" THEN "left" ELSE conn
    /\ streamed' = NoTrack
    /\ IF teardown = "agent"
         THEN teardown' = "closed" /\ Release
         ELSE UNCHANGED <<teardown, voice, sessionId>>
    /\ UNCHANGED <<setup, bridge, closedAt, track, onMic, ready, retryVars>>

\* The rest of LiveKitRoomBridge.close: source and room are let go, as far as
\* they exist by now (the library does nothing to disconnect a room that is
\* still connecting), and onClosed ends the session if nobody else has begun to.
FinishLeave ==
    /\ leaving = "closing"
    /\ leaving' = "out"
    /\ source' = IF source = "open" THEN "closed" ELSE source
    /\ conn' = IF conn = "joined" THEN "left" ELSE conn
    /\ streamed' = NoTrack
    /\ IF teardown = "closed"
         THEN UNCHANGED <<teardown, voice, sessionId>>
         ELSE teardown' = "closed" /\ Release
    /\ closedAt' = IF closedAt = "open" THEN setup ELSE closedAt
    /\ bridge' = IF bridge = "open" /\ teardown = "open" THEN "closed" ELSE bridge
    /\ UNCHANGED <<setup, track, onMic, ready, retryVars>>

-----------------------------------------------------------------------------
(* The agent's tracks. *)

\* Mutant: the first track is kept, whatever it carries.
WantedFirst(S) == IF streamed = NoTrack THEN S ELSE {}

\* Which of the tracks S, seen one after the other, the bridge ends up with:
\* the first one with speech, or, if there is none and nothing is bridged yet,
\* the first one.  Speech is never given up.
Wanted(S) == IF onMic THEN {}
             ELSE IF S \cap MicTracks # {} THEN S \cap MicTracks
             ELSE IF streamed = NoTrack THEN S ELSE {}

\* onTrackSubscribed for each of S: the bridge is told that the agent is ready
\* and starts to forward the caller's audio.
OnTracksSubscribed(S) ==
    /\ track' = [t \in Tracks |-> IF t \in S THEN "seen" ELSE track[t]]
    /\ IF leaving # "in" \/ Wanted(S) = {}
         THEN UNCHANGED <<streamed, onMic, ready>>
         ELSE \E t \in Wanted(S) :
                  /\ streamed' = t
                  /\ onMic' = (t \in MicTracks)
                  /\ ready' = (ready \/ bridge = "open")

\* The agent Lyzr dispatched publishes a track.
AgentPublishes(t) ==
    /\ voice # "none" /\ track[t] = "none"
    /\ track' = [track EXCEPT ![t] = "live"]
    /\ UNCHANGED <<setup, teardown, leaving, conn, source, bridge, ready, voice,
                   sessionId, streamed, onMic, closedAt, retryVars>>

\* It takes a track back.  The room only logs this, and the loop that reads the
\* track ends; what is bridged, and whether it is speech, stays as it was.
AgentUnpublishes(t) ==
    /\ track[t] \in {"live", "seen"}
    /\ track' = [track EXCEPT ![t] = "ended"]
    /\ UNCHANGED <<setup, teardown, leaving, conn, source, bridge, ready, voice,
                   sessionId, streamed, onMic, closedAt, retryVars>>

\* The room announces it, to whoever is in the room.
TrackSubscribed(t) ==
    /\ conn = "joined" /\ track[t] = "live"
    /\ OnTracksSubscribed({t})
    /\ UNCHANGED <<setup, teardown, leaving, conn, source, bridge, voice,
                   sessionId, closedAt, retryVars>>

-----------------------------------------------------------------------------
(* Setting up. *)

Resume(from, to) == setup = from /\ setup' = to

\* An await came back with what the set-up needs, and nothing else changes.
Proceed(from, to) ==
    /\ Resume(from, to)
    /\ UNCHANGED <<teardown, leaving, bridge, voice, sessionId, closedAt>>

\* Mutant: an end the session does not know.
StopAsUnknown(from) == Resume(from, "error") /\ Close

\* It came back with something the set-up stops at.
Stop(from) == Resume(from, "stopped") /\ Close

\* The "start" frame: identifiers and stream token are checked on the spot.
StartFrame ==
    /\ teardown = "open"
    /\ Proceed("none", "lookup") \/ Stop("none")
    /\ UNCHANGED <<conn, source, otherVars>>

\* findById: the call is known, or it is not.
LookUpCall ==
    /\ Proceed("lookup", "sids") \/ Stop("lookup")
    /\ UNCHANGED <<conn, source, otherVars>>

StoreSids == Proceed("sids", "status") /\ UNCHANGED <<conn, source, otherVars>>

\* markStreamStatus is back: the call must have an agent; the bridge is made
\* before the room is joined, so that it can hold the caller's audio.
MakeBridge ==
    /\ \/ /\ Resume("status", "session")
          /\ bridge' = "open"
          /\ UNCHANGED <<teardown, leaving, voice, sessionId, closedAt>>
       \/ Stop("status")
    /\ UNCHANGED <<conn, source, otherVars>>

\* Lyzr starts the session that this attempt asks for.
LyzrStartsSession ==
    /\ setup = "session" /\ voice = "none"
    /\ voice' = "open"
    /\ UNCHANGED <<setup, teardown, leaving, conn, source, bridge, sessionId,
                   closedAt, otherVars>>

\* Mutant: every attempt counts as the first.
RepeatSessionForEver ==
    /\ setup = "session" /\ "session" \in Rejected
    /\ strays < 2 * Attempts
    /\ strays' = IF voice = "open" THEN strays + 1 ELSE strays
    /\ voice' = "none"
    /\ UNCHANGED <<setup, teardown, leaving, conn, source, bridge, sessionId,
                   closedAt, attempt, trackVars>>

\* The attempt times out or fails with a transient error and the request is
\* repeated; the session Lyzr may have started for it has an id nobody got.
RepeatSession ==
    /\ setup = "session" /\ "session" \in Rejected
    /\ attempt < Attempts
    /\ attempt' = attempt + 1
    /\ strays' = IF voice = "open" THEN strays + 1 ELSE strays
    /\ voice' = "none"
    /\ UNCHANGED <<setup, teardown, leaving, conn, source, bridge, sessionId,
                   closedAt, trackVars>>

\* Its answer carries the id.
StartVoiceSession ==
    /\ voice = "open"
    /\ Resume("session", "record")
    /\ sessionId' = TRUE
    /\ UNCHANGED <<teardown, leaving, conn, source, bridge, voice, closedAt,
                   otherVars>>

\* The id is in the row; the room is made and told to connect.
EnterRoom ==
    /\ Proceed("record", "connect")
    /\ conn' = "connecting"
    /\ UNCHANGED <<source, otherVars>>

\* Mutant: the source is made once the track is published.
JoinRoomWithoutSource ==
    /\ Proceed("connect", "publish")
    /\ conn' = "joined"
    /\ UNCHANGED <<source, otherVars>>

JoinRoom ==
    /\ Proceed("connect", "publish")
    /\ conn' = "joined" /\ source' = "open"
    /\ UNCHANGED otherVars

\* Our track is published; the agent may have been in the room before us.
PublishTrack ==
    /\ conn = "joined"
    /\ Proceed("publish", "done")
    /\ OnTracksSubscribed({t \in Tracks : track[t] \in {"live", "seen"}})
    /\ UNCHANGED <<conn, source, retryVars>>

\* An await is rejected: fail() starts the tear-down.  The session whose start
\* failed for good, or whose answer was refused (it does not validate, or no
\* agent was dispatched), may be running all the same.
SetupRejected ==
    /\ setup \in Rejected \/ (setup = "publish" /\ conn = "left")
    /\ Stop(setup)
    /\ conn' = IF setup = "connect" THEN "left" ELSE conn
    /\ UNCHANGED <<source, otherVars>>

-----------------------------------------------------------------------------
(* What ends a conversation. *)

\* A "stop" frame, the socket closes or fails, or the room reports an error of
\* the track it reads or feeds.
TwilioEnds ==
    /\ teardown = "open"
    /\ Close
    /\ UNCHANGED <<setup, conn, source, otherVars>>

\* The agent leaves the room, or the room comes to an end: room.close begins.
RoomEnds ==
    /\ conn = "joined"
    /\ conn' \in {"joined", "left"}
    /\ leaving' = IF leaving = "in" THEN "closing" ELSE leaving
    /\ UNCHANGED <<setup, teardown, source, bridge, voice, sessionId, closedAt,
                   otherVars>>

SetupStep ==
    \/ LookUpCall \/ StoreSids \/ MakeBridge
    \/ LyzrStartsSession \/ RepeatSession \/ StartVoiceSession
    \/ EnterRoom \/ JoinRoom \/ PublishTrack \/ SetupRejected

MediaNext ==
    \/ StartFrame \/ SetupStep
    \/ \E t \in Tracks :
           AgentPublishes(t) \/ AgentUnpublishes(t) \/ TrackSubscribed(t)
    \/ TwilioEnds \/ RoomEnds \/ FinishLeave

MediaSpec == MediaInit /\ [][MediaNext]_mediaVars

\* Every await is settled at some time.
MediaFairness ==
    WF_mediaVars(SetupStep) /\ WF_mediaVars(FinishLeave)

FairMediaSpec == MediaSpec /\ MediaFairness

-----------------------------------------------------------------------------
(* Properties. *)

\* Every variable has its type.
MediaTypeOK ==
    /\ setup \in Pending \cup Settled
    /\ teardown \in {"open", "agent", "closed"}
    /\ leaving \in {"in", "closing", "out"}
    /\ conn \in {"none", "connecting", "joined", "left"}
    /\ source \in {"none", "open", "closed"}
    /\ bridge \in {"none", "open", "closed"}
    /\ ready \in BOOLEAN
    /\ attempt \in 1..Attempts /\ strays \in Nat
    /\ voice \in {"none", "open", "ended", "unended"}
    /\ sessionId \in BOOLEAN
    /\ track \in [Tracks -> {"none", "live", "seen", "ended"}]
    /\ streamed \in Tracks \cup {NoTrack}
    /\ onMic \in BOOLEAN
    /\ closedAt \in {"open"} \cup Pending \cup Settled

\* Nothing is left to happen to the conversation.
Quiet == teardown = "closed" /\ setup \in Settled /\ leaving # "closing"

\* A tear-down lets go of everything the set-up took: the bridge, the room with
\* its source, the voice session, unless it overtook the set-up before the
\* thing existed.
ReleasedUnlessOvertaken ==
    Quiet =>
        /\ bridge = "open" => closedAt \in {"lookup", "sids", "status"}
        /\ voice = "open" =>
               closedAt \in {"lookup", "sids", "status", "session"}
        /\ conn = "joined" \/ source = "open" =>
               closedAt \in Pending \ {"publish"}

\* twilioMedia.ts: close() tears both sides down.
BothSidesTornDown == Quiet => voice # "open"

\* When the bridge is told that the agent is ready there is a source to take
\* the audio it held back: nothing of it is thrown away for want of one.
ReadyMeansPath == ready /\ bridge = "open" /\ leaving = "in" => source = "open"

\* roomBridge.ts: as soon as the room has shown us a track with the agent's
\* speech, speech is what is bridged, in whatever order tracks come and go.  No
\* other track keeps it away, only speech that ended after it was bridged.
SpeechWins ==
    leaving = "in" /\ (\E t \in MicTracks : track[t] = "seen") =>
        streamed \in MicTracks /\ track[streamed] \in {"seen", "ended"}

\* Whatever attempts are repeated and wherever the set-up is abandoned, one call
\* never has more sessions at Lyzr than the retry has attempts; and a session
\* whose id is known is never repeated.
SessionsBounded ==
    /\ strays + (IF voice = "open" THEN 1 ELSE 0) <= Attempts
    /\ sessionId => voice # "none"

\* When either side ends, or the set-up fails, the conversation comes to rest
\* on both: no tear-down waits for another.
EitherSideEndsBoth ==
    closedAt # "open" \/ leaving # "in" ~> Quiet
=============================================================================
