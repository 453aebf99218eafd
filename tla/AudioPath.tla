------------------------------ MODULE AudioPath ------------------------------
(***************************************************************************)
(* The sound of one conversation.  Towards the agent: AudioBridge          *)
(* (src/audio/bridge.ts) holds the caller's audio back until the agent is  *)
(* ready, LiveKitRoomBridge (src/livekit/roomBridge.ts) cuts it into       *)
(* frames, queues them and hands them to the room one at a time, because   *)
(* captureFrame resolves only when the room has taken a frame.  Towards    *)
(* the caller: the agent's audio is cut into frames for Twilio.            *)
(*                                                                         *)
(* Input samples are numbered as they arrive; what comes out of a          *)
(* resampler says which of them it is made of (Resampler).  Mu-law works   *)
(* on each sample alone (MuLaw).  A handler runs to its end before         *)
(* anything else does; what interleaves are the handlers and the frame     *)
(* being captured.                                                         *)
(***************************************************************************)
EXTENDS Resampler

CONSTANTS
    ToAgent,          \* from Twilio's rate to the rate the room is fed at
    FromAgent,        \* from the rates the agent may speak at to Twilio's
    FrameSamples,     \* samples in a frame for the room
    TwilioFrame,      \* samples in a frame for Twilio
    ChunkSizes,       \* samples that may arrive at once
    PreconnectLimit,  \* preconnectFrameLimit: chunks held back
    FlushKeep,        \* chunks forwarded when the agent is ready
    Backlog,          \* frames that may wait for the room
    MaxHeard,         \* bound: samples that arrive from Twilio
    MaxSpoken         \* bound: samples that arrive from the agent

ASSUME AudioAssumption ==
    /\ Followed(ToAgent) /\ \A ratio \in FromAgent : Followed(ratio)
    /\ FrameSamples \in Nat \ {0} /\ TwilioFrame \in Nat \ {0}
    /\ ChunkSizes \subseteq Nat \ {0}
    /\ PreconnectLimit \in Nat \ {0} /\ FlushKeep \in Nat \ {0}
    /\ Backlog \in Nat \ {0}
    /\ MaxHeard \in Nat /\ MaxSpoken \in Nat

VARIABLES
    heard,      \* how many samples came from Twilio
    held,       \* preconnectQueue
    agentReady,
    upsampler,  \* AudioBridge.toAgent
    pending,    \* samples short of a frame
    queue,      \* frameQueue
    capturing,  \* the frame captureFrame is at, << >> when no pump runs
    forwarded,  \* history: the samples that were not dropped before upsampling
    captured,   \* history: the samples the room took, in order
    lost,       \* history: the upsampled samples that were dropped
    spoken,     \* how many samples came from the agent
    downsampler,\* AudioBridge.toTwilio, NoResampler before the first sound
    remainder,  \* outboundRemainder
    said,       \* history: what the agent said, in stretches of one rate
    sent,       \* history: the samples sent to Twilio, in order
    bridgeOpen, \* ~AudioBridge.closed
    roomOpen    \* ~LiveKitRoomBridge.closed

toAgent == <<heard, held, agentReady, upsampler, pending, queue, capturing,
             forwarded, captured, lost>>
toCaller == <<spoken, downsampler, remainder, said, sent>>
audioVars == <<toAgent, toCaller, bridgeOpen, roomOpen>>

NoResampler == [ratio |-> Ratio(0, 0)]

AudioInit ==
    /\ heard = 0 /\ held = << >> /\ agentReady = FALSE
    /\ upsampler = FreshResampler(ToAgent)
    /\ pending = << >> /\ queue = << >> /\ capturing = << >>
    /\ forwarded = << >> /\ captured = << >> /\ lost = {}
    /\ spoken = 0 /\ downsampler = NoResampler /\ remainder = << >>
    /\ said = << >> /\ sent = << >>
    /\ bridgeOpen = TRUE /\ roomOpen = TRUE

\* The k samples after the first n.
Samples(n, k) == [i \in 1..k |-> n + i]

\* A sequence cut into whole frames of the given size, and what is left over.
FramesIn(s, size) == [i \in 1..(Len(s) \div size) |->
                         SubSeq(s, (i - 1) * size + 1, i * size)]

Leftover(s, size) == SubSeq(s, (Len(s) \div size) * size + 1, Len(s))

\* The last n elements of s.
Latest(s, n) == SubSeq(s, IF Len(s) > n THEN Len(s) - n + 1 ELSE 1, Len(s))

-----------------------------------------------------------------------------
(* Towards the agent. *)

\* Mutant: past the bound the newest frame is refused.
EnqueueUnlessFull(line, frame) ==
    CASE line.capturing = << >> -> [line EXCEPT !.capturing = frame]
      [] line.capturing # << >> /\ Len(line.queue) < Backlog ->
             [line EXCEPT !.queue = Append(@, frame)]
      [] OTHER -> [line EXCEPT !.lost = @ \cup ToSet(frame)]

\* Past the bound the oldest frame goes.  A pump is started unless one runs;
\* it takes its first frame at once.
Enqueue(line, frame) ==
    LET waiting == Append(line.queue, frame)
        kept    == Latest(waiting, Backlog)
        dropped == IF kept = waiting THEN {} ELSE ToSet(Head(waiting))
    IN  IF line.capturing = << >>
          THEN [line EXCEPT !.capturing = Head(kept), !.queue = Tail(kept),
                            !.lost = @ \cup dropped]
          ELSE [line EXCEPT !.queue = kept, !.lost = @ \cup dropped]

\* capture: whole frames are queued one by one, the rest waits.
Capture(line, samples) ==
    LET combined == line.pending \o samples
        queued   == FoldLeft(Enqueue, line, FramesIn(combined, FrameSamples))
    IN  [queued EXCEPT !.pending = Leftover(combined, FrameSamples)]

\* Mutant: every chunk is resampled on its own.
ForwardAfresh(line, samples) ==
    LET resampled == Process(FreshResampler(ToAgent), samples)
    IN  Capture([line EXCEPT !.forwarded = @ \o samples], resampled.out)

\* forwardPcmToAgent: without a room to take it the audio is dropped, and the
\* filter does not see it.
Forward(line, samples) ==
    IF ~roomOpen
      THEN line
      ELSE LET resampled == Process(line.upsampler, samples)
           IN  Capture([line EXCEPT !.upsampler = resampled.left,
                                    !.forwarded = @ \o samples],
                       resampled.out)

\* The line as the variables have it, and the variables as the line has it.
Line == [upsampler |-> upsampler, pending |-> pending, queue |-> queue,
         capturing |-> capturing, forwarded |-> forwarded, lost |-> lost]

BecomeLine(line) ==
    /\ upsampler' = line.upsampler
    /\ pending' = line.pending /\ queue' = line.queue
    /\ capturing' = line.capturing
    /\ forwarded' = line.forwarded /\ lost' = line.lost

lineVars == <<upsampler, pending, queue, capturing, forwarded, lost>>

\* Mutant: one chunk more than the limit is held back.
HoldBackOneMore(k) ==
    /\ bridgeOpen /\ ~agentReady
    /\ heard + k <= MaxHeard
    /\ heard' = heard + k
    /\ held' = Latest(Append(held, Samples(heard, k)), PreconnectLimit + 1)
    /\ UNCHANGED <<agentReady, lineVars, captured, toCaller, bridgeOpen, roomOpen>>

\* handleTwilioAudio while the agent is not ready: bufferPreconnect.
HoldBack(k) ==
    /\ bridgeOpen /\ ~agentReady
    /\ heard + k <= MaxHeard
    /\ heard' = heard + k
    /\ held' = Latest(Append(held, Samples(heard, k)), PreconnectLimit)
    /\ UNCHANGED <<agentReady, lineVars, captured, toCaller, bridgeOpen, roomOpen>>

\* handleTwilioAudio once it is.
PassOn(k) ==
    /\ bridgeOpen /\ agentReady
    /\ heard + k <= MaxHeard
    /\ heard' = heard + k
    /\ BecomeLine(Forward(Line, Samples(heard, k)))
    /\ UNCHANGED <<held, agentReady, captured, toCaller, bridgeOpen, roomOpen>>

\* Mutant: what was held first is forwarded.
MarkAgentReadyFromTheStart ==
    /\ bridgeOpen /\ roomOpen /\ ~agentReady
    /\ agentReady' = TRUE
    /\ BecomeLine(FoldLeft(Forward, Line,
                           SubSeq(held, 1, IF Len(held) < FlushKeep
                                             THEN Len(held) ELSE FlushKeep)))
    /\ held' = << >>
    /\ UNCHANGED <<heard, captured, toCaller, bridgeOpen, roomOpen>>

\* markAgentReady: the latest of what was held is forwarded, chunk by chunk.
\* The room is there (MediaSession, ReadyMeansPath).
MarkAgentReady ==
    /\ bridgeOpen /\ roomOpen /\ ~agentReady
    /\ agentReady' = TRUE
    /\ BecomeLine(FoldLeft(Forward, Line, Latest(held, FlushKeep)))
    /\ held' = << >>
    /\ UNCHANGED <<heard, captured, toCaller, bridgeOpen, roomOpen>>

\* Mutant: the pump stops after every frame.
FrameTakenAndStop ==
    /\ capturing # << >>
    /\ captured' = captured \o capturing
    /\ capturing' = << >>
    /\ UNCHANGED <<heard, held, agentReady, upsampler, pending, queue, forwarded,
                   lost, toCaller, bridgeOpen, roomOpen>>

\* The room took the frame: the pump goes on with the next one, if any.
FrameTaken ==
    /\ capturing # << >>
    /\ captured' = captured \o capturing
    /\ IF roomOpen /\ queue # << >>
         THEN capturing' = Head(queue) /\ queue' = Tail(queue)
         ELSE capturing' = << >> /\ UNCHANGED queue
    /\ UNCHANGED <<heard, held, agentReady, upsampler, pending, forwarded, lost,
                   toCaller, bridgeOpen, roomOpen>>

-----------------------------------------------------------------------------
(* Towards the caller. *)

\* Mutant: the resampler is made for the rate the agent began with.
ResamplerOfFirstRate(ratio) ==
    IF downsampler = NoResampler THEN FreshResampler(ratio) ELSE downsampler

\* The resampler for the next sound: a new one when the rate has changed, and
\* the one before it is not flushed.
ResamplerFor(ratio) ==
    IF downsampler.ratio = ratio THEN downsampler ELSE FreshResampler(ratio)

\* History: k more samples of the stretch under way, or of a new one.
Saying(ratio, samples) ==
    IF downsampler.ratio = ratio
      THEN [said EXCEPT ![Len(said)].samples = @ \o samples]
      ELSE Append(said, [ratio |-> ratio, samples |-> samples])

\* pumpAgentAudio and handleAgentAudio: whole frames are sent, the rest waits
\* for the next chunk.
Speak(k, ratio) ==
    /\ bridgeOpen /\ roomOpen
    /\ spoken + k <= MaxSpoken
    /\ spoken' = spoken + k
    /\ said' = Saying(ratio, Samples(spoken, k))
    /\ LET resampled == Process(ResamplerFor(ratio), Samples(spoken, k))
           combined  == remainder \o resampled.out
       IN  /\ downsampler' = resampled.left
           /\ sent' = sent \o FlattenSeq(FramesIn(combined, TwilioFrame))
           /\ remainder' = Leftover(combined, TwilioFrame)
    /\ UNCHANGED <<toAgent, bridgeOpen, roomOpen>>

-----------------------------------------------------------------------------
(* The end. *)

\* LiveKitRoomBridge.close.
RoomCloses ==
    /\ roomOpen
    /\ roomOpen' = FALSE
    /\ pending' = << >> /\ queue' = << >>
    /\ UNCHANGED <<heard, held, agentReady, upsampler, capturing, forwarded,
                   captured, lost, toCaller, bridgeOpen>>

\* What AudioBridge.close lets go of.
Released ==
    /\ held' = << >> /\ remainder' = << >>
    /\ upsampler' = FreshResampler(ToAgent)
    /\ downsampler' = IF downsampler = NoResampler
                        THEN NoResampler ELSE FreshResampler(downsampler.ratio)

\* AudioBridge.close, and with it the room.
BridgeCloses ==
    /\ bridgeOpen
    /\ bridgeOpen' = FALSE /\ roomOpen' = FALSE
    /\ Released
    /\ pending' = << >> /\ queue' = << >>
    /\ UNCHANGED <<heard, agentReady, capturing, forwarded, captured, lost,
                   spoken, said, sent>>

\* captureFrame is rejected: the pump ends and, unless the room is closed
\* already, so does the conversation.
CaptureRejected ==
    /\ capturing # << >>
    /\ capturing' = << >>
    /\ bridgeOpen' = (bridgeOpen /\ ~roomOpen) /\ roomOpen' = FALSE
    /\ IF roomOpen THEN Released
                   ELSE UNCHANGED <<held, remainder, upsampler, downsampler>>
    /\ pending' = << >> /\ queue' = << >>
    /\ UNCHANGED <<heard, agentReady, forwarded, captured, lost, spoken, said,
                   sent>>

AudioNext ==
    \/ \E k \in ChunkSizes :
           HoldBack(k) \/ PassOn(k) \/ \E ratio \in FromAgent : Speak(k, ratio)
    \/ MarkAgentReady \/ FrameTaken
    \/ RoomCloses \/ BridgeCloses \/ CaptureRejected

AudioSpec == AudioInit /\ [][AudioNext]_audioVars

-----------------------------------------------------------------------------
(* Properties. *)

\* What is between the caller's sound and the room, the oldest first.
OnTheWay == capturing \o FlattenSeq(queue) \o pending

\* What is left of s without some of its elements.
Without(s, gone) ==
    FlattenSeq([i \in 1..Len(s) |-> IF s[i] \in gone THEN << >> ELSE <<s[i]>>])

\* The agent hears the caller as if what was forwarded had been resampled in
\* one piece, in its order and no sample twice, however chunks, frames, the
\* flush and the pump interleave; and as long as the conversation lasts only
\* what was dropped on purpose is missing.
HeardInOrder ==
    LET meant == Without(Resampled(ToAgent, forwarded), lost)
    IN  IF roomOpen THEN captured \o OnTheWay = meant
                    ELSE IsPrefix(captured \o OnTheWay, meant)

\* What is dropped is older than everything that waits behind it, in the frame
\* queue and before the agent is ready: the agent may miss the past, never the
\* present.
OnlyThePastIsLost ==
    /\ roomOpen => \A s \in lost : \A t \in ToSet(FlattenSeq(queue) \o pending) :
                       s.n < t.n
    /\ bridgeOpen /\ roomOpen =>
           LET kept == forwarded \o FlattenSeq(held)
           IN  kept = Samples(heard - Len(kept), Len(kept))

\* However slowly the room takes frames, and however long the agent keeps us
\* waiting, what waits is bounded; and no frame waits for a pump that does not
\* run.
BacklogDrains ==
    /\ Len(held) <= PreconnectLimit /\ Len(queue) <= Backlog
    /\ Len(pending) < FrameSamples /\ Len(remainder) < TwilioFrame
    /\ queue # << >> => capturing # << >>

\* Between chunks a filter keeps the input its next output looks back on and
\* nothing else, so its buffer does not grow with the call.
HistoryKept ==
    /\ HistoryBounded(upsampler)
    /\ downsampler # NoResampler => HistoryBounded(downsampler)

\* The room's rate is not below Twilio's, and what is forwarded at once when the
\* agent is ready fits into the frames that may wait.
OpeningFits ==
    /\ ToAgent.down <= ToAgent.up
    /\ \A k \in ChunkSizes : FlushKeep * k * ToAgent.up
                                  <= (Backlog + 1) * FrameSamples * ToAgent.down

\* When the agent becomes ready the latest audio that was held is on its way.
OpeningKept ==
    [][agentReady' /\ ~agentReady =>
           LET latest == FlattenSeq(Latest(held, FlushKeep))
           IN  /\ IsSuffix(latest, forwarded')
               /\ \A i \in 1..Len(latest) : \E s \in ToSet(OnTheWay') :
                      \E term \in s.terms : term[2] = latest[i]
      ]_audioVars

\* The caller hears what the agent said, each stretch of one rate as if it had
\* been resampled in one piece, whole, in order and in whole frames.
SpokenInOrder ==
    LET meant == FlattenSeq([i \in 1..Len(said) |->
                                Resampled(said[i].ratio, said[i].samples)])
    IN  /\ IF bridgeOpen THEN sent \o remainder = meant
                         ELSE IsPrefix(sent, meant)
        /\ Len(sent) % TwilioFrame = 0

\* resampler.ts: the phases stand for the zero-stuffed signal, so what the room
\* gets is that signal filtered.
FiltersZeroStuffed ==
    \A s \in ToSet(captured) : s = ZeroStuffed(ToAgent, s.n, forwarded)
=============================================================================
