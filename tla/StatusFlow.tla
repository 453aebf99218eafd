----------------------------- MODULE StatusFlow -----------------------------
(***************************************************************************)
(* What moves the status of a dialled call: Twilio's status webhooks       *)
(* (src/routes/twilioStatus.ts, CallService.applyTwilioStatus) and the     *)
(* media stream (MediaSession in src/websocket/twilioMedia.ts, which calls *)
(* CallService.markStreamStatus).                                          *)
(*                                                                         *)
(* Each of them reads the row, decides, and later runs an UPDATE that has  *)
(* no condition on what the row holds by then.  Twilio itself (the         *)
(* carrier) is external: its calls end on their own, and what it reports   *)
(* arrives late, out of order and more than once.                          *)
(***************************************************************************)
EXTENDS CallTable

CONSTANT
    Handlers   \* webhooks the server can be handling at once

ASSUME HandlersAssumption == IsFiniteSet(Handlers)

VARIABLES
    carrier,     \* the status each call has at Twilio
    mail,        \* status webhooks on their way: <<call, Twilio status>>
    handler,     \* what each webhook handler is doing
    stream,      \* where the media session of each call stands
    missed       \* history: calls whose last webhook came too early: the row
                 \* had no sid yet, or was not "queued" yet

flowVars == <<carrier, mail, handler, stream, missed>>

CarrierFinal == {"completed", "busy", "no-answer", "failed", "canceled"}

\* "update" and "readback" are the UPDATE and the SELECT of
\* CallRepository.update; "next" is the status to write.
Idle == [pc |-> "idle"]

FlowInit ==
    /\ carrier = [c \in Calls |-> "queued"]
    /\ mail = {}
    /\ handler = [h \in Handlers |-> Idle]
    /\ stream = [c \in Calls |-> "none"]
    /\ missed = {}

-----------------------------------------------------------------------------
(* The carrier. *)

CarrierNext(s) == CASE s = "queued"      -> {"initiated", "failed", "canceled"}
                    [] s = "initiated"   -> {"ringing", "failed", "canceled"}
                    [] s = "ringing"     -> {"in-progress", "busy",
                                             "no-answer", "canceled"}
                    [] s = "in-progress" -> {"completed"}
                    [] OTHER             -> {}

\* The call advances at Twilio, which reports each of its statuses.
CarrierStep(c) ==
    /\ c \in dialled
    /\ \E s \in CarrierNext(carrier[c]) :
           /\ carrier' = [carrier EXCEPT ![c] = s]
           /\ mail' = mail \cup {<<c, s>>}
    /\ UNCHANGED <<calls, dialled, onTerminal, disturbed, handler, stream,
                   missed>>

-----------------------------------------------------------------------------
(* applyTwilioStatus. *)

\* The webhook arrives and its call is looked up by sid.  A webhook whose sid
\* no row holds is acknowledged and dropped; so is one that changes nothing
\* (of the columns modelled here).
ReceiveWebhook(h) ==
    /\ handler[h] = Idle
    /\ \E m \in mail :
           LET c    == m[1]
               from == calls[c].status
               next == ResolveTransition(from, MapTwilioStatus(m[2]))
               hit  == calls[c].twilio_call_sid
           IN  /\ \/ mail' = mail \ {m} /\ UNCHANGED disturbed
                  \/ Disturb("duplicate") /\ UNCHANGED mail
               /\ handler' = [handler EXCEPT ![h] =
                      IF hit /\ next # from
                        THEN [pc |-> "update", call |-> c, next |-> next]
                        ELSE Idle]
               /\ missed' = IF m[2] \in CarrierFinal
                                /\ (~hit \/ from \in Preparation)
                             THEN missed \cup {c} ELSE missed
    /\ UNCHANGED <<calls, dialled, onTerminal, carrier, stream>>

\* Mutant: an ended call gets no completed_at.
UpdateWithoutCompletedAt(h) ==
    /\ handler[h].pc = "update"
    /\ calls' = [calls EXCEPT ![handler[h].call].status = handler[h].next]
    /\ handler' = [handler EXCEPT ![h].pc = "readback"]
    /\ UNCHANGED <<dialled, onTerminal, disturbed, carrier, mail, stream,
                   missed>>

\* Mutant: every update is announced, not only a terminal one.
UpdateAlwaysAnnounced(h) ==
    /\ handler[h].pc = "update"
    /\ calls' = [calls EXCEPT
                     ![handler[h].call].status = handler[h].next,
                     ![handler[h].call].completed_at =
                         @ \/ handler[h].next \in Terminal]
    /\ handler' = [handler EXCEPT ![h].pc = "readback"]
    /\ UNCHANGED <<dialled, onTerminal, disturbed, carrier, mail, stream,
                   missed>>

\* Mutant: only a conversation that completed is announced.
UpdateAnnouncedIfCompleted(h) ==
    /\ handler[h].pc = "update"
    /\ calls' = [calls EXCEPT
                     ![handler[h].call].status = handler[h].next,
                     ![handler[h].call].completed_at =
                         @ \/ handler[h].next \in Terminal]
    /\ handler' = [handler EXCEPT ![h] =
           IF handler[h].next = "completed" THEN [@ EXCEPT !.pc = "readback"]
                                            ELSE Idle]
    /\ UNCHANGED <<dialled, onTerminal, disturbed, carrier, mail, stream,
                   missed>>

\* The row takes the status that was decided on when it was read.
UpdateFromWebhook(h) ==
    /\ handler[h].pc = "update"
    /\ LET c    == handler[h].call
           next == handler[h].next
       IN  calls' = [calls EXCEPT
                        ![c].status = next,
                        ![c].answered_at = @ \/ next = "answered",
                        ![c].completed_at = @ \/ next \in Terminal]
    /\ handler' = [handler EXCEPT ![h] =
           IF handler[h].next \in Terminal THEN [@ EXCEPT !.pc = "readback"]
                                           ELSE Idle]
    /\ UNCHANGED <<dialled, onTerminal, disturbed, carrier, mail, stream,
                   missed>>

\* A call this handler ended is announced with the row as it reads now.
AnnounceEnd(h) ==
    /\ handler[h].pc = "readback"
    /\ LET c == handler[h].call
       IN  onTerminal' = [onTerminal EXCEPT ![c] = Append(@, calls[c].status)]
    /\ handler' = [handler EXCEPT ![h] = Idle]
    /\ UNCHANGED <<calls, dialled, disturbed, carrier, mail, stream, missed>>
-----------------------------------------------------------------------------
(* The media session, as far as it touches the row. *)

GotoStream(c, from, to) ==
    stream[c] = from /\ stream' = [stream EXCEPT ![c] = to]

\* Twilio opens the stream of an answered call: findById.
StreamStarts(c) ==
    /\ carrier[c] = "in-progress"
    /\ GotoStream(c, "none", "start")
    /\ UNCHANGED <<calls, dialled, onTerminal, disturbed, carrier, mail,
                   handler, missed>>

\* The stream carries the call's sid, which may beat placeCall to the row.
StoreSids(c) ==
    /\ GotoStream(c, "start", "connecting")
    /\ calls' = [calls EXCEPT ![c].twilio_call_sid = TRUE]
    /\ UNCHANGED <<dialled, onTerminal, disturbed, carrier, mail, handler,
                   missed>>

\* markStreamStatus: read the row; there may be nothing to write.
ReadForStream(c, target, here, update, after) ==
    /\ LET from == calls[c].status
           next == ResolveTransition(from, target)
       IN  GotoStream(c, here, IF next = from THEN after ELSE update)
    /\ UNCHANGED <<calls, dialled, onTerminal, disturbed, carrier, mail,
                   handler, missed>>

\* markStreamStatus: write.  Audio means the prospect has answered.
UpdateFromStream(c, target, update, after) ==
    /\ GotoStream(c, update, after)
    /\ calls' = [calls EXCEPT ![c].status = target, ![c].answered_at = TRUE]
    /\ UNCHANGED <<dialled, onTerminal, disturbed, carrier, mail, handler,
                   missed>>

MarkConnecting(c) ==
    \/ ReadForStream(c, "stream_connecting",
                     "connecting", "connecting_update", "joining")
    \/ UpdateFromStream(c, "stream_connecting", "connecting_update", "joining")

\* The voice session and the room come up, or the session is closed.
JoinRoom(c) ==
    /\ \/ GotoStream(c, "joining", "streaming")
       \/ GotoStream(c, "joining", "closed")
    /\ UNCHANGED <<calls, dialled, onTerminal, disturbed, carrier, mail,
                   handler, missed>>

\* The agent is ready.  Nothing holds this back when the call has ended
\* meanwhile but the transition table.
MarkStreaming(c) ==
    \/ ReadForStream(c, "streaming", "streaming", "streaming_update", "closed")
    \/ UpdateFromStream(c, "streaming", "streaming_update", "closed")

-----------------------------------------------------------------------------
(* Failures. *)

\* A statement of a handler fails, the look-up of its call or a later one, or
\* the SELECT of an update() after its UPDATE took effect: the webhook is
\* answered with an error and not sent again, and an end that was written is
\* never announced.
HandlerFault(h) ==
    /\ Disturb("fault")
    /\ \/ /\ handler[h] = Idle
          /\ \E m \in mail : mail' = mail \ {m}
          /\ UNCHANGED handler
       \/ /\ handler[h] # Idle
          /\ handler' = [handler EXCEPT ![h] = Idle]
          /\ UNCHANGED mail
    /\ UNCHANGED <<calls, dialled, onTerminal, carrier, stream, missed>>

\* A statement of the media session fails: the session is torn down.
StreamFault(c) ==
    /\ stream[c] \notin {"none", "joining", "closed"}
    /\ Disturb("fault")
    /\ stream' = [stream EXCEPT ![c] = "closed"]
    /\ UNCHANGED <<calls, dialled, onTerminal, carrier, mail, handler, missed>>

\* Handlers and media sessions die with the process; the carrier does not.
LoseHandlers ==
    /\ handler' = [h \in Handlers |-> Idle]
    /\ stream' = [c \in Calls |-> IF stream[c] = "none" THEN "none"
                                                       ELSE "closed"]

HandlerStep(h) == UpdateFromWebhook(h) \/ AnnounceEnd(h)

StreamStep(c) ==
    StoreSids(c) \/ MarkConnecting(c) \/ JoinRoom(c) \/ MarkStreaming(c)
=============================================================================
