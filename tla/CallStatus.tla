---------------------------- MODULE CallStatus ----------------------------
(***************************************************************************)
(* The status of one outbound call and the transitions it may make, from   *)
(* src/calls/stateMachine.ts and src/calls/types.ts.  The module is purely *)
(* constant: every handler that changes a status goes through the          *)
(* operators below (or, in the two places of CallService that do not,      *)
(* deliberately bypasses them).                                            *)
(***************************************************************************)
EXTENDS Naturals

Terminal == {"completed", "busy", "no_answer", "failed", "canceled"}

\* Before the carrier knows of the call.
Preparation == {"created", "agent_preparing", "agent_prepared"}

\* From the dial to the end of the conversation.
Live == {"queued", "initiated", "ringing",
         "answered", "stream_connecting", "streaming"}

Statuses == Preparation \cup Live \cup Terminal

\* The legal forward transitions.  Live statuses may be skipped: Twilio
\* delivers its webhooks late, out of order, or not at all.
Transitions ==
    [created           |-> {"agent_preparing", "failed", "canceled"},
     agent_preparing   |-> {"agent_prepared", "failed", "canceled"},
     agent_prepared    |-> {"queued", "failed", "canceled"},
     queued            |-> (Live \ {"queued"}) \cup Terminal,
     initiated         |-> (Live \ {"queued", "initiated"}) \cup Terminal,
     ringing           |-> {"answered", "stream_connecting", "streaming"}
                               \cup Terminal,
     answered          |-> {"stream_connecting", "streaming",
                            "completed", "failed", "canceled"},
     stream_connecting |-> {"streaming", "completed", "failed", "canceled"},
     streaming         |-> {"completed", "failed", "canceled"},
     completed         |-> {},
     busy              |-> {},
     no_answer         |-> {},
     failed            |-> {},
     canceled          |-> {}]

CanTransition(from, to) == from = to \/ to \in Transitions[from]

\* Mutant: whatever is reported is believed.
ResolveToReported(from, to) == to

\* The status the row should hold once "to" is reported while it holds "from".
ResolveTransition(from, to) ==
    IF from \notin Terminal /\ CanTransition(from, to) THEN to ELSE from

\* What Twilio calls a status, and ours.
TwilioStatuses == {"queued", "initiated", "ringing", "in-progress", "answered",
                   "completed", "busy", "no-answer", "failed", "canceled"}

\* Mutant: the hyphen is forgotten, so no transition accepts "no-answer".
MapAnsweredOnly(s) == IF s = "in-progress" THEN "answered" ELSE s

MapTwilioStatus(s) == CASE s = "in-progress" -> "answered"
                        [] s = "no-answer"   -> "no_answer"
                        [] OTHER             -> s

\* How far a call has come.  The longest chain of legal transitions has the
\* ranks 0..9; every terminal status is last.
Rank == [created           |-> 0, agent_preparing |-> 1, agent_prepared |-> 2,
         queued            |-> 3, initiated       |-> 4, ringing        |-> 5,
         answered          |-> 6, stream_connecting |-> 7, streaming    |-> 8,
         completed         |-> 9, busy            |-> 9, no_answer      |-> 9,
         failed            |-> 9, canceled        |-> 9]
=============================================================================
