----------------------------- MODULE Placement -----------------------------
(***************************************************************************)
(* CallService.placeCall (src/calls/service.ts): what happens between a    *)
(* POST /api/call (or a scheduled follow-up) and the phone ringing.        *)
(*                                                                         *)
(* Requests run concurrently in one Node process and meet only in the      *)
(* database: every await is a point where the others may move, so every    *)
(* SQL statement and every remote call is one action here.  The actions    *)
(* of a request follow its program counter:                                *)
(*                                                                         *)
(*  "lookup" -> "count" -> "gap" -> "screen" -> "insert" -> "prepare"      *)
(*     -> "agent" -> "record" -> "dial" -> "queue" -> "placed"             *)
(*                                                                         *)
(* with the ways out "replayed", "refused", "errored", and, for a request  *)
(* whose row exists, "failing" -> "failed" -> "errored".                   *)
(*                                                                         *)
(* A database statement may fail, with or without having taken effect;     *)
(* a remote call may fail; the process may crash and be restarted, which   *)
(* loses every request it was serving.  Time passes in units of the        *)
(* smallest interval the contact rules distinguish.                        *)
(***************************************************************************)
EXTENDS CallTable

CONSTANTS
    NoCall,            \* a request that has not been told of any call
    FollowUps,         \* requests of mode reminder or reschedule
    MaxCallsPerLead,   \* env MAX_CALLS_PER_LEAD, 0 disables the rules
    Window,            \* env CALL_FREQUENCY_WINDOW_DAYS
    MinGap,            \* env MIN_HOURS_BETWEEN_CALLS, 0 disables the gap
    Cloning,           \* env LYZR_ENABLE_AGENT_CLONING
    MaxTime            \* bound: how far the clock goes

ASSUME PlacementAssumption ==
    /\ NoCall \notin Calls
    /\ FollowUps \subseteq Calls
    /\ MaxCallsPerLead \in Nat /\ Window \in Nat /\ MinGap \in Nat
    /\ Cloning \in BOOLEAN
    /\ MaxTime \in Nat

VARIABLES
    now,         \* the clock
    pc,          \* where each request stands
    reply,       \* the call each request was told of
    verified,    \* calls whose agent was found to carry the calendar tools
    clones,      \* calls a clone agent was created for at Lyzr
    raced        \* history: leads two of whose requests overlapped between
                 \* the contact-frequency check and the INSERT

placementVars == <<calls, now, pc, reply, dialled, verified, clones,
                   onTerminal, disturbed, raced>>

BeforeRow == {"lookup", "count", "gap", "screen", "insert", "refetch"}
WithRow   == {"prepare", "agent", "record", "dial", "queue"}
Failing   == {"failing", "failed"}
InFlight  == BeforeRow \cup WithRow \cup Failing
Finished  == {"placed", "replayed", "refused", "errored", "lost"}
PCs       == {"idle"} \cup InFlight \cup Finished

PlacementInit ==
    /\ calls = [c \in Calls |-> NoRow]
    /\ now = 0
    /\ pc = [r \in Calls |-> "idle"]
    /\ reply = [r \in Calls |-> NoCall]
    /\ dialled = {}
    /\ verified = {}
    /\ clones = {}
    /\ onTerminal = [c \in Calls |-> << >>]
    /\ disturbed = Undisturbed
    /\ raced = {}

Goto(r, from, to) == pc[r] = from /\ pc' = [pc EXCEPT ![r] = to]

\* Mutant: a status the schema does not know.
WrittenUnknownStatus(r) == [calls[r] EXCEPT !.status = "aborted"]

\* Mutant: the sid of the dialled call is not stored.
WrittenWithoutSid(r) ==
    CASE pc[r] = "insert"  -> [NoRow EXCEPT !.status = "created"]
      [] pc[r] = "queue"   -> [calls[r] EXCEPT !.status = "queued"]
      [] OTHER             -> calls[r]

\* The row as the statement a request is about to run leaves it.  None of them
\* looks at what the row holds: a status is replaced whatever it is by now.
Written(r) ==
    CASE pc[r] = "insert"  -> [NoRow EXCEPT !.status = "created",
                                            !.created_at = now]
      [] pc[r] = "prepare" -> [calls[r] EXCEPT !.status = "agent_preparing"]
      [] pc[r] = "record"  -> [calls[r] EXCEPT !.status = "agent_prepared",
                                               !.lyzr_call_agent_id = Cloning]
      [] pc[r] = "queue"   -> [calls[r] EXCEPT !.status = "queued",
                                               !.twilio_call_sid = TRUE]
      [] pc[r] = "failing" -> [calls[r] EXCEPT !.status = "failed",
                                               !.completed_at = TRUE]
      [] OTHER             -> calls[r]

Write(r) == calls' = [calls EXCEPT ![r] = Written(r)]

-----------------------------------------------------------------------------
(* Before the row exists: replay, contact rules, screening. *)

\* A request without a key has nothing to look up.
Receive(r) ==
    /\ Goto(r, "idle", IF KeyOf[r] = NoKey THEN "count" ELSE "lookup")
    /\ UNCHANGED <<calls, now, reply, dialled, verified, clones, onTerminal,
                   disturbed, raced>>

\* Mutant: the caller is told of its own request.
ReplayOwn(r, from) ==
    /\ FindByIdempotencyKey(KeyOf[r]) # {}
    /\ Goto(r, from, "replayed")
    /\ reply' = [reply EXCEPT ![r] = r]
    /\ UNCHANGED <<calls, now, dialled, verified, clones, onTerminal,
                   disturbed, raced>>

\* The key names a call already: tell the caller of it and do nothing.
Replay(r, from) ==
    \E c \in FindByIdempotencyKey(KeyOf[r]) :
        /\ Goto(r, from, "replayed")
        /\ reply' = [reply EXCEPT ![r] = c]
        /\ UNCHANGED <<calls, now, dialled, verified, clones, onTerminal,
                       disturbed, raced>>

LookUp(r) ==
    \/ Replay(r, "lookup")
    \/ /\ FindByIdempotencyKey(KeyOf[r]) = {}
       /\ Goto(r, "lookup", "count")
       /\ UNCHANGED <<calls, now, reply, dialled, verified, clones, onTerminal,
                      disturbed, raced>>

WindowStart == IF now > Window THEN now - Window ELSE 0

\* Requests about the lead of r that passed the count and have no row yet.
Deciding(r) == {q \in Calls \ {r} : /\ LeadOf[q] = LeadOf[r]
                                    /\ pc[q] \in {"gap", "screen", "insert"}}

\* Mutant: the cap is off by one.
OverTheCapByOne(r) ==
    /\ MaxCallsPerLead > 0
    /\ CountRecentCallsTo(LeadOf[r], WindowStart) > MaxCallsPerLead

OverTheCap(r) ==
    /\ MaxCallsPerLead > 0
    /\ CountRecentCallsTo(LeadOf[r], WindowStart) >= MaxCallsPerLead

\* enforceContactFrequency, the cap.
CountCalls(r) ==
    /\ Goto(r, "count",
            CASE OverTheCap(r)                      -> "refused"
              [] /\ ~OverTheCap(r)
                 /\ MaxCallsPerLead > 0 /\ MinGap > 0
                 /\ r \in FollowUps                 -> "gap"
              [] OTHER                              -> "screen")
    /\ raced' = IF Deciding(r) = {} THEN raced ELSE raced \cup {LeadOf[r]}
    /\ UNCHANGED <<calls, now, reply, dialled, verified, clones, onTerminal,
                   disturbed>>

\* Mutant: like the cap, the gap does not see failed calls.
TooSoonButForFailures(r) ==
    \E c \in CallsTo(LeadOf[r]) : /\ calls[c].status # "failed"
                                  /\ now - calls[c].created_at < MinGap

TooSoon(r) == \E c \in CallsTo(LeadOf[r]) : now - calls[c].created_at < MinGap

\* enforceContactFrequency, the gap before an automated follow-up.
CheckGap(r) ==
    /\ Goto(r, "gap", IF TooSoon(r) THEN "refused" ELSE "screen")
    /\ UNCHANGED <<calls, now, reply, dialled, verified, clones, onTerminal,
                   disturbed, raced>>

\* The suppression hook and the demo-booking guard.  Neither writes anything;
\* what they answer depends on systems outside this one.
Screen(r) ==
    /\ \/ Goto(r, "screen", "insert")
       \/ Goto(r, "screen", "refused")
    /\ UNCHANGED <<calls, now, reply, dialled, verified, clones, onTerminal,
                   disturbed, raced>>

-----------------------------------------------------------------------------
(* The row, the agent, the dial. *)

CreateRow(r) ==
    \/ /\ ~UniqueViolation(r)
       /\ Goto(r, "insert", "prepare")
       /\ Write(r)
       /\ UNCHANGED <<now, reply, dialled, verified, clones, onTerminal,
                      disturbed, raced>>
    \/ /\ UniqueViolation(r)
       /\ Goto(r, "insert", "refetch")
       /\ UNCHANGED <<calls, now, reply, dialled, verified, clones, onTerminal,
                      disturbed, raced>>

\* Lost the race for the key: answer with the winner's row.
Refetch(r) == Replay(r, "refetch")

MarkPreparing(r) ==
    /\ Goto(r, "prepare", "agent")
    /\ Write(r)
    /\ UNCHANGED <<now, reply, dialled, verified, clones, onTerminal,
                   disturbed, raced>>

\* Mutant: the dial goes ahead although the tools are missing.
PrepareUnverified(r) ==
    /\ Goto(r, "agent", "record")
    /\ UNCHANGED <<calls, now, reply, dialled, verified, clones, onTerminal,
                   disturbed, raced>>

\* Mutant: a failure here escapes the catch block.
PrepareOutsideTry(r) ==
    /\ \/ Goto(r, "agent", "record")
       \/ Goto(r, "agent", "errored")
    /\ UNCHANGED <<calls, now, reply, dialled, verified, clones, onTerminal,
                   disturbed, raced>>

\* strategy.prepareCallAgent: the base agent is read and its calendar tools
\* verified; only then is a clone created, when cloning is on.  A create-agent
\* request can fail, or succeed and its answer be lost or carry no id.
PrepareAgent(r) ==
    /\ \/ /\ Goto(r, "agent", "record")
          /\ verified' = verified \cup {r}
          /\ clones' = IF Cloning THEN clones \cup {r} ELSE clones
       \/ /\ Goto(r, "agent", "failing")
          /\ UNCHANGED <<verified, clones>>
       \/ /\ Cloning
          /\ Goto(r, "agent", "failing")
          /\ verified' = verified \cup {r}
          /\ clones' = clones \cup {r}
    /\ UNCHANGED <<calls, now, reply, dialled, onTerminal, disturbed, raced>>

MarkPrepared(r) ==
    /\ Goto(r, "record", "dial")
    /\ Write(r)
    /\ UNCHANGED <<now, reply, dialled, verified, clones, onTerminal,
                   disturbed, raced>>

\* assertDialable and twilio.createCall, which is not retried.  It is accepted,
\* refused, or accepted with the answer lost on the way back.
Dial(r) ==
    /\ \/ Goto(r, "dial", "queue") /\ dialled' = dialled \cup {r}
       \/ Goto(r, "dial", "failing") /\ UNCHANGED dialled
       \/ Goto(r, "dial", "failing") /\ dialled' = dialled \cup {r}
    /\ UNCHANGED <<calls, now, reply, verified, clones, onTerminal, disturbed,
                   raced>>

\* Whatever the row holds by now, it becomes "queued".
MarkQueued(r) ==
    /\ Goto(r, "queue", "placed")
    /\ Write(r)
    /\ reply' = [reply EXCEPT ![r] = r]
    /\ UNCHANGED <<now, dialled, verified, clones, onTerminal, disturbed,
                   raced>>

-----------------------------------------------------------------------------
(* Failure. *)

\* The catch block of placeCall: whatever the row holds, it becomes "failed".
MarkFailed(r) ==
    /\ Goto(r, "failing", "failed")
    /\ Write(r)
    /\ UNCHANGED <<now, reply, dialled, verified, clones, onTerminal,
                   disturbed, raced>>

\* update() has read the row back: announce it and answer with the error.
AnnounceFailure(r) ==
    /\ Goto(r, "failed", "errored")
    /\ onTerminal' = [onTerminal EXCEPT ![r] = Append(@, calls[r].status)]
    /\ UNCHANGED <<calls, now, reply, dialled, verified, clones, disturbed,
                   raced>>

\* A statement fails, or the SELECT of an update() does after its UPDATE took
\* effect.  Before the row exists the error goes to the caller; after, to the
\* catch block; in the catch block, to the caller again.
DatabaseFault(r) ==
    /\ Disturb("fault")
    /\ pc[r] \in InFlight \ {"screen", "agent", "dial"}
    /\ pc' = [pc EXCEPT ![r] = IF @ \in WithRow THEN "failing" ELSE "errored"]
    /\ \/ UNCHANGED calls
       \/ /\ pc[r] = "insert" => ~UniqueViolation(r)
          /\ Write(r)
    /\ UNCHANGED <<now, reply, dialled, verified, clones, onTerminal, raced>>

\* Nothing resumes the requests a process was serving when it died.
LoseRequests ==
    pc' = [r \in Calls |-> IF pc[r] \in InFlight THEN "lost" ELSE pc[r]]

PlacementCrash ==
    /\ Disturb("crash")
    /\ LoseRequests
    /\ UNCHANGED <<calls, now, reply, dialled, verified, clones, onTerminal,
                   raced>>

Tick ==
    /\ now < MaxTime
    /\ now' = now + 1
    /\ UNCHANGED <<calls, pc, reply, dialled, verified, clones, onTerminal,
                   disturbed, raced>>

-----------------------------------------------------------------------------
Advance(r) ==
    \/ LookUp(r) \/ CountCalls(r) \/ CheckGap(r) \/ Screen(r)
    \/ CreateRow(r) \/ Refetch(r)
    \/ MarkPreparing(r) \/ PrepareAgent(r) \/ MarkPrepared(r)
    \/ Dial(r) \/ MarkQueued(r)
    \/ MarkFailed(r) \/ AnnounceFailure(r)

PlacementNext ==
    \/ \E r \in Calls : Receive(r) \/ Advance(r) \/ DatabaseFault(r)
    \/ PlacementCrash
    \/ Tick

PlacementSpec == PlacementInit /\ [][PlacementNext]_placementVars

-----------------------------------------------------------------------------
(* Properties. *)

TypeOK ==
    /\ calls \in [Calls -> Row]
    /\ now \in Nat
    /\ pc \in [Calls -> PCs]
    /\ reply \in [Calls -> Calls \cup {NoCall}]
    /\ dialled \subseteq Calls
    /\ verified \subseteq Calls
    /\ clones \subseteq Calls
    /\ onTerminal \in [Calls -> Seq(Statuses)]
    /\ disturbed \in [Kinds -> Nat]
    /\ raced \subseteq Leads

\* However many requests carry one Idempotency-Key, however they interleave,
\* and whatever fails or crashes on the way, at most one of them makes a phone
\* ring (the UNIQUE column and placeCall's handling of its violation).
OneDialPerKey ==
    \A c, d \in dialled : KeyOf[c] = KeyOf[d] /\ KeyOf[c] # NoKey => c = d

\* All callers that get an answer for one key are told of the same call, be it
\* the one they placed or the one they replay.
AnswersAgree ==
    \A q, r \in Calls :
        /\ KeyOf[q] = KeyOf[r] /\ KeyOf[q] # NoKey
        /\ reply[q] # NoCall /\ reply[r] # NoCall
        => reply[q] = reply[r]

\* What a caller is told is what happened: an accepted call was dialled and
\* its sid stored, so that a status webhook can find the row, and a replayed
\* or refused request had no effect of its own.
AnswerMatchesEffect ==
    \A r \in Calls :
        /\ pc[r] = "placed" => r \in dialled /\ calls[r].twilio_call_sid
        /\ pc[r] \in {"replayed", "refused"} =>
               ~Exists(r) /\ r \notin dialled /\ r \notin clones

\* Nothing is dialled before its row exists, the agent's calendar tools were
\* verified, and a clone made for it is on record for the cleanup sweep.
DialPreconditions ==
    [][\A c \in dialled' \ dialled :
          c \in verified /\ Exists(c) /\ (Cloning => calls[c].lyzr_call_agent_id)]_dialled

\* The contact cap: unless two requests for the lead overlapped between the
\* count and the INSERT, the calls of the window, failed ones aside, are
\* within MAX_CALLS_PER_LEAD.
ContactCap ==
    MaxCallsPerLead > 0 =>
        \A lead \in Leads \ raced :
            CountRecentCallsTo(lead, WindowStart) <= MaxCallsPerLead

\* The contact gap: under the same proviso, a follow-up call is created at
\* least MIN_HOURS_BETWEEN_CALLS after every earlier call to its lead, failed
\* ones included.
FollowUpGap ==
    MaxCallsPerLead > 0 =>
        \A c \in FollowUps, d \in Calls :
            /\ Exists(c) /\ Exists(d)
            /\ LeadOf[c] = LeadOf[d] /\ LeadOf[c] \notin raced
            /\ calls[d].created_at < calls[c].created_at
            => calls[c].created_at - calls[d].created_at >= MinGap

\* README, "Contact frequency": every call passes a cap first, at most
\* MAX_CALLS_PER_LEAD calls in CALL_FREQUENCY_WINDOW_DAYS.
PhonedWithinCap ==
    MaxCallsPerLead > 0 =>
        \A lead \in Leads :
            Cardinality({c \in dialled : /\ LeadOf[c] = lead
                                        /\ calls[c].created_at >= WindowStart})
                <= MaxCallsPerLead

\* The request whose row has the key owns it.
TheOne(S) == CHOOSE c \in S : TRUE

Owner(k) == IF FindByIdempotencyKey(k) = {} THEN NoCall
                                           ELSE TheOne(FindByIdempotencyKey(k))

Dialling == INSTANCE IdempotentDial
            WITH owner  <- [k \in Keys |-> Owner(k)],
                 rung   <- dialled,
                 answer <- reply

\* placeCall keeps the promise of the Idempotency-Key as IdempotentDial states
\* it: a key never changes hands, only its owner's phone rings, and nobody who
\* asks with it is told of another call, or of one call now and another later.
ImplementsIdempotentDial == Dialling!Spec
=============================================================================
