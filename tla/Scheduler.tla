------------------------------ MODULE Scheduler ------------------------------
(***************************************************************************)
(* The calls nobody submits a form for: CallScheduler                      *)
(* (src/calls/scheduler.ts) sweeps the shared demo calendar and places a   *)
(* reminder before each demo and a reschedule call after each refusal; it  *)
(* first invites the lead's current owner (DemoBooker.addAttendee).        *)
(*                                                                         *)
(* A sweep works on the events it listed when it began and waits for       *)
(* HubSpot, Google and the database in between.  A process never overlaps  *)
(* its sweeps, but two processes do while one replaces the other.          *)
(* CallService.placeCall is here what of it a sweep can tell: that a row   *)
(* is made before the phone rings, and stays when it never does.  The rest *)
(* is in Placement.                                                        *)
(***************************************************************************)
EXTENDS DemoBooking

CONSTANTS
    Sweepers,            \* processes that run a scheduler
    Phones,              \* leads whose phone number is known from a call
    LeadTime,            \* REMINDER_LEAD_MINUTES
    Grace,               \* REMINDER_GRACE_MINUTES
    Horizon,             \* how far ahead a sweep looks
    EnableDeclineCalls,  \* ENABLE_DECLINE_CALLS
    ByHand,              \* bound: meetings people invite each other to
    MaxSweep             \* a sweep that takes longer is late; so is one that
                         \* ends when the last began longer ago

ASSUME SchedulerAssumption ==
    /\ Phones \subseteq Leads /\ ByHand \subseteq Meetings
    /\ {LeadTime, Grace, Horizon, MaxSweep} \subseteq Nat
    /\ LeadTime < Horizon
    /\ EnableDeclineCalls \in BOOLEAN

Modes == {"reminder", "reschedule"}

\* A kind of call about a meeting: meeting_id and call_mode, and by them the
\* Idempotency-Key "<mode>:<meeting id>".
Calls == Meetings \X Modes

VARIABLES
    sweep,    \* what each process is doing
    rows,     \* the calls there is a row for, whatever became of them
    rung,     \* how often the prospect was phoned, for each of them
    lag,      \* how long ago the last completed sweep began
    late,     \* history: a sweep was late
    refused,  \* history: meetings placeCall refused to remind of
    cut,      \* history: calls that failed between their row and the phone
    unseen,   \* history: guests who came while a sweep was between reading
              \* and writing the guests of the meeting
    undone    \* history: meetings whose refusal was written over

placeVars     == <<rows, rung, refused, cut>>
guestVars     == <<unseen, undone>>
schedulerVars == <<sweep, lag, late, placeVars, guestVars>>
calendarVars  == <<now, failures, bookingVars>>

\* `todo` are the events listed, `item` is the one being dealt with, `guests`
\* are its guests, as listed or as read before a PATCH, and so is `answer`, that
\* the prospect declined; `owner` is who is to be added.
Idle == [pc |-> "idle", todo |-> {}, item |-> None,
         owner |-> None, guests |-> {}, answer |-> FALSE, ticks |-> 0]

SweepInit ==
    /\ sweep = [w \in Sweepers |-> Idle]
    /\ rows = {} /\ rung = [c \in Calls |-> 0]
    /\ lag = 0 /\ late = FALSE
    /\ refused = {} /\ cut = {}
    /\ unseen = [m \in Meetings |-> {}] /\ undone = {}

SchedulerInit == BookingInit /\ SweepInit

\* What was kept for the step just done is let go of.
GoPlace(w, pc) == sweep' = [sweep EXCEPT ![w].pc = pc, ![w].owner = None,
                                         ![w].guests = {}, ![w].answer = FALSE]

GoNext(w) == sweep' = [sweep EXCEPT ![w].pc = "next", ![w].item = None,
                                    ![w].owner = None, ![w].guests = {},
                                    ![w].answer = FALSE]

-----------------------------------------------------------------------------
(* sweep. *)

\* What a sweep keeps of an event.
Snapshot(m) == [meeting |-> m, start |-> event[m].start,
                declined |-> event[m].declined, guests |-> event[m].guests]

Upcoming == {m \in On(Shared) : /\ now < event[m].start + Length
                                /\ event[m].start <= now + Horizon}

\* When the list cannot be read the sweep is over.
List(w) ==
    /\ sweep[w].pc = "idle"
    /\ \/ /\ sweep' = [sweep EXCEPT ![w] = [Idle EXCEPT
                          !.pc = "next", !.todo = {Snapshot(m) : m \in Upcoming}]]
          /\ UNCHANGED calendarVars
       \/ /\ Fail
          /\ UNCHANGED <<now, bookingVars, sweep>>
    /\ UNCHANGED <<lag, late, placeVars, guestVars>>

\* Mutant: no meeting is too close to be reminded of.
DueUntilStart(start) == now <= start /\ start <= now + LeadTime

IsReminderDue(start) == now + Grace <= start /\ start <= now + LeadTime

Wanted(s) == IF s.declined THEN EnableDeclineCalls ELSE IsReminderDue(s.start)

Item(s) == [meeting |-> s.meeting, start |-> s.start, declined |-> s.declined]

\* The events are dealt with in the order of their starts.
TakeItem(w, s) ==
    /\ sweep[w].pc = "next" /\ s \in sweep[w].todo
    /\ \A t \in sweep[w].todo : s.start <= t.start
    /\ sweep' = [sweep EXCEPT
          ![w].todo = @ \ {s},
          ![w].item = IF Wanted(s) THEN Item(s) ELSE None,
          ![w].guests = IF Wanted(s) /\ ~s.declined THEN s.guests ELSE {},
          ![w].pc   = IF ~Wanted(s) THEN "next"
                      ELSE IF s.declined THEN "dedupe" ELSE "owner"]
    /\ UNCHANGED <<calendarVars, lag, late, placeVars, guestVars>>

EndSweep(w) ==
    /\ sweep[w].pc = "next" /\ sweep[w].todo = {}
    /\ lag' = IF sweep[w].ticks < lag THEN sweep[w].ticks ELSE lag
    /\ sweep' = [sweep EXCEPT ![w] = Idle]
    /\ UNCHANGED <<calendarVars, late, placeVars, guestVars>>

-----------------------------------------------------------------------------
(* syncOwner. *)

Meeting(w) == sweep[w].item.meeting

Mode(w) == IF sweep[w].item.declined THEN "reschedule" ELSE "reminder"

Call(w) == <<Meeting(w), Mode(w)>>

\* What resolveOwner answers: leads are reassigned at any time.
Assignees == AEs \cup {None}

\* Mutant: an event whose lead has no owner is given up.
FoundOwnerOrGiveUp(w, ae) ==
    IF ae = None THEN GoNext(w)
    ELSE IF ae \in sweep[w].guests THEN GoPlace(w, "dedupe")
    ELSE sweep' = [sweep EXCEPT ![w].pc = "get", ![w].owner = ae, ![w].guests = {}]

FoundOwner(w, ae) ==
    IF ae \in {None} \cup sweep[w].guests
      THEN GoPlace(w, "dedupe")
      ELSE sweep' = [sweep EXCEPT ![w].pc = "get", ![w].owner = ae, ![w].guests = {}]

\* A lookup that fails is as good as no owner: waitForOwner answers null.
ResolveOwner(w) ==
    /\ sweep[w].pc = "owner"
    /\ \E ae \in Assignees : FoundOwner(w, ae)
    /\ UNCHANGED <<calendarVars, lag, late, placeVars, guestVars>>

\* addAttendee: the guests and their answers are read ...
GetEvent(w) ==
    /\ sweep[w].pc = "get"
    /\ \/ /\ IF sweep[w].owner \in event[Meeting(w)].guests
               THEN GoPlace(w, "dedupe")
               ELSE sweep' = [sweep EXCEPT
                       ![w].pc     = "patch",
                       ![w].guests = event[Meeting(w)].guests,
                       ![w].answer = event[Meeting(w)].declined]
          /\ UNCHANGED calendarVars
       \/ Fail /\ GoPlace(w, "dedupe") /\ UNCHANGED <<now, bookingVars>>
    /\ UNCHANGED <<lag, late, placeVars, guestVars>>

\* Processes between reading the guests and writing them.
Editing(m) == {w \in Sweepers : sweep[w].pc = "patch" /\ Meeting(w) = m}

\* The guests and the prospect's answer are written, while `others` are about to
\* write theirs.
Write(m, guests, declined, others) ==
    /\ event' = [event EXCEPT ![m].guests = guests, ![m].declined = declined]
    /\ raced' = raced \cup Rivals(event[m].lead, event[m].start)
    /\ unseen' = IF others = {} THEN unseen
                 ELSE [unseen EXCEPT ![m] = @ \cup (guests \ event[m].guests)]
    /\ undone' = IF event[m].declined /\ ~declined THEN undone \cup {m} ELSE undone

\* Mutant: PATCH is taken to add to the guests.
PatchReplaces(w) ==
    /\ sweep[w].pc = "patch"
    /\ GoPlace(w, "dedupe")
    /\ Write(Meeting(w), {sweep[w].owner}, event[Meeting(w)].declined, {})
    /\ UNCHANGED <<now, booking, failures, lag, late, placeVars>>

\* ... and written back as they were read, with one more; the answer may be lost.
PatchEvent(w) ==
    /\ sweep[w].pc = "patch"
    /\ GoPlace(w, "dedupe")
    /\ \/ /\ Write(Meeting(w), sweep[w].guests \cup {sweep[w].owner},
                   sweep[w].answer, Editing(Meeting(w)) \ {w})
          /\ UNCHANGED failures \/ Fail
       \/ /\ Fail
          /\ UNCHANGED <<event, raced, guestVars>>
    /\ UNCHANGED <<now, booking, lag, late, placeVars>>

-----------------------------------------------------------------------------
(* place, and placeCall within it: one that fails has no other effect on   *)
(* the sweep than that the event is given up until the next.               *)

\* findByMeetingAndMode and findLatestByEmail.
Dedupe(w) ==
    /\ sweep[w].pc = "dedupe"
    /\ LET call == /\ Call(w) \notin rows
                   /\ event[Meeting(w)].lead \in Phones
       IN  \/ call /\ GoPlace(w, "lookup") /\ UNCHANGED calendarVars
           \/ ~call /\ GoNext(w) /\ UNCHANGED calendarVars
           \/ Fail /\ GoNext(w) /\ UNCHANGED <<now, bookingVars>>
    /\ UNCHANGED <<lag, late, placeVars, guestVars>>

\* findByIdempotencyKey, and what may refuse the call: the contact rules, the
\* suppression list, the demo-booking guard.
LookUp(w) ==
    /\ sweep[w].pc = "lookup"
    /\ \/ /\ Call(w) \notin rows
          /\ GoPlace(w, "insert")
          /\ UNCHANGED <<calendarVars, refused>>
       \/ /\ Call(w) \notin rows
          /\ GoNext(w)
          /\ refused' = IF Mode(w) = "reminder" THEN refused \cup {Meeting(w)}
                        ELSE refused
          /\ UNCHANGED calendarVars
       \/ Call(w) \in rows /\ GoNext(w) /\ UNCHANGED <<calendarVars, refused>>
       \/ Fail /\ GoNext(w) /\ UNCHANGED <<now, bookingVars, refused>>
    /\ UNCHANGED <<lag, late, rows, rung, cut, guestVars>>

\* Mutant: the request has no Idempotency-Key.
InsertWithoutKey(w) ==
    /\ sweep[w].pc = "insert"
    /\ rows' = rows \cup {Call(w)}
    /\ GoPlace(w, "dial")
    /\ UNCHANGED <<calendarVars, lag, late, rung, refused, cut, guestVars>>

\* The row is made; or there is one, and the key's UNIQUE column refuses it; or
\* the INSERT fails; or its answer is lost, and the row is there.
Insert(w) ==
    /\ sweep[w].pc = "insert"
    /\ \/ /\ Call(w) \notin rows
          /\ rows' = rows \cup {Call(w)}
          /\ GoPlace(w, "dial")
          /\ UNCHANGED <<calendarVars, cut>>
       \/ /\ Call(w) \in rows
          /\ GoNext(w)
          /\ UNCHANGED <<calendarVars, rows, cut>>
       \/ /\ Fail /\ GoNext(w)
          /\ UNCHANGED <<now, bookingVars, rows, cut>>
       \/ /\ Call(w) \notin rows
          /\ Fail /\ GoNext(w)
          /\ rows' = rows \cup {Call(w)} /\ cut' = cut \cup {Call(w)}
          /\ UNCHANGED <<now, bookingVars>>
    /\ UNCHANGED <<lag, late, rung, refused, guestVars>>

\* prepareAndDial: the phone rings, also when Twilio's answer or the UPDATE that
\* follows is lost; or something before that fails.
Dial(w) ==
    /\ sweep[w].pc = "dial"
    /\ GoNext(w)
    /\ \/ /\ rung' = [rung EXCEPT ![Call(w)] = @ + 1]
          /\ UNCHANGED failures \/ Fail
          /\ UNCHANGED cut
       \/ /\ Fail
          /\ cut' = cut \cup {Call(w)}
          /\ UNCHANGED rung
    /\ UNCHANGED <<now, bookingVars, lag, late, rows, refused, guestVars>>

SweepStep(w) ==
    \/ List(w) \/ EndSweep(w) \/ \E s \in sweep[w].todo : TakeItem(w, s)
    \/ ResolveOwner(w) \/ GetEvent(w) \/ PatchEvent(w)
    \/ Dedupe(w) \/ LookUp(w) \/ Insert(w) \/ Dial(w)

-----------------------------------------------------------------------------
(* The rest. *)

\* The process is killed; the one that takes its place begins anew.  A call that
\* has its row is not taken up again.
Crash(w) ==
    /\ sweep[w].pc # "idle"
    /\ failures < MaxFailures /\ failures' = failures + 1
    /\ sweep' = [sweep EXCEPT ![w] = Idle]
    /\ cut' = IF sweep[w].pc = "dial" THEN cut \cup {Call(w)} ELSE cut
    /\ UNCHANGED <<now, bookingVars, lag, late, rows, rung, refused, guestVars>>

\* Somebody invites an AE by hand.
InviteByHand(m, ae) ==
    /\ Standing(m) /\ ae \notin event[m].guests
    /\ Write(m, event[m].guests \cup {ae}, event[m].declined, Editing(m))
    /\ UNCHANGED <<now, booking, failures, sweep, lag, late, placeVars>>

\* Once a sweep was late nothing is timed any more.
Tick ==
    LET Aged(n) == IF late' THEN 0 ELSE n + 1
    IN  /\ now < MaxTime
        /\ now' = now + 1
        /\ late' = (late \/ lag = MaxSweep \/ \E w \in Sweepers : sweep[w].ticks = MaxSweep)
        /\ lag' = Aged(lag)
        /\ sweep' = [w \in Sweepers |-> IF sweep[w].pc = "idle" THEN sweep[w]
                                        ELSE [sweep[w] EXCEPT !.ticks = Aged(@)]]
        /\ UNCHANGED <<event, booking, failures, raced, placeVars, guestVars>>

SchedulerNext ==
    \/ (People \/ \E r \in Requests : BookingStep(r)) /\ UNCHANGED schedulerVars
    \/ \E w \in Sweepers : SweepStep(w) \/ Crash(w)
    \/ \E m \in ByHand, ae \in AEs : InviteByHand(m, ae)
    \/ Tick

SchedulerSpec ==
    SchedulerInit /\ [][SchedulerNext]_<<calendarVars, schedulerVars>>

-----------------------------------------------------------------------------
(* Properties. *)

PCs == {"idle", "next", "owner", "get", "patch",
        "dedupe", "lookup", "insert", "dial"}

\* Every variable of the scheduler has its type.
SchedulerTypeOK ==
    /\ BookingTypeOK
    /\ \A w \in Sweepers :
          /\ sweep[w].pc \in PCs
          /\ sweep[w].guests \subseteq AEs /\ sweep[w].owner \in Assignees
          /\ sweep[w].ticks \in 0..MaxSweep
          /\ sweep[w].pc \notin {"idle", "next"} => Exists(Meeting(w))
    /\ rows \subseteq Calls /\ cut \subseteq Calls
    /\ rung \in [Calls -> Nat]
    /\ lag \in 0..MaxSweep /\ late \in BOOLEAN
    /\ refused \subseteq Meetings /\ undone \subseteq Meetings
    /\ unseen \in [Meetings -> SUBSET AEs]

\* README: one reminder and one reschedule call per meeting, ever.  Two sweeps
\* may both find no row, in place and in placeCall, and a process may die or an
\* answer be lost at any point: the phone never rings twice.
OneCallPerMeeting ==
    \A c \in Calls : rung[c] <= 1

\* A guest is removed from a meeting only if they came while a sweep was between
\* reading the guests and writing them: the sweep that writes knows all others.
GuestsKept ==
    [][\A m \in Meetings :
          Exists(m) => event[m].guests \ event'[m].guests \subseteq unseen'[m]]_event

Reminder(m) == <<m, "reminder">>

Dialling(c) == \E w \in Sweepers : sweep[w].pc = "dial" /\ Call(w) = c

\* Once a demo is too close to be reminded of, the prospect was phoned or is
\* being phoned, the call was refused, or it failed after it had its row.  (Of
\* demos made in time, that stand and were not declined.)  So a lookup, an
\* invitation, a list or a query that fails, or a process that dies, never costs
\* the reminder before there is a row; after that any of them does, for the row
\* is all the next sweep looks at.  A sweep that is late may cost it too.
ReminderGoesOut ==
    late \/ \A m \in Meetings :
        /\ Standing(m) /\ ~event[m].declined /\ m \notin undone
        /\ event[m].calendar = Shared
        /\ event[m].made + LeadTime <= event[m].start
        /\ event[m].lead \in Phones
        /\ event[m].start < now + Grace
        => \/ rung[Reminder(m)] > 0 \/ Dialling(Reminder(m))
           \/ m \in refused \/ Reminder(m) \in cut

\* A reminder that was due when its turn came, and then had to wait, still
\* comes before the demo, unless a sweep is late.
ReminderBeforeDemo ==
    [][\A m \in Meetings :
          rung'[Reminder(m)] > rung[Reminder(m)] /\ ~late
          => now <= event[m].start]_rung
=============================================================================
