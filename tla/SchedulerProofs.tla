--------------------------- MODULE SchedulerProofs ---------------------------
(***************************************************************************)
(* Proofs about Scheduler, for any calendar, any number of processes that  *)
(* sweep it and any bookings beside them.                                  *)
(*                                                                         *)
(* A sweep works on what it read.  What it keeps of an event stays true    *)
(* (SnapshotsTrue), but for the guests, to whom others may have come since:*)
(* they are on record (PatchFresh).  Of the calls, whoever is about to     *)
(* dial has made the row and is alone (DialsOnce), and a row without a call*)
(* has its reason (RowsAccounted).  Of time the sweeps know only the clock:*)
(* a reminder that was due when its turn came is late by no more than the  *)
(* sweep has taken (DueHeld), and every sweep either has a demo in hand or *)
(* began before its time, but for one sweep for each failure (OnItsWay);   *)
(* both until a sweep is late.                                             *)
(***************************************************************************)
EXTENDS Scheduler, BookingProofs

-----------------------------------------------------------------------------
(* The inductive invariant. *)

\* What a sweep keeps of an event, before it deals with it and while it does.
Kept == [meeting : Meetings, start : Nat, declined : BOOLEAN, guests : SUBSET AEs]

Taken == [meeting : Meetings, start : Nat, declined : BOOLEAN]

SweepRow == [pc : PCs, todo : SUBSET Kept, item : Taken \cup {None}, owner : Assignees,
             guests : SUBSET AEs, answer : BOOLEAN, ticks : 0..MaxSweep]

SweepTypeOK ==
    /\ sweep \in [Sweepers -> SweepRow]
    /\ lag \in 0..MaxSweep /\ late \in BOOLEAN
    /\ unseen \in [Meetings -> SUBSET AEs] /\ undone \subseteq Meetings

PlaceTypeOK ==
    /\ rows \subseteq Calls /\ cut \subseteq Calls /\ refused \subseteq Meetings
    /\ rung \in [Calls -> Nat]

\* A process is dealing with an event.
AtWork(w) == sweep[w].pc \notin {"idle", "next"}

True(s) == Exists(s.meeting) /\ event[s.meeting].start = s.start

SnapshotsTrue ==
    \A w \in Sweepers :
        /\ \A s \in sweep[w].todo : True(s)
        /\ AtWork(w) => sweep[w].item \in Taken /\ True(sweep[w].item)

\* Nobody is invited who is not there.
OwnerFound ==
    \A w \in Sweepers : sweep[w].pc \in {"get", "patch"} => sweep[w].owner # None

\* The guests a sweep is about to write are those there are, but for some who
\* came since it read them, and one more.
PatchFresh ==
    \A w \in Sweepers :
        sweep[w].pc = "patch"
        => event[Meeting(w)].guests \ sweep[w].guests \subseteq unseen[Meeting(w)]

\* The phone rings for what has a row.
RungHasRow == \A c \in Calls : rung[c] > 0 => c \in rows

\* Whoever is about to ring it is alone, and has made the row.
DialsOnce ==
    /\ \A w \in Sweepers : sweep[w].pc = "dial" => Call(w) \in rows /\ rung[Call(w)] = 0
    /\ \A v, w \in Sweepers :
          sweep[v].pc = "dial" /\ sweep[w].pc = "dial" /\ Call(v) = Call(w) => v = w

\* A row without a call has its reason.
RowsAccounted == \A c \in rows : rung[c] > 0 \/ Dialling(c) \/ c \in cut

CallsInv ==
    PlaceTypeOK /\ OneCallPerMeeting /\ RungHasRow /\ DialsOnce /\ RowsAccounted

DueHeld ==
    ~late => \A w \in Sweepers :
        AtWork(w) /\ ~sweep[w].item.declined
        => now + Grace <= sweep[w].item.start + sweep[w].ticks

\* A demo that is to be reminded of, and there is no row yet.
Pending(m) ==
    /\ Standing(m) /\ ~event[m].declined /\ m \notin undone
    /\ event[m].calendar = Shared
    /\ event[m].made + LeadTime <= event[m].start
    /\ event[m].lead \in Phones
    /\ Reminder(m) \notin rows /\ m \notin refused

\* A process has it in hand, for a reminder.
InHand(w, m) ==
    \/ \E s \in sweep[w].todo : s.meeting = m /\ ~s.declined
    \/ AtWork(w) /\ Meeting(w) = m /\ ~sweep[w].item.declined

\* What began so long ago began before it was time to remind of the demo, or
\* no longer after than one sweep for each failure.
Early(m, ago) ==
    now + LeadTime <= event[m].start + ago + failures * MaxSweep

OnItsWay ==
    ~late => \A m \in Meetings : Pending(m) =>
        /\ Early(m, lag)
        /\ \A w \in Sweepers :
              sweep[w].pc = "idle" \/ InHand(w, m) \/ Early(m, sweep[w].ticks)

SweepInv ==
    /\ BookingInv
    /\ SweepTypeOK
    /\ SnapshotsTrue
    /\ OwnerFound
    /\ PatchFresh
    /\ CallsInv
-----------------------------------------------------------------------------
(* What the steps of a sweep do to it. *)

\* The other processes, the clock and the lag are left alone.
Only(w) ==
    /\ sweep' \in [Sweepers -> SweepRow]
    /\ \A v \in Sweepers \ {w} : sweep'[v] = sweep[v]
    /\ now' = now

\* A process goes on with the event it has.
Continues(w, pc) ==
    /\ Only(w) /\ AtWork(w)
    /\ sweep'[w].pc = pc /\ pc \notin {"idle", "next"}
    /\ sweep'[w].item = sweep[w].item /\ sweep'[w].todo = sweep[w].todo
    /\ sweep'[w].ticks = sweep[w].ticks

\* It is done with that event, or gives it up.
Drops(w) ==
    /\ Only(w) /\ AtWork(w)
    /\ sweep'[w].pc = "next"
    /\ sweep'[w].todo = sweep[w].todo /\ sweep'[w].ticks = sweep[w].ticks

LEMMA IdleRow == Idle \in SweepRow
BY SchedulerAssumption, BookingAssumption
DEF SchedulerAssumption, BookingAssumption, Idle, SweepRow, PCs, Assignees

LEMMA GoesOn ==
    ASSUME SweepTypeOK, NEW w \in Sweepers, AtWork(w), NEW pc \in PCs \ {"idle", "next"},
           GoPlace(w, pc), now' = now
    PROVE  Continues(w, pc)
<1>1. sweep \in [Sweepers -> SweepRow]
  BY DEF SweepTypeOK
<1>2. /\ sweep' = [sweep EXCEPT ![w] = [sweep[w] EXCEPT !.pc = pc, !.owner = None,
                                                       !.guests = {}, !.answer = FALSE]]
  BY <1>1 DEF GoPlace
<1>3. [sweep[w] EXCEPT !.pc = pc, !.owner = None, !.guests = {}, !.answer = FALSE]
          \in SweepRow
  BY <1>1 DEF SweepRow, Assignees
<1> QED
  BY <1>1, <1>2, <1>3 DEF Continues, Only, SweepRow

LEMMA GoesNext ==
    ASSUME SweepTypeOK, NEW w \in Sweepers, AtWork(w), GoNext(w), now' = now
    PROVE  Drops(w)
<1>1. sweep \in [Sweepers -> SweepRow]
  BY DEF SweepTypeOK
<1>2. sweep' = [sweep EXCEPT ![w] = [sweep[w] EXCEPT !.pc = "next", !.item = None,
                                                     !.owner = None, !.guests = {},
                                                     !.answer = FALSE]]
  BY <1>1 DEF GoNext
<1>3. [sweep[w] EXCEPT !.pc = "next", !.item = None, !.owner = None, !.guests = {},
                       !.answer = FALSE] \in SweepRow
  BY <1>1 DEF SweepRow, Assignees, PCs
<1> QED
  BY <1>1, <1>2, <1>3 DEF Drops, Only, SweepRow

\* What is in hand is an event.
LEMMA HasMeeting ==
    ASSUME SweepTypeOK, SnapshotsTrue, NEW w \in Sweepers, AtWork(w)
    PROVE  /\ sweep[w].item \in Taken /\ Meeting(w) \in Meetings /\ Exists(Meeting(w))
           /\ event[Meeting(w)].start = sweep[w].item.start
           /\ Mode(w) \in Modes /\ Call(w) \in Calls /\ Call(w) = <<Meeting(w), Mode(w)>>
           /\ ~sweep[w].item.declined <=> Mode(w) = "reminder"
BY DEF SnapshotsTrue, True, Taken, Meeting, Mode, Modes, Call, Calls

LEMMA ResolvesOwner ==
    ASSUME SweepTypeOK, NEW w \in Sweepers, ResolveOwner(w)
    PROVE  \/ Continues(w, "dedupe")
           \/ Continues(w, "get") /\ sweep'[w].owner # None
<1>1. /\ sweep \in [Sweepers -> SweepRow] /\ sweep[w].pc = "owner" /\ AtWork(w)
      /\ now' = now
  BY DEF ResolveOwner, calendarVars, SweepTypeOK, AtWork
<1>2. PICK ae \in Assignees : FoundOwner(w, ae)
  BY DEF ResolveOwner
<1>3. CASE ae \in {None} \cup sweep[w].guests
  BY <1>1, <1>2, <1>3, GoesOn DEF FoundOwner, PCs
<1>4. CASE ae \notin {None} \cup sweep[w].guests
  <2>1. sweep' = [sweep EXCEPT ![w] = [sweep[w] EXCEPT !.pc = "get", !.owner = ae,
                                                       !.guests = {}]]
    BY <1>1, <1>2, <1>4 DEF FoundOwner
  <2>2. [sweep[w] EXCEPT !.pc = "get", !.owner = ae, !.guests = {}] \in SweepRow
    BY <1>1 DEF SweepRow, PCs
  <2>3. Continues(w, "get")
    BY <1>1, <2>1, <2>2 DEF Continues, Only, SweepRow
  <2>4. sweep'[w].owner = ae /\ ae # None
    BY <1>1, <1>4, <2>1 DEF SweepRow
  <2> QED
    BY <2>3, <2>4
<1> QED
  BY <1>3, <1>4

\* The guests that are read are those there are.
LEMMA GetsEvent ==
    ASSUME SweepTypeOK, BookingTypeOK, SnapshotsTrue, NEW w \in Sweepers, GetEvent(w)
    PROVE  \/ Continues(w, "dedupe")
           \/ /\ Continues(w, "patch")
              /\ sweep'[w].guests = event[Meeting(w)].guests
              /\ sweep'[w].owner = sweep[w].owner
<1>1. /\ sweep \in [Sweepers -> SweepRow] /\ sweep[w].pc = "get" /\ AtWork(w)
      /\ now' = now
  BY DEF GetEvent, calendarVars, SweepTypeOK, AtWork
<1>2. CASE GoPlace(w, "dedupe")
  BY <1>1, <1>2, GoesOn DEF PCs
<1>3. CASE sweep' = [sweep EXCEPT ![w].pc     = "patch",
                                  ![w].guests = event[Meeting(w)].guests,
                                  ![w].answer = event[Meeting(w)].declined]
  <2> DEFINE guests == event[Meeting(w)].guests
             answer == event[Meeting(w)].declined
  <2>1. guests \in SUBSET AEs /\ answer \in BOOLEAN
    BY <1>1, HasMeeting DEF Exists, BookingTypeOK, Event
  <2>2. sweep' = [sweep EXCEPT ![w] = [sweep[w] EXCEPT !.pc = "patch", !.guests = guests,
                                                       !.answer = answer]]
    BY <1>1, <1>3
  <2> HIDE DEF guests, answer
  <2>3. [sweep[w] EXCEPT !.pc = "patch", !.guests = guests, !.answer = answer] \in SweepRow
    BY <1>1, <2>1 DEF SweepRow, PCs
  <2>4. /\ Continues(w, "patch") /\ sweep'[w].guests = guests
        /\ sweep'[w].owner = sweep[w].owner
    BY <1>1, <2>2, <2>3 DEF Continues, Only, SweepRow
  <2> QED
    BY <2>4 DEF guests
<1> QED
  BY <1>2, <1>3 DEF GetEvent

LEMMA ListsOrNot ==
    ASSUME SweepTypeOK, BookingTypeOK, NEW w \in Sweepers, List(w)
    PROVE  \/ /\ Only(w) /\ UNCHANGED calendarVars
              /\ sweep'[w].pc = "next" /\ sweep'[w].ticks = 0
              /\ sweep'[w].todo = {Snapshot(m) : m \in Upcoming}
              /\ sweep'[w].todo \subseteq {s \in Kept : True(s)}
           \/ sweep' = sweep /\ Fail /\ UNCHANGED <<now, bookingVars>>
<1> DEFINE todo == {Snapshot(m) : m \in Upcoming}
           row == [Idle EXCEPT !.pc = "next", !.todo = todo]
<1>1. SUFFICES ASSUME sweep' = [sweep EXCEPT ![w] = row], UNCHANGED calendarVars
               PROVE  /\ Only(w) /\ sweep'[w].pc = "next" /\ sweep'[w].ticks = 0
                      /\ sweep'[w].todo = todo
                      /\ todo \subseteq {s \in Kept : True(s)}
  BY DEF List
<1>2. todo \subseteq {s \in Kept : True(s)}
  <2> SUFFICES ASSUME NEW m \in Upcoming
               PROVE  Snapshot(m) \in Kept /\ True(Snapshot(m))
    OBVIOUS
  <2>1. m \in Meetings /\ event[m] \in Event /\ Exists(m)
    BY DEF Upcoming, On, Standing, Exists, BookingTypeOK
  <2> QED
    BY <2>1 DEF Snapshot, Kept, True, Event
<1> HIDE DEF todo
<1>3. row \in SweepRow /\ row.pc = "next" /\ row.ticks = 0 /\ row.todo = todo
  BY <1>2, IdleRow DEF SweepRow, PCs, Idle
<1> HIDE DEF row
<1>4. Only(w) /\ sweep'[w] = row
  BY <1>1, <1>3 DEF SweepTypeOK, Only, calendarVars
<1> QED
  BY <1>2, <1>3, <1>4

LEMMA TakesItem ==
    ASSUME SweepTypeOK, NEW w \in Sweepers, NEW s \in sweep[w].todo, TakeItem(w, s)
    PROVE  /\ Only(w) /\ sweep[w].pc = "next" /\ s \in Kept /\ Item(s) \in Taken
           /\ Item(s).meeting = s.meeting /\ Item(s).start = s.start
           /\ Item(s).declined = s.declined
           /\ sweep'[w].todo = sweep[w].todo \ {s}
           /\ sweep'[w].ticks = sweep[w].ticks
           /\ \/ Wanted(s) /\ sweep'[w].item = Item(s) /\ sweep'[w].pc \in {"dedupe", "owner"}
              \/ ~Wanted(s) /\ sweep'[w].pc = "next"
<1> DEFINE todo == sweep[w].todo \ {s}
           item == IF Wanted(s) THEN Item(s) ELSE None
           guests == IF Wanted(s) /\ ~s.declined THEN s.guests ELSE {}
           pc == IF ~Wanted(s) THEN "next" ELSE IF s.declined THEN "dedupe" ELSE "owner"
           row == [sweep[w] EXCEPT !.todo = todo, !.item = item, !.guests = guests, !.pc = pc]
<1>1. /\ sweep \in [Sweepers -> SweepRow] /\ sweep[w].pc = "next" /\ now' = now
      /\ sweep' = [sweep EXCEPT ![w] = row]
  BY DEF TakeItem, SweepTypeOK, calendarVars
<1>2. s \in Kept
  BY <1>1 DEF SweepRow
<1>3. /\ Item(s) \in Taken /\ Item(s).meeting = s.meeting /\ Item(s).start = s.start
      /\ Item(s).declined = s.declined
  BY <1>2 DEF Item, Kept, Taken
<1>4. /\ todo \in SUBSET Kept /\ item \in Taken \cup {None} /\ pc \in PCs
      /\ guests \in SUBSET AEs
      /\ \/ Wanted(s) /\ item = Item(s) /\ pc \in {"dedupe", "owner"}
         \/ ~Wanted(s) /\ pc = "next"
  BY <1>1, <1>2, <1>3 DEF SweepRow, PCs, Kept
<1> HIDE DEF todo, item, guests, pc
<1>5. /\ row \in SweepRow /\ row.todo = todo /\ row.item = item /\ row.pc = pc
      /\ row.ticks = sweep[w].ticks
  BY <1>1, <1>4 DEF SweepRow
<1> HIDE DEF row
<1>6. Only(w) /\ sweep'[w] = row
  BY <1>1, <1>5 DEF Only
<1> QED
  BY <1>1, <1>2, <1>3, <1>4, <1>5, <1>6 DEF todo

LEMMA Rests ==
    ASSUME SweepTypeOK, NEW w \in Sweepers, now' = now, sweep' = [sweep EXCEPT ![w] = Idle]
    PROVE  Only(w) /\ sweep'[w].pc = "idle" /\ sweep'[w].todo = {}
<1>1. Only(w) /\ sweep'[w] = Idle
  BY IdleRow DEF SweepTypeOK, Only
<1> QED
  BY <1>1 DEF Idle

-----------------------------------------------------------------------------
(* Every step keeps SweepInv. *)

\* What was read of an event stays true, whatever happens to its guests.
LEMMA SnapshotsStay ==
    ASSUME SweepTypeOK, SnapshotsTrue,
           \A m \in Meetings : Exists(m)
              => Exists(m)' /\ event'[m].start = event[m].start,
           \A w \in Sweepers :
              /\ \A s \in sweep'[w].todo : s \in Kept /\ True(s)
              /\ AtWork(w)' => sweep'[w].item \in Taken /\ True(sweep'[w].item)
    PROVE  SnapshotsTrue'
BY DEF SnapshotsTrue, True, Kept, Taken

\* Nobody begins or ends to dial, and no row is made.
LEMMA CallsSame ==
    ASSUME CallsInv, UNCHANGED <<rows, rung, cut>>, refused' \subseteq Meetings,
           \A v \in Sweepers :
              /\ sweep'[v].pc = "dial" <=> sweep[v].pc = "dial"
              /\ sweep[v].pc = "dial" => sweep'[v].item = sweep[v].item
    PROVE  CallsInv'
<1>1. \A v \in Sweepers : sweep[v].pc = "dial" => Call(v)' = Call(v)
  BY DEF Call, Meeting, Mode
<1>2. \A c \in Calls : Dialling(c) => Dialling(c)'
  BY <1>1 DEF Dialling
<1>3. RowsAccounted'
  BY <1>2 DEF CallsInv, RowsAccounted, PlaceTypeOK
<1>4. DialsOnce'
  BY <1>1 DEF CallsInv, DialsOnce
<1> QED
  BY <1>3, <1>4 DEF CallsInv, PlaceTypeOK, OneCallPerMeeting, RungHasRow

\* The calendar is left alone by a step of one process.
LEMMA CalendarStays ==
    ASSUME SweepInv, NEW w \in Sweepers, Only(w), UNCHANGED <<bookingVars, guestVars, late>>,
           failures' \in 0..MaxFailures, lag' \in 0..MaxSweep, CallsInv',
           \A s \in sweep'[w].todo : s \in Kept /\ True(s),
           AtWork(w)' => sweep'[w].item \in Taken /\ True(sweep'[w].item),
           sweep'[w].pc \in {"get", "patch"} => sweep'[w].owner # None,
           sweep'[w].pc = "patch" => sweep'[w].guests = event[sweep'[w].item.meeting].guests
    PROVE  SweepInv'
<1>1. BookingInv'
  BY DEF SweepInv, bookingVars, BookingInv, BookingTypeOK, BookingClear, ReadClear, AllRead,
         FreeClear, RivalsRaced, On, Standing, Exists, MatchesLead, CalendarsToCheck,
         Overlap, Only
<1>2. SweepTypeOK' /\ OwnerFound'
  BY DEF SweepInv, SweepTypeOK, OwnerFound, Only, guestVars
<1>3. SnapshotsTrue'
  <2>1. \A m \in Meetings : Exists(m) => Exists(m)' /\ event'[m].start = event[m].start
    BY DEF bookingVars, Exists
  <2>2. \A v \in Sweepers \ {w} :
          /\ \A s \in sweep'[v].todo : s \in Kept /\ True(s)
          /\ AtWork(v)' => sweep'[v].item \in Taken /\ True(sweep'[v].item)
    <3>1. \A v \in Sweepers : sweep[v].todo \subseteq Kept
      BY DEF SweepInv, SweepTypeOK, SweepRow
    <3> QED
      BY <3>1 DEF SweepInv, SnapshotsTrue, AtWork, Only
  <2> QED
    BY <2>1, <2>2, SnapshotsStay DEF SweepInv
<1>4. PatchFresh'
  BY DEF SweepInv, PatchFresh, Meeting, Only, bookingVars, guestVars
<1> QED
  BY <1>1, <1>2, <1>3, <1>4 DEF SweepInv

\* A process goes on with its event, drops it, or comes to rest.
LEMMA KindsStay ==
    ASSUME SweepInv, NEW w \in Sweepers, UNCHANGED <<bookingVars, guestVars, late>>,
           failures' \in 0..MaxFailures, lag' \in 0..MaxSweep, CallsInv',
           \/ Drops(w)
           \/ Only(w) /\ sweep'[w].pc = "idle" /\ sweep'[w].todo = {}
           \/ \E pc \in PCs \ {"get", "patch"} : Continues(w, pc)
    PROVE  SweepInv'
<1>1. /\ sweep[w].todo \subseteq {s \in Kept : True(s)}
      /\ AtWork(w) => sweep[w].item \in Taken /\ True(sweep[w].item)
  BY DEF SweepInv, SweepTypeOK, SweepRow, SnapshotsTrue
<1>2. /\ Only(w) /\ \A s \in sweep'[w].todo : s \in Kept /\ True(s)
      /\ AtWork(w)' => sweep'[w].item \in Taken /\ True(sweep'[w].item)
      /\ sweep'[w].pc \notin {"get", "patch"}
  BY <1>1 DEF Drops, Continues, AtWork
<1> QED
  BY <1>2, CalendarStays

\* What a step that only moves a sweep leaves as it is.
LEMMA Untouched ==
    ASSUME SweepInv
    PROVE  /\ SweepTypeOK /\ BookingTypeOK /\ SnapshotsTrue /\ CallsInv /\ PlaceTypeOK
           /\ failures \in 0..MaxFailures /\ lag \in 0..MaxSweep /\ late \in BOOLEAN
           /\ refused \subseteq Meetings
BY DEF SweepInv, SweepTypeOK, BookingInv, BookingTypeOK, CallsInv, PlaceTypeOK

\* A process that does not dial, before or after.
LEMMA NoDial ==
    ASSUME SweepInv, NEW w \in Sweepers, sweep[w].pc # "dial", sweep'[w].pc # "dial",
           Only(w), UNCHANGED <<rows, rung, cut>>, refused' \subseteq Meetings
    PROVE  CallsInv'
BY Untouched, CallsSame DEF Only

LEMMA List_Inv ==
    ASSUME SweepInv, NEW w \in Sweepers, List(w)
    PROVE  SweepInv'
<1>1. UNCHANGED <<lag, late, placeVars, guestVars>> /\ sweep[w].pc = "idle"
  BY DEF List
<1>2. CASE /\ Only(w) /\ UNCHANGED calendarVars /\ sweep'[w].pc = "next"
           /\ sweep'[w].todo \subseteq {s \in Kept : True(s)}
  <2>1. ~AtWork(w)'
    BY <1>2 DEF AtWork
  <2>2. CallsInv'
    BY <1>1, <1>2, Untouched, NoDial DEF placeVars
  <2> QED
    BY <1>1, <1>2, <2>1, <2>2, Untouched, CalendarStays DEF calendarVars
<1>3. CASE sweep' = sweep /\ Fail /\ UNCHANGED <<now, bookingVars>>
  <2>1. failures' \in 0..MaxFailures
    BY <1>3, Untouched, Failed
  <2>2. BookingInv'
    BY <1>3, <2>1
    DEF SweepInv, bookingVars, BookingInv, BookingTypeOK, BookingClear, ReadClear, AllRead,
        FreeClear, RivalsRaced, On, Standing, Exists, MatchesLead, CalendarsToCheck, Overlap
  <2>3. CallsInv'
    BY <1>1, <1>3, Untouched, CallsSame DEF placeVars
  <2> QED
    BY <1>1, <1>3, <2>2, <2>3
    DEF SweepInv, SweepTypeOK, SnapshotsTrue, OwnerFound, PatchFresh, AtWork, True, Exists,
        Meeting, bookingVars, guestVars
<1> QED
  BY <1>2, <1>3, Untouched, ListsOrNot

LEMMA TakeItem_Inv ==
    ASSUME SweepInv, NEW w \in Sweepers, NEW s \in sweep[w].todo, TakeItem(w, s)
    PROVE  SweepInv'
<1>1. /\ UNCHANGED <<lag, late, placeVars, guestVars>> /\ UNCHANGED calendarVars
      /\ sweep[w].pc = "next"
  BY DEF TakeItem
<1>2. /\ Only(w) /\ s \in Kept /\ Item(s) \in Taken
      /\ Item(s).meeting = s.meeting /\ Item(s).start = s.start
      /\ sweep'[w].todo = sweep[w].todo \ {s}
      /\ \/ sweep'[w].item = Item(s) /\ sweep'[w].pc \in {"dedupe", "owner"}
         \/ sweep'[w].pc = "next"
  BY Untouched, TakesItem
<1>3. sweep[w].todo \subseteq {t \in Kept : True(t)}
  BY Untouched DEF SweepTypeOK, SweepRow, SnapshotsTrue
<1>4. /\ \A t \in sweep'[w].todo : t \in Kept /\ True(t)
      /\ AtWork(w)' => sweep'[w].item \in Taken /\ True(sweep'[w].item)
      /\ sweep'[w].pc \notin {"get", "patch", "dial"}
  BY <1>2, <1>3 DEF AtWork, True
<1>5. CallsInv'
  BY <1>1, <1>2, <1>4, Untouched, NoDial DEF placeVars
<1> QED
  BY <1>1, <1>2, <1>4, <1>5, Untouched, CalendarStays DEF calendarVars

LEMMA EndSweep_Inv ==
    ASSUME SweepInv, NEW w \in Sweepers, EndSweep(w)
    PROVE  SweepInv'
<1>1. /\ UNCHANGED <<late, placeVars, guestVars, bookingVars>> /\ now' = now
      /\ failures' = failures
      /\ sweep' = [sweep EXCEPT ![w] = Idle] /\ sweep[w].pc = "next"
  BY DEF EndSweep, calendarVars
<1>2. failures' \in 0..MaxFailures /\ lag' \in 0..MaxSweep
  <2>1. sweep[w].ticks \in 0..MaxSweep /\ lag \in 0..MaxSweep
    BY Untouched DEF SweepTypeOK, SweepRow
  <2> QED
    BY <1>1, <2>1, Untouched DEF EndSweep
<1>3. Only(w) /\ sweep'[w].pc = "idle" /\ sweep'[w].todo = {}
  BY <1>1, Rests, Untouched
<1>4. CallsInv'
  BY <1>1, <1>3, Untouched, NoDial DEF placeVars
<1> QED
  BY <1>1, <1>2, <1>3, <1>4, Untouched, KindsStay

LEMMA ResolveOwner_Inv ==
    ASSUME SweepInv, NEW w \in Sweepers, ResolveOwner(w)
    PROVE  SweepInv'
<1>1. UNCHANGED <<calendarVars, lag, late, placeVars, guestVars>> /\ sweep[w].pc = "owner"
  BY DEF ResolveOwner
<1>2. CASE Continues(w, "dedupe")
  <2>1. CallsInv'
    BY <1>1, <1>2, Untouched, NoDial DEF placeVars, Continues
  <2> QED
    BY <1>1, <1>2, <2>1, Untouched, KindsStay DEF calendarVars, PCs
<1>3. CASE Continues(w, "get") /\ sweep'[w].owner # None
  <2>1. /\ \A s \in sweep'[w].todo : s \in Kept /\ True(s)
        /\ sweep'[w].item \in Taken /\ True(sweep'[w].item)
        /\ Only(w) /\ sweep'[w].pc = "get"
    BY <1>3, Untouched DEF Continues, SnapshotsTrue, SweepTypeOK, SweepRow
  <2>2. CallsInv'
    BY <1>1, <2>1, Untouched, NoDial DEF placeVars
  <2> QED
    BY <1>1, <1>3, <2>1, <2>2, Untouched, CalendarStays DEF calendarVars
<1> QED
  BY <1>2, <1>3, Untouched, ResolvesOwner

LEMMA GetEvent_Inv ==
    ASSUME SweepInv, NEW w \in Sweepers, GetEvent(w)
    PROVE  SweepInv'
<1>1. /\ UNCHANGED <<bookingVars, lag, late, placeVars, guestVars>>
      /\ failures' \in 0..MaxFailures /\ sweep[w].pc = "get"
  BY Untouched, Failed DEF GetEvent, calendarVars
<1>2. CASE Continues(w, "dedupe")
  <2>1. CallsInv'
    BY <1>1, <1>2, Untouched, NoDial DEF placeVars, Continues
  <2> QED
    BY <1>1, <1>2, <2>1, Untouched, KindsStay DEF PCs
<1>3. CASE /\ Continues(w, "patch") /\ sweep'[w].guests = event[Meeting(w)].guests
           /\ sweep'[w].owner = sweep[w].owner
  <2>1. /\ \A s \in sweep'[w].todo : s \in Kept /\ True(s)
        /\ sweep'[w].item \in Taken /\ True(sweep'[w].item)
        /\ Only(w) /\ sweep'[w].pc = "patch"
        /\ sweep'[w].guests = event[sweep'[w].item.meeting].guests
    BY <1>3, Untouched DEF Continues, SnapshotsTrue, SweepTypeOK, SweepRow, Meeting
  <2>2. sweep'[w].owner # None
    BY <1>1, <1>3 DEF SweepInv, OwnerFound
  <2>3. CallsInv'
    BY <1>1, <2>1, Untouched, NoDial DEF placeVars
  <2> QED
    BY <1>1, <2>1, <2>2, <2>3, Untouched, CalendarStays
<1> QED
  BY <1>2, <1>3, Untouched, GetsEvent

LEMMA Dedupes ==
    ASSUME SweepTypeOK, NEW w \in Sweepers, Dedupe(w)
    PROVE  \/ Continues(w, "lookup") /\ failures' = failures
           \/ /\ Drops(w) /\ failures' = failures
              /\ Call(w) \in rows \/ event[Meeting(w)].lead \notin Phones
           \/ Drops(w) /\ Fail
<1>1. now' = now /\ AtWork(w)
  BY DEF Dedupe, calendarVars, AtWork
<1> QED
  BY <1>1, GoesOn, GoesNext DEF Dedupe, PCs, calendarVars

LEMMA Dedupe_Inv ==
    ASSUME SweepInv, NEW w \in Sweepers, Dedupe(w)
    PROVE  SweepInv'
<1>1. /\ UNCHANGED <<bookingVars, lag, late, placeVars, guestVars>>
      /\ failures' \in 0..MaxFailures /\ sweep[w].pc = "dedupe"
  BY Untouched, Failed DEF Dedupe, calendarVars
<1>2. Drops(w) \/ Continues(w, "lookup")
  BY Untouched, Dedupes
<1>3. CallsInv'
  BY <1>1, <1>2, Untouched, NoDial DEF placeVars, Continues, Drops
<1> QED
  BY <1>1, <1>2, <1>3, Untouched, KindsStay DEF PCs

LEMMA LooksUp ==
    ASSUME SweepInv, NEW w \in Sweepers, LookUp(w)
    PROVE  /\ UNCHANGED <<bookingVars, lag, late, rows, rung, cut, guestVars>>
           /\ refused' \subseteq Meetings /\ refused \subseteq refused'
           /\ failures' \in 0..MaxFailures
           /\ \/ Continues(w, "insert") /\ failures' = failures
              \/ /\ Drops(w) /\ failures' = failures
                 /\ Call(w) \in rows \/ (Mode(w) = "reminder" => Meeting(w) \in refused')
              \/ Drops(w) /\ Fail
<1>1. /\ now' = now /\ AtWork(w) /\ UNCHANGED <<bookingVars, lag, late, rows, rung, cut, guestVars>>
  BY DEF LookUp, calendarVars, AtWork
<1>2. Meeting(w) \in Meetings
  BY <1>1, Untouched, HasMeeting
<1>3. refused' \subseteq Meetings /\ refused \subseteq refused'
  BY <1>2, Untouched DEF LookUp
<1>4. failures' \in 0..MaxFailures
  BY Untouched, Failed DEF LookUp, calendarVars
<1>5. \/ Continues(w, "insert") /\ failures' = failures
      \/ /\ Drops(w) /\ failures' = failures
         /\ Call(w) \in rows \/ (Mode(w) = "reminder" => Meeting(w) \in refused')
      \/ Drops(w) /\ Fail
  BY <1>1, Untouched, GoesOn, GoesNext DEF LookUp, PCs, calendarVars
<1> QED
  BY <1>1, <1>3, <1>4, <1>5

LEMMA LookUp_Inv ==
    ASSUME SweepInv, NEW w \in Sweepers, LookUp(w)
    PROVE  SweepInv'
<1>1. sweep[w].pc = "lookup" /\ (Drops(w) \/ Continues(w, "insert"))
  BY LooksUp DEF LookUp
<1>2. CallsInv'
  BY <1>1, LooksUp, NoDial DEF Continues, Drops
<1> QED
  BY <1>1, <1>2, LooksUp, Untouched, KindsStay DEF PCs

\* The row is made by at most one, who then is the only one to dial.
LEMMA Inserts ==
    ASSUME SweepInv, NEW w \in Sweepers, Insert(w)
    PROVE  /\ UNCHANGED <<bookingVars, lag, late, rung, refused, guestVars>>
           /\ failures' \in 0..MaxFailures /\ Call(w) \in Calls /\ sweep[w].pc = "insert"
           /\ \/ /\ Continues(w, "dial") /\ Call(w) \notin rows
                 /\ rows' = rows \cup {Call(w)} /\ cut' = cut /\ failures' = failures
              \/ /\ Drops(w) /\ Call(w) \in rows /\ UNCHANGED <<rows, cut, failures>>
              \/ Drops(w) /\ Fail /\ UNCHANGED <<rows, cut>>
              \/ /\ Drops(w) /\ Fail
                 /\ rows' = rows \cup {Call(w)} /\ cut' = cut \cup {Call(w)}
<1>1. /\ now' = now /\ AtWork(w) /\ UNCHANGED <<bookingVars, lag, late, rung, refused, guestVars>>
      /\ sweep[w].pc = "insert"
  BY DEF Insert, calendarVars, AtWork
<1>2. failures' \in 0..MaxFailures
  BY Untouched, Failed DEF Insert, calendarVars
<1> QED
  BY <1>1, <1>2, Untouched, HasMeeting, GoesOn, GoesNext DEF Insert, PCs, calendarVars

\* Who else dials goes on, for the same call.
LEMMA OthersDial ==
    ASSUME NEW w \in Sweepers, Only(w)
    PROVE  \A v \in Sweepers \ {w} : sweep'[v].pc = sweep[v].pc /\ Call(v)' = Call(v)
BY DEF Only, Call, Meeting, Mode

LEMMA Insert_Calls ==
    ASSUME SweepInv, NEW w \in Sweepers, Insert(w)
    PROVE  CallsInv'
<1> PICK c \in Calls : c = Call(w)
  BY Inserts
<1>1. /\ rung' = rung /\ refused' = refused /\ c \in Calls /\ sweep[w].pc = "insert"
      /\ Only(w)
  BY Inserts DEF Continues, Drops
<1>2. \A v \in Sweepers \ {w} : sweep'[v].pc = sweep[v].pc /\ Call(v)' = Call(v)
  BY <1>1, OthersDial
<1>3. CASE UNCHANGED <<rows, cut>> /\ Drops(w)
  <2>1. sweep'[w].pc # "dial"
    BY <1>3 DEF Drops
  <2> QED
    BY <1>1, <1>3, <2>1, NoDial, Untouched
<1>4. CASE Continues(w, "dial") /\ c \notin rows /\ rows' = rows \cup {c} /\ cut' = cut
  <2>1. sweep'[w].pc = "dial" /\ Call(w)' = c
    BY <1>4 DEF Continues, Call, Meeting, Mode
  <2>2. PlaceTypeOK' /\ OneCallPerMeeting' /\ RungHasRow'
    BY <1>1, <1>4, Untouched DEF CallsInv, PlaceTypeOK, OneCallPerMeeting, RungHasRow
  <2>3. rung[c] = 0
    BY <1>1, <1>4, Untouched DEF CallsInv, PlaceTypeOK, RungHasRow
  <2>4. DialsOnce'
    BY <1>1, <1>2, <1>4, <2>1, <2>3, Untouched DEF CallsInv, DialsOnce
  <2>5. \A d \in rows : Dialling(d) => Dialling(d)'
    BY <1>1, <1>2, <2>1 DEF Dialling
  <2>6. RowsAccounted'
    <3>1. Dialling(c)'
      BY <2>1 DEF Dialling
    <3> QED
      BY <1>1, <1>4, <2>5, <3>1, Untouched DEF CallsInv, RowsAccounted
  <2> QED
    BY <2>2, <2>4, <2>6 DEF CallsInv
<1>5. CASE Drops(w) /\ rows' = rows \cup {c} /\ cut' = cut \cup {c}
  <2>1. sweep'[w].pc # "dial"
    BY <1>5 DEF Drops
  <2>2. PlaceTypeOK' /\ OneCallPerMeeting' /\ RungHasRow'
    BY <1>1, <1>5, Untouched DEF CallsInv, PlaceTypeOK, OneCallPerMeeting, RungHasRow
  <2>3. DialsOnce'
    BY <1>1, <1>2, <1>5, <2>1, Untouched DEF CallsInv, DialsOnce
  <2>4. \A d \in rows : Dialling(d) => Dialling(d)'
    BY <1>1, <1>2 DEF Dialling
  <2>5. RowsAccounted'
    BY <1>1, <1>5, <2>4, Untouched DEF CallsInv, RowsAccounted
  <2> QED
    BY <2>2, <2>3, <2>5 DEF CallsInv
<1> QED
  BY <1>3, <1>4, <1>5, Inserts

LEMMA Insert_Inv ==
    ASSUME SweepInv, NEW w \in Sweepers, Insert(w)
    PROVE  SweepInv'
<1>1. Drops(w) \/ Continues(w, "dial")
  BY Inserts
<1> QED
  BY <1>1, Inserts, Insert_Calls, Untouched, KindsStay DEF PCs

\* A process that dials is done with it: it rang, or it was cut.
LEMMA DialEnds ==
    ASSUME SweepInv, NEW w \in Sweepers, Only(w), sweep[w].pc = "dial", sweep'[w].pc # "dial",
           UNCHANGED <<rows, refused>>, Call(w) \in Calls,
           \/ rung' = [rung EXCEPT ![Call(w)] = @ + 1] /\ cut' = cut
           \/ rung' = rung /\ cut' = cut \cup {Call(w)}
    PROVE  CallsInv'
<1> DEFINE c == Call(w)
<1>1. \A v \in Sweepers \ {w} : sweep'[v].pc = sweep[v].pc /\ Call(v)' = Call(v)
  BY OthersDial
<1>2. /\ c \in rows /\ rung[c] = 0 /\ rung \in [Calls -> Nat] /\ rows \subseteq Calls
      /\ \A v \in Sweepers : sweep[v].pc = "dial" /\ Call(v) = c => v = w
  BY Untouched DEF CallsInv, DialsOnce, PlaceTypeOK
<1>3. \A d \in Calls \ {c} : Dialling(d) => Dialling(d)'
  BY <1>1 DEF Dialling
<1>4. /\ \A d \in Calls \ {c} : rung'[d] = rung[d]
      /\ (rung'[c] = 1 \/ (rung'[c] = 0 /\ c \in cut'))
      /\ cut \subseteq cut' /\ rung' \in [Calls -> Nat]
  BY <1>2
<1>5. PlaceTypeOK'
  BY <1>4, Untouched DEF PlaceTypeOK
<1>6. OneCallPerMeeting' /\ RungHasRow'
  BY <1>2, <1>4, Untouched DEF CallsInv, OneCallPerMeeting, RungHasRow
<1>7. DialsOnce'
  BY <1>1, <1>2, <1>4, Untouched DEF CallsInv, DialsOnce, PlaceTypeOK
<1>8. RowsAccounted'
  BY <1>2, <1>3, <1>4, Untouched DEF CallsInv, RowsAccounted
<1> QED
  BY <1>5, <1>6, <1>7, <1>8 DEF CallsInv

LEMMA Dials ==
    ASSUME SweepInv, NEW w \in Sweepers, Dial(w)
    PROVE  /\ UNCHANGED <<bookingVars, lag, late, rows, refused, guestVars>>
           /\ failures' \in 0..MaxFailures /\ Call(w) \in Calls /\ sweep[w].pc = "dial"
           /\ Drops(w)
           /\ \/ rung' = [rung EXCEPT ![Call(w)] = @ + 1] /\ cut' = cut
              \/ rung' = rung /\ cut' = cut \cup {Call(w)}
<1>1. /\ now' = now /\ AtWork(w) /\ UNCHANGED <<bookingVars, lag, late, rows, refused, guestVars>>
      /\ sweep[w].pc = "dial" /\ GoNext(w)
  BY DEF Dial, AtWork
<1>2. failures' \in 0..MaxFailures
  BY Untouched, Failed DEF Dial
<1> QED
  BY <1>1, <1>2, Untouched, HasMeeting, GoesNext DEF Dial

LEMMA Dial_Inv ==
    ASSUME SweepInv, NEW w \in Sweepers, Dial(w)
    PROVE  SweepInv'
<1>1. CallsInv'
  BY Dials, DialEnds DEF Drops
<1> QED
  BY <1>1, Dials, Untouched, KindsStay

LEMMA Crash_Inv ==
    ASSUME SweepInv, NEW w \in Sweepers, Crash(w)
    PROVE  SweepInv'
<1>1. /\ UNCHANGED <<lag, late, rows, rung, refused, guestVars, bookingVars>> /\ now' = now
      /\ sweep' = [sweep EXCEPT ![w] = Idle]
      /\ cut' = IF sweep[w].pc = "dial" THEN cut \cup {Call(w)} ELSE cut
  BY DEF Crash
<1>2. failures' \in 0..MaxFailures
  BY Untouched, Failed DEF Crash, Fail
<1>3. Only(w) /\ sweep'[w].pc = "idle" /\ sweep'[w].todo = {}
  BY <1>1, Rests, Untouched
<1>4. CallsInv'
  <2>1. CASE sweep[w].pc = "dial"
    <3>1. Call(w) \in Calls
      BY <2>1, Untouched, HasMeeting DEF AtWork
    <3> QED
      BY <1>1, <1>3, <2>1, <3>1, DialEnds
  <2>2. CASE sweep[w].pc # "dial"
    BY <1>1, <1>3, <2>2, Untouched, NoDial
  <2> QED
    BY <2>1, <2>2
<1> QED
  BY <1>1, <1>2, <1>3, <1>4, Untouched, KindsStay

\* An event that changes keeps what it is: when, where and for whom; a prospect who
\* declined comes back only where that is on record, an event that was cancelled
\* never.
SameEvent(m) ==
    /\ Exists(m)'
    /\ event'[m].calendar = event[m].calendar
    /\ event'[m].lead = event[m].lead
    /\ event'[m].start = event[m].start
    /\ event'[m].made = event[m].made
    /\ event[m].declined => event'[m].declined \/ m \in undone'
    /\ event[m].cancelled => event'[m].cancelled

\* A guest list is exchanged.
LEMMA Writes ==
    ASSUME BookingInv, unseen \in [Meetings -> SUBSET AEs], undone \subseteq Meetings,
           NEW m \in Meetings, Exists(m), NEW guests \in SUBSET AEs,
           NEW declined \in BOOLEAN, NEW others, Write(m, guests, declined, others),
           booking' = booking, now' = now, failures' \in 0..MaxFailures
    PROVE  /\ BookingInv' /\ SameEvent(m) /\ event'[m].guests = guests
           /\ \A n \in Meetings \ {m} : event'[n] = event[n]
           /\ unseen' \in [Meetings -> SUBSET AEs] /\ undone' \subseteq Meetings
           /\ undone \subseteq undone'
           /\ \A n \in Meetings : unseen[n] \subseteq unseen'[n]
<1> DEFINE e == [event[m] EXCEPT !.guests = guests, !.declined = declined]
<1>1. /\ event' = [event EXCEPT ![m] = e]
      /\ raced' = raced \cup Rivals(event[m].lead, event[m].start)
      /\ raced' \subseteq Requests
      /\ event \in [Meetings -> Event \cup {NoEvent}]
  BY DEF Write, Rivals, BookingInv, BookingTypeOK
<1>2. /\ e \in Event /\ e.calendar = event[m].calendar /\ e.lead = event[m].lead
      /\ e.start = event[m].start /\ e.declined = declined
      /\ e.cancelled = event[m].cancelled /\ e.made = event[m].made /\ e.guests = guests
  BY <1>1 DEF Event, Exists
<1> HIDE DEF e
<1>3. BookingInv' /\ (Exists(m)' <=> Exists(m))
  BY <1>1, <1>2, Edited
<1>4. event'[m] = e /\ \A n \in Meetings \ {m} : event'[n] = event[n]
  BY <1>1
<1>5. event[m].declined => declined \/ m \in undone'
  BY DEF Write
<1>6. /\ undone' \subseteq Meetings /\ undone \subseteq undone'
      /\ unseen' \in [Meetings -> SUBSET AEs]
      /\ \A n \in Meetings : unseen[n] \subseteq unseen'[n]
  BY DEF Write
<1> QED
  BY <1>2, <1>3, <1>4, <1>5, <1>6 DEF SameEvent

\* Guests changed while others are between reading and writing them.
LEMMA GuestsChange ==
    ASSUME SweepInv, NEW m \in Meetings, Exists(m), NEW guests \in SUBSET AEs,
           NEW declined \in BOOLEAN, NEW others, Write(m, guests, declined, others),
           booking' = booking, now' = now, failures' \in 0..MaxFailures,
           UNCHANGED <<lag, late>>, CallsInv',
           sweep' \in [Sweepers -> SweepRow],
           \A v \in Sweepers :
              /\ \A s \in sweep'[v].todo : s \in Kept /\ True(s)
              /\ AtWork(v)' => sweep'[v].item \in Taken /\ True(sweep'[v].item)
              /\ sweep'[v].pc \in {"get", "patch"} => sweep'[v] = sweep[v]
              /\ sweep'[v].pc = "patch" /\ Meeting(v) = m => v \in others
    PROVE  SweepInv'
<1>1. /\ BookingInv' /\ SameEvent(m) /\ event'[m].guests = guests
      /\ \A n \in Meetings \ {m} : event'[n] = event[n]
      /\ unseen' \in [Meetings -> SUBSET AEs] /\ undone' \subseteq Meetings
      /\ \A n \in Meetings : unseen[n] \subseteq unseen'[n]
  <2>1. BookingInv /\ unseen \in [Meetings -> SUBSET AEs] /\ undone \subseteq Meetings
    BY DEF SweepInv, SweepTypeOK
  <2> QED
    BY <2>1, Writes
<1>2. SweepTypeOK' /\ OwnerFound'
  BY <1>1, Untouched DEF SweepInv, SweepTypeOK, OwnerFound
<1>3. others # {} => guests \ event[m].guests \subseteq unseen'[m]
  BY Untouched DEF Write, SweepTypeOK
<1>4. SnapshotsTrue'
  <2>1. \A n \in Meetings : Exists(n) => Exists(n)' /\ event'[n].start = event[n].start
    BY <1>1 DEF SameEvent, Exists
  <2> QED
    BY <2>1, SnapshotsStay DEF SweepInv
<1>5. PatchFresh'
  <2> SUFFICES ASSUME NEW v \in Sweepers, sweep'[v].pc = "patch"
               PROVE  event'[Meeting(v)'].guests \ sweep'[v].guests
                          \subseteq unseen'[Meeting(v)']
    BY DEF PatchFresh, Meeting
  <2>1. sweep'[v] = sweep[v] /\ Meeting(v)' = Meeting(v)
    BY DEF Meeting
  <2>2. /\ Meeting(v) \in Meetings
        /\ event[Meeting(v)].guests \ sweep[v].guests \subseteq unseen[Meeting(v)]
    BY <2>1, Untouched, HasMeeting DEF AtWork, SweepInv, PatchFresh
  <2>3. CASE Meeting(v) = m
    <3>1. others # {}
      BY <2>3
    <3> QED
      BY <1>1, <1>3, <2>1, <2>2, <2>3, <3>1
  <2>4. CASE Meeting(v) # m
    BY <1>1, <2>1, <2>2, <2>4
  <2> QED
    BY <2>3, <2>4
<1> QED
  BY <1>1, <1>2, <1>4, <1>5 DEF SweepInv

LEMMA PatchesEvent ==
    ASSUME SweepInv, NEW w \in Sweepers, PatchEvent(w)
    PROVE  /\ Continues(w, "dedupe") /\ UNCHANGED <<now, booking, lag, late, placeVars>>
           /\ Meeting(w) \in Meetings /\ Exists(Meeting(w)) /\ sweep[w].pc = "patch"
           /\ failures' \in 0..MaxFailures
           /\ failures' = failures \/ Fail
           /\ \/ /\ Write(Meeting(w), sweep[w].guests \cup {sweep[w].owner}, sweep[w].answer,
                          Editing(Meeting(w)) \ {w})
                 /\ sweep[w].guests \cup {sweep[w].owner} \in SUBSET AEs
                 /\ sweep[w].answer \in BOOLEAN
              \/ UNCHANGED <<event, raced, guestVars>>
<1>1. /\ AtWork(w) /\ sweep[w].pc = "patch" /\ now' = now /\ GoPlace(w, "dedupe")
  BY DEF PatchEvent, AtWork
<1>2. Continues(w, "dedupe")
  BY <1>1, Untouched, GoesOn DEF PCs
<1>3. sweep[w].guests \cup {sweep[w].owner} \in SUBSET AEs /\ sweep[w].answer \in BOOLEAN
  BY <1>1, Untouched DEF SweepInv, OwnerFound, SweepTypeOK, SweepRow, Assignees
<1>4. failures' \in 0..MaxFailures /\ (failures' = failures \/ Fail)
  BY Untouched, Failed DEF PatchEvent
<1>5. Meeting(w) \in Meetings /\ Exists(Meeting(w))
  BY <1>1, Untouched, HasMeeting
<1> QED
  BY <1>1, <1>2, <1>3, <1>4, <1>5 DEF PatchEvent

LEMMA PatchEvent_Inv ==
    ASSUME SweepInv, NEW w \in Sweepers, PatchEvent(w)
    PROVE  SweepInv'
<1>1. /\ Continues(w, "dedupe") /\ UNCHANGED <<now, booking, lag, late, placeVars>>
      /\ Meeting(w) \in Meetings /\ Exists(Meeting(w)) /\ sweep[w].pc = "patch"
      /\ failures' \in 0..MaxFailures
  BY PatchesEvent
<1>2. CallsInv'
  BY <1>1, Untouched, NoDial DEF Continues, placeVars
<1>3. CASE UNCHANGED <<event, raced, guestVars>>
  BY <1>1, <1>2, <1>3, Untouched, KindsStay DEF bookingVars, PCs
<1>4. ASSUME NEW guests \in SUBSET AEs, NEW declined \in BOOLEAN,
             Write(Meeting(w), guests, declined, Editing(Meeting(w)) \ {w})
      PROVE  SweepInv'
  <2> DEFINE others == Editing(Meeting(w)) \ {w}
  <2> PICK m \in Meetings : m = Meeting(w)
    BY <1>1
  <2>1. \A v \in Sweepers :
          /\ \A s \in sweep'[v].todo : s \in Kept /\ True(s)
          /\ AtWork(v)' => sweep'[v].item \in Taken /\ True(sweep'[v].item)
          /\ sweep'[v].pc \in {"get", "patch"} => v # w /\ sweep'[v] = sweep[v]
    <3>1. \A v \in Sweepers : sweep[v].todo \subseteq Kept
      BY Untouched DEF SweepTypeOK, SweepRow
    <3> QED
      BY <1>1, <3>1, Untouched DEF SnapshotsTrue, Continues, Only, AtWork
  <2>2. \A v \in Sweepers : sweep'[v].pc = "patch" /\ Meeting(v) = m => v \in others
    BY <2>1 DEF Editing
  <2>3. Write(m, guests, declined, others) /\ Exists(m)
    BY <1>1, <1>4
  <2> HIDE DEF others
  <2> QED
    BY <1>1, <1>2, <2>1, <2>2, <2>3, GuestsChange DEF Continues, Only
<1> QED
  BY <1>3, <1>4, PatchesEvent

LEMMA ByHandWrites ==
    ASSUME SweepInv, NEW m \in ByHand, NEW ae \in AEs, InviteByHand(m, ae)
    PROVE  /\ m \in Meetings /\ Exists(m) /\ event[m].guests \cup {ae} \in SUBSET AEs
           /\ event[m].declined \in BOOLEAN
           /\ Write(m, event[m].guests \cup {ae}, event[m].declined, Editing(m))
           /\ UNCHANGED <<now, booking, failures, sweep, lag, late, placeVars>>
<1>1. m \in Meetings /\ Exists(m)
  BY SchedulerAssumption DEF SchedulerAssumption, InviteByHand, Standing
<1> QED
  BY <1>1, Untouched DEF InviteByHand, BookingTypeOK, Event, Exists

LEMMA InviteByHand_Inv ==
    ASSUME SweepInv, NEW m \in ByHand, NEW ae \in AEs, InviteByHand(m, ae)
    PROVE  SweepInv'
<1> DEFINE guests == event[m].guests \cup {ae}
           declined == event[m].declined
           others == Editing(m)
<1>1. /\ m \in Meetings /\ Exists(m) /\ Write(m, guests, declined, others)
      /\ guests \in SUBSET AEs /\ declined \in BOOLEAN /\ sweep' = sweep
      /\ UNCHANGED <<now, booking, failures, lag, late, placeVars>>
  BY ByHandWrites
<1>2. /\ sweep' \in [Sweepers -> SweepRow]
      /\ \A v \in Sweepers :
            /\ \A s \in sweep'[v].todo : s \in Kept /\ True(s)
            /\ AtWork(v)' => sweep'[v].item \in Taken /\ True(sweep'[v].item)
            /\ sweep'[v].pc \in {"get", "patch"} => sweep'[v] = sweep[v]
            /\ sweep'[v].pc = "patch" /\ Meeting(v) = m => v \in others
  BY <1>1, Untouched DEF SnapshotsTrue, AtWork, SweepTypeOK, SweepRow, Editing
<1>3. CallsInv'
  BY <1>1, Untouched, CallsSame DEF placeVars
<1>4. failures' \in 0..MaxFailures
  BY <1>1, Untouched
<1> HIDE DEF guests, declined, others
<1> QED
  BY <1>1, <1>2, <1>3, <1>4, GuestsChange

\* Bookings, AEs and prospects leave the guests alone; what is new is made now.
LEMMA CalendarMoves ==
    ASSUME BookingInv, People \/ \E r \in Requests : BookingStep(r)
    PROVE  /\ \A m \in Meetings :
                 /\ Exists(m) => SameEvent(m) /\ event'[m].guests = event[m].guests
                 /\ ~Exists(m) /\ Exists(m)' => event'[m].made = now
           /\ now' = now
<1> DEFINE Moves == \A m \in Meetings :
              /\ Exists(m) => SameEvent(m) /\ event'[m].guests = event[m].guests
              /\ ~Exists(m) /\ Exists(m)' => event'[m].made = now
<1>1. BookingTypeOK
  BY DEF BookingInv
<1>2. ASSUME event' = event
      PROVE  Moves
  BY <1>2 DEF SameEvent, Exists
<1>3. ASSUME NEW e \in Event, NewEvent(e), e.made = now
      PROVE  Moves
  <2>1. PICK new \in Meetings :
          /\ ~Exists(new) /\ event'[new] = e
          /\ \A n \in Meetings \ {new} : event'[n] = event[n]
    BY <1>1, <1>3, NewEventAdds
  <2> QED
    BY <1>3, <2>1 DEF SameEvent, Exists
<1>4. ASSUME NEW m \in Meetings, Decline(m) \/ Cancel(m)
      PROVE  Moves /\ now' = now
  <2>1. /\ \/ event' = [event EXCEPT ![m].declined = TRUE]
           \/ event' = [event EXCEPT ![m].cancelled = TRUE]
        /\ Exists(m) /\ event[m] \in Event /\ now' = now
        /\ event \in [Meetings -> Event \cup {NoEvent}]
    BY <1>1, <1>4 DEF Decline, Cancel, Standing, Exists, BookingTypeOK
  <2>2. \A n \in Meetings \ {m} : event'[n] = event[n]
    BY <2>1
  <2>3. /\ event'[m].calendar = event[m].calendar /\ event'[m].lead = event[m].lead
        /\ event'[m].start = event[m].start /\ event'[m].made = event[m].made
        /\ event'[m].guests = event[m].guests
        /\ event[m].declined => event'[m].declined
        /\ event[m].cancelled => event'[m].cancelled
    BY <2>1 DEF Event
  <2>4. Exists(m)' <=> Exists(m)
    BY <1>4, Decline_Inv
  <2> QED
    BY <2>1, <2>2, <2>3, <2>4 DEF SameEvent, Exists
<1>5. ASSUME NEW ae \in AEs, NEW lead \in Leads, NEW start \in AeStarts,
             AeBooks(ae, lead, start)
      PROVE  Moves /\ now' = now
  <2> DEFINE e == [calendar |-> ae, lead |-> lead, start |-> start,
                   made |-> now, guests |-> {},
                   declined |-> FALSE, cancelled |-> FALSE, by |-> None]
  <2>1. NewEvent(e) /\ e \in Event /\ e.made = now /\ now' = now
    BY <1>1, <1>5, BookingAssumption
    DEF AeBooks, BookingTypeOK, BookingAssumption, Event
  <2> HIDE DEF e, Moves
  <2> QED
    BY <1>3, <2>1
<1>6. ASSUME NEW r \in Requests, BookingStep(r)
      PROVE  Moves /\ now' = now
  <2>1. CASE event' = event
    BY <1>2, <1>6, <2>1
    DEF BookingStep, RefuseEarly, BeginBooking, FoundDemo, FoundNone, CheckFails,
        QueryFreeBusy, InsertEvent
  <2>2. CASE event' # event
    <3> DEFINE e == [calendar |-> Shared, lead |-> LeadOf[r],
                     start |-> StartOf[r], made |-> now, guests |-> {AeOf[r]} \ {None},
                     declined |-> FALSE, cancelled |-> FALSE, by |-> r]
    <3>1. NewEvent(e) /\ e.made = now /\ now' = now
      BY <1>6, <2>2
      DEF BookingStep, RefuseEarly, BeginBooking, FoundDemo, FoundNone, CheckFails,
          QueryFreeBusy, InsertEvent
    <3>2. e \in Event
      <4>1. now \in Nat
        BY <1>1, BookingAssumption DEF BookingTypeOK, BookingAssumption
      <4> QED
        BY <4>1, BookingAssumption DEF BookingAssumption, Event
    <3> HIDE DEF e, Moves
    <3> QED
      BY <1>3, <3>1, <3>2
  <2> QED
    BY <2>1, <2>2
<1> HIDE DEF Moves
<1>7. Moves /\ now' = now
  BY <1>4, <1>5, <1>6 DEF People
<1> QED
  BY <1>7 DEF Moves

LEMMA Calendar_Inv ==
    ASSUME SweepInv, People \/ (\E r \in Requests : BookingStep(r)), UNCHANGED schedulerVars
    PROVE  SweepInv'
<1>1. BookingInv'
  BY People_Inv, BookingStep_Inv DEF SweepInv
<1>2. \A m \in Meetings : Exists(m) => /\ Exists(m)' /\ event'[m].start = event[m].start
                                       /\ event'[m].guests = event[m].guests
  BY CalendarMoves DEF SweepInv, SameEvent
<1>3. SweepTypeOK' /\ OwnerFound'
  BY DEF SweepInv, SweepTypeOK, OwnerFound, schedulerVars, guestVars
<1>4. CallsInv'
  BY Untouched, CallsSame DEF schedulerVars, placeVars
<1>5. SnapshotsTrue'
  <2>1. \A w \in Sweepers :
          /\ \A s \in sweep'[w].todo : s \in Kept /\ True(s)
          /\ AtWork(w)' => sweep'[w].item \in Taken /\ True(sweep'[w].item)
    BY Untouched DEF SnapshotsTrue, AtWork, SweepTypeOK, SweepRow, schedulerVars
  <2> QED
    BY <1>2, <2>1, Untouched, SnapshotsStay
<1>6. PatchFresh'
  <2>1. \A w \in Sweepers : AtWork(w) => Meeting(w) \in Meetings /\ Exists(Meeting(w))
    BY Untouched, HasMeeting
  <2> QED
    BY <1>2, <2>1 DEF SweepInv, PatchFresh, Meeting, schedulerVars, guestVars, AtWork
<1> QED
  BY <1>1, <1>3, <1>4, <1>5, <1>6 DEF SweepInv

\* What time does to the sweeps.
LEMMA Ticks ==
    ASSUME SweepInv, Tick
    PROVE  /\ now' = now + 1 /\ sweep' \in [Sweepers -> SweepRow]
           /\ late' \in BOOLEAN /\ (late => late')
           /\ lag' \in 0..MaxSweep /\ (~late' => lag' = lag + 1)
           /\ UNCHANGED <<event, booking, failures, raced, placeVars, guestVars>>
           /\ \A w \in Sweepers :
                 /\ sweep'[w].pc = sweep[w].pc /\ sweep'[w].item = sweep[w].item
                 /\ sweep'[w].todo = sweep[w].todo /\ sweep'[w].owner = sweep[w].owner
                 /\ sweep'[w].guests = sweep[w].guests
                 /\ sweep[w].pc # "idle" /\ ~late' => sweep'[w].ticks = sweep[w].ticks + 1
<1> DEFINE Aged(n) == IF late' THEN 0 ELSE n + 1
           Ticked(w) == IF sweep[w].pc = "idle" THEN sweep[w]
                        ELSE [sweep[w] EXCEPT !.ticks = Aged(@)]
<1>1. /\ now' = now + 1 /\ lag' = Aged(lag)
      /\ UNCHANGED <<event, booking, failures, raced, placeVars, guestVars>>
      /\ sweep' = [w \in Sweepers |-> Ticked(w)]
      /\ late' = (late \/ lag = MaxSweep \/ \E w \in Sweepers : sweep[w].ticks = MaxSweep)
      /\ sweep \in [Sweepers -> SweepRow] /\ lag \in 0..MaxSweep /\ late \in BOOLEAN
  BY Untouched DEF Tick, SweepTypeOK
<1>2. late' \in BOOLEAN /\ (late => late')
  BY <1>1
<1>3. \A n \in 0..MaxSweep : /\ late' \/ n # MaxSweep => Aged(n) \in 0..MaxSweep
                             /\ ~late' => Aged(n) = n + 1
  BY SchedulerAssumption DEF SchedulerAssumption
<1>4. ~late' => lag # MaxSweep /\ \A w \in Sweepers : sweep[w].ticks # MaxSweep
  BY <1>1
<1> HIDE DEF Aged
<1>5. \A w \in Sweepers :
        /\ Ticked(w) \in SweepRow
        /\ Ticked(w).pc = sweep[w].pc /\ Ticked(w).item = sweep[w].item
        /\ Ticked(w).todo = sweep[w].todo /\ Ticked(w).owner = sweep[w].owner
        /\ Ticked(w).guests = sweep[w].guests
        /\ sweep[w].pc # "idle" /\ ~late' => Ticked(w).ticks = sweep[w].ticks + 1
  <2> SUFFICES ASSUME NEW w \in Sweepers
               PROVE  /\ Ticked(w) \in SweepRow
                      /\ Ticked(w).pc = sweep[w].pc /\ Ticked(w).item = sweep[w].item
                      /\ Ticked(w).todo = sweep[w].todo /\ Ticked(w).owner = sweep[w].owner
                      /\ Ticked(w).guests = sweep[w].guests
                      /\ sweep[w].pc # "idle" /\ ~late'
                         => Ticked(w).ticks = sweep[w].ticks + 1
    OBVIOUS
  <2> DEFINE aged == Aged(sweep[w].ticks)
  <2>1. /\ sweep[w] \in SweepRow /\ aged \in 0..MaxSweep
        /\ ~late' => aged = sweep[w].ticks + 1
    BY <1>1, <1>3, <1>4 DEF SweepRow
  <2> HIDE DEF aged
  <2>2. Ticked(w) = IF sweep[w].pc = "idle" THEN sweep[w] ELSE [sweep[w] EXCEPT !.ticks = aged]
    BY DEF aged
  <2> HIDE DEF Ticked
  <2> QED
    BY <2>1, <2>2 DEF SweepRow
<1> HIDE DEF Ticked
<1>6. sweep' \in [Sweepers -> SweepRow] /\ \A w \in Sweepers : sweep'[w] = Ticked(w)
  BY <1>1, <1>5
<1>7. lag' \in 0..MaxSweep /\ (~late' => lag' = lag + 1)
  BY <1>1, <1>3, <1>4
<1> QED
  BY <1>1, <1>2, <1>5, <1>6, <1>7

LEMMA Tick_Inv ==
    ASSUME SweepInv, Tick
    PROVE  SweepInv'
<1>1. BookingInv'
  BY BookingTick_Inv, Ticks DEF SweepInv, Tick
<1>2. SweepTypeOK' /\ OwnerFound'
  BY Ticks, Untouched DEF SweepInv, SweepTypeOK, OwnerFound, guestVars
<1>3. CallsInv'
  BY Ticks, Untouched, CallsSame DEF placeVars
<1>4. SnapshotsTrue'
  <2>1. \A w \in Sweepers :
          /\ \A s \in sweep'[w].todo : s \in Kept /\ True(s)
          /\ AtWork(w)' => sweep'[w].item \in Taken /\ True(sweep'[w].item)
    BY Ticks, Untouched DEF SnapshotsTrue, AtWork, SweepTypeOK, SweepRow
  <2> QED
    BY <2>1, Ticks, Untouched, SnapshotsStay DEF Exists
<1>5. PatchFresh'
  BY Ticks DEF SweepInv, PatchFresh, Meeting, guestVars
<1> QED
  BY <1>1, <1>2, <1>3, <1>4, <1>5 DEF SweepInv

LEMMA SchedulerInit_Inv == SchedulerInit => SweepInv
<1> SUFFICES ASSUME SchedulerInit
             PROVE  SweepInv
  OBVIOUS
<1>1. BookingInv
  BY BookingInit_Inv DEF SchedulerInit
<1>2. SweepTypeOK
  <2>1. sweep \in [Sweepers -> SweepRow]
    BY IdleRow DEF SchedulerInit, SweepInit
  <2>2. 0 \in 0..MaxSweep
    BY SchedulerAssumption DEF SchedulerAssumption
  <2> QED
    BY <2>1, <2>2 DEF SchedulerInit, SweepInit, SweepTypeOK
<1>3. CallsInv
  BY DEF SchedulerInit, SweepInit, CallsInv, PlaceTypeOK, OneCallPerMeeting, RungHasRow,
         DialsOnce, RowsAccounted, Idle
<1> QED
  BY <1>1, <1>2, <1>3
  DEF SchedulerInit, SweepInit, SweepInv, SnapshotsTrue, OwnerFound, PatchFresh, Idle, AtWork

LEMMA Unchanged_Inv == SweepInv /\ UNCHANGED <<calendarVars, schedulerVars>> => SweepInv'
<1> SUFFICES ASSUME SweepInv, UNCHANGED <<calendarVars, schedulerVars>>
             PROVE  SweepInv'
  OBVIOUS
<1>1. BookingInv'
  BY BookingUnchanged_Inv DEF calendarVars, SweepInv
<1>2. CallsInv'
  BY Untouched, CallsSame DEF schedulerVars, placeVars
<1> QED
  BY <1>1, <1>2
  DEF calendarVars, bookingVars, schedulerVars, guestVars, SweepInv, SweepTypeOK,
      SnapshotsTrue, OwnerFound, PatchFresh, AtWork, True, Exists, Meeting

LEMMA Next_Inv ==
    SweepInv /\ [SchedulerNext]_<<calendarVars, schedulerVars>> => SweepInv'
<1> SUFFICES ASSUME SweepInv, SchedulerNext
             PROVE  SweepInv'
  BY Unchanged_Inv
<1>1. CASE (People \/ \E r \in Requests : BookingStep(r)) /\ UNCHANGED schedulerVars
  BY <1>1, Calendar_Inv
<1>2. ASSUME NEW w \in Sweepers, SweepStep(w) \/ Crash(w)
      PROVE  SweepInv'
  BY <1>2, List_Inv, TakeItem_Inv, EndSweep_Inv, ResolveOwner_Inv, GetEvent_Inv,
     PatchEvent_Inv, Dedupe_Inv, LookUp_Inv, Insert_Inv, Dial_Inv, Crash_Inv DEF SweepStep
<1>3. ASSUME NEW m \in ByHand, NEW ae \in AEs, InviteByHand(m, ae)
      PROVE  SweepInv'
  BY <1>3, InviteByHand_Inv
<1> QED
  BY <1>1, <1>2, <1>3, Tick_Inv DEF SchedulerNext

LEMMA SweepInvariant == SchedulerSpec => []SweepInv
BY SchedulerInit_Inv, Next_Inv, PTL DEF SchedulerSpec
-----------------------------------------------------------------------------
(* Theorems about the calls, the guests and the bookings. *)

\* Every variable of the scheduler and of the calendar has its type, and what a
\* sweep deals with is an event.
THEOREM SchedulerTypes == SchedulerSpec => []SchedulerTypeOK
<1>1. SweepInv => SchedulerTypeOK
  <2> SUFFICES ASSUME SweepInv
               PROVE  SchedulerTypeOK
    OBVIOUS
  <2>1. \A w \in Sweepers :
          /\ sweep[w].pc \in PCs
          /\ sweep[w].guests \subseteq AEs /\ sweep[w].owner \in Assignees
          /\ sweep[w].ticks \in 0..MaxSweep
    BY Untouched DEF SweepTypeOK, SweepRow
  <2>2. \A w \in Sweepers : sweep[w].pc \notin {"idle", "next"} => Exists(Meeting(w))
    BY Untouched, HasMeeting DEF AtWork
  <2> QED
    BY <2>1, <2>2, Untouched DEF SchedulerTypeOK, SweepTypeOK, PlaceTypeOK
<1> QED
  BY <1>1, SweepInvariant, PTL

\* CallScheduler.place and CallService.placeCall under it: one reminder and one
\* reschedule call for each meeting, however many processes find no row, wherever
\* they die and whatever answer is lost.
THEOREM OneCall == SchedulerSpec => []OneCallPerMeeting
<1>1. SweepInv => OneCallPerMeeting
  BY DEF SweepInv, CallsInv
<1> QED
  BY <1>1, SweepInvariant, PTL

\* Who changes events: bookings and people, people who invite, and sweeps that do.
LEMMA ChangesEvents ==
    ASSUME SchedulerNext, event' # event
    PROVE  \/ People \/ \E r \in Requests : BookingStep(r)
           \/ \E m \in ByHand, ae \in AEs : InviteByHand(m, ae)
           \/ \E w \in Sweepers : PatchEvent(w)
BY DEF SchedulerNext, SweepStep, List, TakeItem, EndSweep, ResolveOwner, GetEvent, Dedupe,
       LookUp, Insert, Dial, Crash, Tick, calendarVars, bookingVars

\* What an invitation does, by hand or by a sweep.
LEMMA Invitations ==
    ASSUME SweepInv,
           \/ \E m \in ByHand, ae \in AEs : InviteByHand(m, ae)
           \/ \E w \in Sweepers : PatchEvent(w) /\ event' # event
    PROVE  \E m \in Meetings : \E guests \in SUBSET AEs :
              /\ Exists(m) /\ SameEvent(m) /\ event'[m].guests = guests
              /\ \A n \in Meetings \ {m} : event'[n] = event[n]
              /\ event[m].guests \ guests \subseteq unseen'[m]
              /\ undone \subseteq undone'
<1> DEFINE Done(m, guests) ==
              /\ Exists(m) /\ SameEvent(m) /\ event'[m].guests = guests
              /\ \A n \in Meetings \ {m} : event'[n] = event[n]
              /\ event[m].guests \ guests \subseteq unseen'[m]
              /\ undone \subseteq undone'
<1>1. /\ BookingInv /\ unseen \in [Meetings -> SUBSET AEs] /\ undone \subseteq Meetings
      /\ failures \in 0..MaxFailures
  BY Untouched DEF SweepInv, SweepTypeOK
<1>2. ASSUME NEW m \in ByHand, NEW ae \in AEs, InviteByHand(m, ae)
      PROVE  \E n \in Meetings : \E guests \in SUBSET AEs : Done(n, guests)
  <2> DEFINE guests == event[m].guests \cup {ae}
             declined == event[m].declined
             others == Editing(m)
  <2>1. /\ m \in Meetings /\ Exists(m) /\ guests \in SUBSET AEs /\ declined \in BOOLEAN
        /\ Write(m, guests, declined, others)
        /\ UNCHANGED <<now, booking, failures>> /\ event[m].guests \subseteq guests
    BY <1>2, ByHandWrites
  <2> HIDE DEF guests, declined, others
  <2>2. Done(m, guests)
    BY <1>1, <2>1, Writes
  <2> QED
    BY <2>1, <2>2
<1>3. ASSUME NEW w \in Sweepers, PatchEvent(w), event' # event
      PROVE  \E n \in Meetings : \E guests \in SUBSET AEs : Done(n, guests)
  <2> DEFINE guests == sweep[w].guests \cup {sweep[w].owner}
             declined == sweep[w].answer
             others == Editing(Meeting(w)) \ {w}
  <2> PICK m \in Meetings : m = Meeting(w)
    BY <1>3, PatchesEvent
  <2>1. /\ Exists(m) /\ guests \in SUBSET AEs /\ declined \in BOOLEAN
        /\ Write(m, guests, declined, others)
        /\ UNCHANGED <<now, booking>> /\ failures' \in 0..MaxFailures
        /\ sweep[w].pc = "patch" /\ sweep[w].guests \subseteq guests
    BY <1>3, PatchesEvent
  <2>2. event[m].guests \ guests \subseteq unseen[m]
    BY <2>1 DEF SweepInv, PatchFresh
  <2> HIDE DEF guests, declined, others
  <2>3. Done(m, guests)
    BY <1>1, <2>1, <2>2, Writes
  <2> QED
    BY <2>1, <2>3
<1> QED
  BY <1>2, <1>3

\* What GuestsKept says of a step.
OnlyUnseenRemoved ==
    \A m \in Meetings :
        Exists(m) => event[m].guests \ event'[m].guests \subseteq unseen'[m]

LEMMA GuestsStay ==
    SweepInv /\ [SchedulerNext]_<<calendarVars, schedulerVars>> => OnlyUnseenRemoved
<1> SUFFICES ASSUME SweepInv, [SchedulerNext]_<<calendarVars, schedulerVars>>
             PROVE  OnlyUnseenRemoved
  OBVIOUS
<1>1. CASE event' = event
  BY <1>1 DEF OnlyUnseenRemoved
<1>2. CASE People \/ \E r \in Requests : BookingStep(r)
  BY <1>2, CalendarMoves DEF OnlyUnseenRemoved, SweepInv
<1>3. CASE /\ event' # event
           /\ \/ \E m \in ByHand, ae \in AEs : InviteByHand(m, ae)
              \/ \E w \in Sweepers : PatchEvent(w)
  BY <1>3, Invitations DEF OnlyUnseenRemoved
<1> QED
  BY <1>1, <1>2, <1>3, ChangesEvents DEF calendarVars, bookingVars

\* DemoBooker.addAttendee: PATCH replaces the guests, and only those are lost who
\* came while a sweep was between the reading and the writing.
THEOREM NobodyLost == SchedulerSpec => GuestsKept
<1>1. SweepInv /\ [SchedulerNext]_<<calendarVars, schedulerVars>>
      => [\A m \in Meetings :
            Exists(m) => event[m].guests \ event'[m].guests \subseteq unseen'[m]]_event
  BY GuestsStay DEF OnlyUnseenRemoved
<1> QED
  BY <1>1, SweepInvariant, PTL DEF SchedulerSpec, GuestsKept

\* Sweeps and people invite AEs to demos, which puts these on calendars that
\* bookings read; they add none.
LEMMA SweepsAddNone ==
    SweepInv /\ [SchedulerNext]_<<calendarVars, schedulerVars>>
    => \/ People \/ (\E r \in Requests : BookingStep(r))
       \/ \A n \in Meetings : Exists(n)' => Exists(n)
<1> SUFFICES ASSUME SweepInv, [SchedulerNext]_<<calendarVars, schedulerVars>>
             PROVE  \/ People \/ (\E r \in Requests : BookingStep(r))
                    \/ \A n \in Meetings : Exists(n)' => Exists(n)
  OBVIOUS
<1>1. CASE event' = event
  BY <1>1 DEF Exists
<1>2. CASE /\ event' # event
           /\ \/ \E m \in ByHand, ae \in AEs : InviteByHand(m, ae)
              \/ \E w \in Sweepers : PatchEvent(w)
  BY <1>2, Invitations DEF Exists
<1> QED
  BY <1>1, <1>2, ChangesEvents DEF calendarVars, bookingVars

LEMMA SweepsAddAlone ==
    SweepInv /\ [SchedulerNext]_<<calendarVars, schedulerVars>> => NoneInTheWay
BY SweepsAddNone, StepAddsAlone DEF SweepInv

\* No second demo for a lead, also while sweeps invite AEs to the demos there are.
THEOREM NoSecondWhileSweeping == SchedulerSpec => NoSecondDemo
<1>1. SweepInv /\ [SchedulerNext]_<<calendarVars, schedulerVars>>
      => [\A r \in Requests, m \in Meetings :
            Adds(r, m) /\ r \notin raced
            => \A c \in CalendarsToCheck(r) : \A n \in On(c) : ~MatchesLead(n, r)]_event
  BY SweepsAddAlone DEF NoneInTheWay
<1> QED
  BY <1>1, SweepInvariant, PTL DEF SchedulerSpec, NoSecondDemo

\* Nor a demo where the calendar or the AE is busy.
THEOREM NoDoubleWhileSweeping == SchedulerSpec => NoDoubleBooking
<1>1. SweepInv /\ [SchedulerNext]_<<calendarVars, schedulerVars>>
      => [\A r \in Requests, m \in Meetings :
            Adds(r, m) /\ r \notin raced
            => \A c \in CalendarsToCheck(r) : \A n \in On(c) :
                   ~Overlap(event[n].start, StartOf[r])]_event
  BY SweepsAddAlone DEF NoneInTheWay
<1> QED
  BY <1>1, SweepInvariant, PTL DEF SchedulerSpec, NoDoubleBooking
-----------------------------------------------------------------------------
(* A reminder that was due comes before the demo. *)

\* What a step of one process does with what it has in hand.
LEMMA StepKinds ==
    ASSUME SweepInv, NEW w \in Sweepers, SweepStep(w) \/ Crash(w)
    PROVE  \/ sweep' = sweep /\ now' = now
           \/ Only(w) /\ ~AtWork(w)'
           \/ \E pc \in PCs : Continues(w, pc)
           \/ /\ Only(w) /\ sweep[w].pc = "next"
              /\ \E s \in sweep[w].todo : Wanted(s) /\ sweep'[w].item = Item(s)
<1>1. CASE List(w)
  BY <1>1, Untouched, ListsOrNot DEF AtWork
<1>2. ASSUME NEW s \in sweep[w].todo, TakeItem(w, s)
      PROVE  \/ Only(w) /\ ~AtWork(w)'
             \/ /\ Only(w) /\ sweep[w].pc = "next"
                /\ Wanted(s) /\ sweep'[w].item = Item(s)
  BY <1>2, Untouched, TakesItem DEF AtWork
<1>3. CASE EndSweep(w) \/ Crash(w)
  BY <1>3, Untouched, Rests DEF EndSweep, Crash, AtWork, calendarVars
<1>4. CASE ResolveOwner(w)
  BY <1>4, Untouched, ResolvesOwner DEF PCs
<1>5. CASE GetEvent(w)
  BY <1>5, Untouched, GetsEvent DEF PCs
<1>6. CASE PatchEvent(w)
  BY <1>6, PatchesEvent DEF PCs
<1>7. CASE Dedupe(w)
  BY <1>7, Untouched, Dedupes DEF PCs, Drops, AtWork
<1>8. CASE LookUp(w)
  BY <1>8, LooksUp DEF PCs, Drops, AtWork
<1>9. CASE Insert(w)
  BY <1>9, Inserts DEF PCs, Drops, AtWork
<1>10. CASE Dial(w)
  BY <1>10, Dials DEF Drops, AtWork
<1> QED
  BY <1>1, <1>2, <1>3, <1>4, <1>5, <1>6, <1>7, <1>8, <1>9, <1>10 DEF SweepStep

\* The times are numbers.
LEMMA Clocks ==
    ASSUME SweepInv
    PROVE  /\ now \in Nat /\ lag \in Nat /\ failures \in Nat
           /\ MaxSweep \in Nat /\ Grace \in Nat /\ LeadTime \in Nat /\ Length \in Nat
           /\ Horizon \in Nat /\ MaxFailures \in Nat /\ LeadTime < Horizon
           /\ lag <= MaxSweep /\ failures <= MaxFailures
           /\ \A w \in Sweepers : sweep[w].ticks \in Nat /\ sweep[w].ticks <= MaxSweep
           /\ \A m \in Meetings : Exists(m)
                 => event[m].start \in Nat /\ event[m].made \in Nat
<1>1. /\ {LeadTime, Grace, Horizon, MaxSweep, Length, MaxFailures, MaxTime} \subseteq Nat
      /\ LeadTime < Horizon
  BY SchedulerAssumption, BookingAssumption DEF SchedulerAssumption, BookingAssumption
<1>2. now \in 0..MaxTime /\ failures \in 0..MaxFailures /\ lag \in 0..MaxSweep
  BY Untouched DEF BookingTypeOK
<1>3. \A w \in Sweepers : sweep[w].ticks \in 0..MaxSweep
  BY Untouched DEF SweepTypeOK, SweepRow
<1>4. \A m \in Meetings : Exists(m) => event[m].start \in Nat /\ event[m].made \in Nat
  BY Untouched DEF BookingTypeOK, Exists, Event
<1> QED
  BY <1>1, <1>2, <1>3, <1>4

LEMMA DueHeld_Next ==
    SweepInv /\ DueHeld /\ [SchedulerNext]_<<calendarVars, schedulerVars>> => DueHeld'
<1> SUFFICES ASSUME SweepInv, DueHeld, [SchedulerNext]_<<calendarVars, schedulerVars>>
             PROVE  DueHeld'
  OBVIOUS
<1>1. CASE sweep' = sweep /\ now' = now /\ late' = late
  BY <1>1 DEF DueHeld, AtWork
<1>2. ASSUME NEW w \in Sweepers, SweepStep(w) \/ Crash(w)
      PROVE  DueHeld'
  <2>1. late' = late
    BY <1>2 DEF SweepStep, List, TakeItem, EndSweep, ResolveOwner, GetEvent, PatchEvent,
                Dedupe, LookUp, Insert, Dial, Crash
  <2>2. CASE Only(w) /\ ~AtWork(w)'
    BY <2>1, <2>2 DEF DueHeld, AtWork, Only
  <2>3. ASSUME NEW pc \in PCs, Continues(w, pc)
        PROVE  DueHeld'
    BY <2>1, <2>3 DEF DueHeld, AtWork, Only, Continues
  <2>4. ASSUME Only(w), sweep[w].pc = "next", NEW s \in sweep[w].todo, Wanted(s),
               sweep'[w].item = Item(s)
        PROVE  DueHeld'
    <3>1. ~s.declined => now + Grace <= s.start
      BY <2>4 DEF Wanted, IsReminderDue
    <3>2. s.start \in Nat /\ sweep'[w].ticks \in 0..MaxSweep
      BY <2>4, Untouched DEF SweepTypeOK, SweepRow, Kept, Only
    <3>3. ~s.declined => now + Grace <= s.start + sweep'[w].ticks
      BY <3>1, <3>2, Clocks
    <3>4. sweep'[w].item.start = s.start /\ sweep'[w].item.declined = s.declined
      BY <2>4 DEF Item
    <3> QED
      BY <2>1, <2>4, <3>3, <3>4 DEF DueHeld, AtWork, Only
  <2> QED
    BY <1>1, <1>2, <2>1, <2>2, <2>3, <2>4, StepKinds
<1>3. CASE Tick
  <2> SUFFICES ASSUME ~late', NEW w \in Sweepers, AtWork(w)', ~sweep'[w].item.declined
               PROVE  now' + Grace <= sweep'[w].item.start + sweep'[w].ticks
    BY DEF DueHeld
  <2>1. /\ AtWork(w) /\ now + Grace <= sweep[w].item.start + sweep[w].ticks
        /\ now' = now + 1 /\ sweep'[w].item = sweep[w].item
        /\ sweep'[w].ticks = sweep[w].ticks + 1
    BY <1>3, Ticks DEF DueHeld, AtWork
  <2>2. sweep[w].item.start \in Nat
    BY <2>1, Untouched, HasMeeting DEF Taken
  <2> QED
    BY <2>1, <2>2, Clocks
<1>4. \/ sweep' = sweep /\ now' = now /\ late' = late
      \/ \E w \in Sweepers : SweepStep(w) \/ Crash(w)
      \/ Tick
  BY CalendarMoves DEF SchedulerNext, InviteByHand, schedulerVars, calendarVars, SweepInv
<1> QED
  BY <1>1, <1>2, <1>3, <1>4

LEMMA DueInvariant == SchedulerSpec => [](SweepInv /\ DueHeld)
<1>1. SchedulerInit => DueHeld
  BY DEF SchedulerInit, SweepInit, DueHeld, AtWork, Idle
<1> QED
  BY <1>1, SchedulerInit_Inv, Next_Inv, DueHeld_Next, PTL DEF SchedulerSpec

\* What ReminderBeforeDemo says of a step.
RemindsInTime ==
    \A m \in Meetings :
        rung'[Reminder(m)] > rung[Reminder(m)] /\ ~late => now <= event[m].start

LEMMA RemindersInTime ==
    ASSUME MaxSweep <= Grace, SweepInv, DueHeld,
           [SchedulerNext]_<<calendarVars, schedulerVars>>
    PROVE  RemindsInTime
<1>1. \A m \in Meetings : Reminder(m) \in Calls /\ rung[Reminder(m)] \in Nat
  BY Untouched DEF Reminder, Calls, Modes, PlaceTypeOK
<1>2. CASE rung' = rung
  BY <1>1, <1>2 DEF RemindsInTime
<1>3. ASSUME NEW w \in Sweepers, Dial(w)
      PROVE  RemindsInTime
  <2> SUFFICES ASSUME NEW m \in Meetings, rung'[Reminder(m)] > rung[Reminder(m)], ~late
               PROVE  now <= event[m].start
    BY DEF RemindsInTime
  <2>1. rung'[Reminder(m)] # rung[Reminder(m)]
    BY <1>1
  <2>2. AtWork(w) /\ (rung' = [rung EXCEPT ![Call(w)] = @ + 1] \/ rung' = rung)
    BY <1>3, Dials DEF Drops
  <2>3. Call(w) = Reminder(m)
    BY <1>1, <2>1, <2>2, Untouched DEF PlaceTypeOK
  <2>4. m = Meeting(w) /\ Mode(w) = "reminder"
    BY <2>3 DEF Call, Reminder
  <2>5. /\ ~sweep[w].item.declined /\ event[m].start = sweep[w].item.start
        /\ event[m].start \in Nat
    BY <2>2, <2>4, Untouched, HasMeeting, Clocks
  <2>6. now + Grace <= event[m].start + sweep[w].ticks
    BY <2>2, <2>5 DEF DueHeld
  <2> QED
    BY <2>5, <2>6, Clocks
<1>4. rung' = rung \/ \E w \in Sweepers : Dial(w)
  BY DEF SchedulerNext, SweepStep, List, TakeItem, EndSweep, ResolveOwner, GetEvent,
         PatchEvent, Dedupe, LookUp, Insert, Crash, InviteByHand, Tick, schedulerVars, placeVars
<1> QED
  BY <1>2, <1>3, <1>4

\* A reminder that was due when its turn came is placed before the demo begins, if
\* no sweep that was not late takes longer than the grace:
\* CallScheduler.isReminderDue.
THEOREM ReminderInTime == MaxSweep <= Grace /\ SchedulerSpec => ReminderBeforeDemo
<1> SUFFICES ASSUME MaxSweep <= Grace
             PROVE  SchedulerSpec => ReminderBeforeDemo
  OBVIOUS
<1>1. SweepInv /\ DueHeld /\ [SchedulerNext]_<<calendarVars, schedulerVars>>
      => [\A m \in Meetings :
            rung'[Reminder(m)] > rung[Reminder(m)] /\ ~late => now <= event[m].start]_rung
  BY RemindersInTime DEF RemindsInTime
<1> QED
  BY <1>1, DueInvariant, PTL DEF SchedulerSpec, ReminderBeforeDemo
-----------------------------------------------------------------------------
(* Every reminder goes out. *)

\* A demo takes time, and between when it is time to remind of it and when it is
\* too late there is room for a sweep for each failure, and one more.
ReminderTimes ==
    Length > 0 /\ Grace + (MaxFailures + 1) * MaxSweep <= LeadTime

\* What failures cost.
LEMMA Costs ==
    ASSUME NEW f \in Nat, NEW g \in Nat, f <= g, NEW cost \in Nat
    PROVE  /\ f * cost \in Nat /\ f * cost <= g * cost
           /\ (f + 1) * cost = f * cost + cost
<1>1. f * cost <= g * cost
  <2>1. PICK d \in Nat : g = f + d
    <3>1. g = f + (g - f) /\ g - f \in Nat
      OBVIOUS
    <3> QED
      BY <3>1
  <2>2. g * cost = f * cost + d * cost /\ d * cost \in Nat
    BY <2>1
  <2> QED
    BY <2>1, <2>2
<1> QED
  BY <1>1

\* What a step leaves pending was so before, and is as early.
LEMMA WasPending ==
    ASSUME NEW m \in Meetings, Exists(m), SameEvent(m), Pending(m)',
           rows \subseteq rows', refused \subseteq refused', undone \subseteq undone'
    PROVE  Pending(m) /\ event'[m].start = event[m].start
BY DEF Pending, SameEvent, Standing, Reminder

\* Nothing that is early gets late by failures or by what is not time.
LEMMA StaysEarly ==
    ASSUME SweepInv, NEW m \in Meetings, Exists(m), event'[m].start = event[m].start,
           now' = now, failures' \in Nat, failures <= failures', NEW ago \in Nat, Early(m, ago)
    PROVE  now' + LeadTime <= event'[m].start + ago + failures' * MaxSweep
<1>1. failures * MaxSweep <= failures' * MaxSweep /\ failures * MaxSweep \in Nat
      /\ failures' * MaxSweep \in Nat
  BY Clocks, Costs
<1> QED
  BY <1>1, Clocks DEF Early

\* What is made now, for a time that is far enough, is early.
LEMMA NewIsEarly ==
    ASSUME SweepInv, SweepInv', NEW m \in Meetings, Pending(m)', event'[m].made = now,
           now' = now
    PROVE  /\ Early(m, lag)'
           /\ \A w \in Sweepers : Early(m, sweep[w].ticks)'
<1>1. /\ event'[m].start \in Nat /\ event'[m].made + LeadTime <= event'[m].start
      /\ lag' \in Nat /\ \A w \in Sweepers : sweep'[w].ticks \in Nat
      /\ failures' \in Nat
  <2>1. Exists(m)'
    BY DEF Pending, Standing
  <2> QED
    BY <2>1, Clocks DEF Pending, SweepInv, BookingInv, BookingTypeOK, SweepTypeOK, SweepRow,
                        Event, Exists
<1>2. failures' * MaxSweep \in Nat
  BY <1>1, Clocks, Costs
<1> QED
  BY <1>1, <1>2, Clocks DEF Early

\* As long as a demo is pending it is not too late.
LEMMA Timely ==
    ASSUME SweepInv, ReminderTimes, NEW m \in Meetings, Pending(m), Early(m, lag)
    PROVE  now + Grace <= event[m].start
<1>1. Exists(m)
  BY DEF Pending, Standing
<1>2. /\ failures * MaxSweep <= MaxFailures * MaxSweep
      /\ (MaxFailures + 1) * MaxSweep = MaxFailures * MaxSweep + MaxSweep
      /\ failures * MaxSweep \in Nat /\ MaxFailures * MaxSweep \in Nat
  <2>1. /\ failures \in Nat /\ MaxFailures \in Nat /\ MaxSweep \in Nat
        /\ failures <= MaxFailures /\ MaxFailures <= MaxFailures
    BY Clocks
  <2> QED
    BY <2>1, Costs
<1> QED
  BY <1>1, <1>2, Clocks DEF Early, ReminderTimes

\* A sweep that fails began no longer ago than the one before was late.
LEMMA FailureCosts ==
    ASSUME SweepInv, NEW m \in Meetings, Exists(m), Early(m, lag), NEW ago \in Nat
    PROVE  now + LeadTime <= event[m].start + ago + (failures + 1) * MaxSweep
<1>1. (failures + 1) * MaxSweep = failures * MaxSweep + MaxSweep
      /\ failures * MaxSweep \in Nat
  BY Clocks, Costs
<1> QED
  BY <1>1, Clocks DEF Early

\* What the steps of a process do to the calendar and to the calls.
LEMMA StepEvents ==
    ASSUME SweepInv, NEW w \in Sweepers, SweepStep(w) \/ Crash(w)
    PROVE  /\ now' = now /\ failures' \in Nat /\ failures <= failures' /\ late' = late
           /\ rows \subseteq rows' /\ refused \subseteq refused' /\ undone \subseteq undone'
           /\ \A m \in Meetings : /\ Exists(m)' => Exists(m)
                                  /\ Exists(m) => SameEvent(m)
<1>1. now' = now /\ failures' \in Nat /\ failures <= failures' /\ late' = late
  <2>1. now' = now /\ (failures' = failures \/ failures' = failures + 1) /\ late' = late
    BY DEF SweepStep, List, TakeItem, EndSweep, ResolveOwner, GetEvent, PatchEvent,
           Dedupe, LookUp, Insert, Dial, Crash, calendarVars, Fail
  <2> QED
    BY <2>1, Clocks
<1>2. rows \subseteq rows' /\ refused \subseteq refused'
  BY DEF SweepStep, List, TakeItem, EndSweep, ResolveOwner, GetEvent, PatchEvent,
         Dedupe, LookUp, Insert, Dial, Crash, placeVars
<1>3. CASE event' = event /\ undone' = undone
  BY <1>1, <1>2, <1>3 DEF Exists, SameEvent
<1>4. CASE PatchEvent(w) /\ event' # event
  BY <1>1, <1>2, <1>4, Invitations DEF SameEvent, Exists
<1>5. CASE PatchEvent(w) /\ event' = event
  <2>1. undone \subseteq undone'
    BY <1>5 DEF PatchEvent, Write, guestVars
  <2> QED
    BY <1>1, <1>2, <1>5, <2>1 DEF Exists, SameEvent
<1>6. (event' = event /\ undone' = undone) \/ PatchEvent(w)
  BY DEF SweepStep, List, TakeItem, EndSweep, ResolveOwner, GetEvent, Dedupe, LookUp,
         Insert, Dial, Crash, calendarVars, bookingVars, guestVars
<1> QED
  BY <1>3, <1>4, <1>5, <1>6

\* Where a process stands with a demo, after a step.
OnWay(v, m) ==
    sweep[v].pc = "idle" \/ InHand(v, m) \/ Early(m, sweep[v].ticks)

LEMMA StaysOnWay ==
    ASSUME SweepInv, NEW m \in Meetings, Exists(m), event'[m].start = event[m].start,
           now' = now, failures' \in Nat, failures <= failures',
           NEW v \in Sweepers, OnWay(v, m), sweep'[v] = sweep[v]
    PROVE  OnWay(v, m)'
<1>1. sweep[v].ticks \in Nat
  BY Clocks
<1>2. Early(m, sweep[v].ticks) => Early(m, sweep[v].ticks)'
  BY <1>1, StaysEarly DEF Early
<1> QED
  BY <1>2 DEF OnWay, InHand, AtWork, Meeting

\* The process that makes the step.
LEMMA StepOnWay ==
    ASSUME SweepInv, ReminderTimes, NEW w \in Sweepers, SweepStep(w) \/ Crash(w),
           NEW m \in Meetings, Pending(m), Pending(m)', Early(m, lag), OnWay(w, m)
    PROVE  OnWay(w, m)'
<1>1. /\ Exists(m) /\ event'[m].start = event[m].start /\ now' = now
      /\ failures' \in Nat /\ failures <= failures' /\ event[m].start \in Nat
      /\ sweep[w].ticks \in Nat /\ SweepTypeOK /\ BookingTypeOK /\ SnapshotsTrue
  BY StepEvents, Clocks, Untouched DEF SameEvent, Pending, Standing
<1>2. now + Grace <= event[m].start
  BY Timely
<1>3. CASE sweep' = sweep
  BY <1>1, <1>3, StaysOnWay
<1>4. ASSUME sweep'[w].ticks = sweep[w].ticks, Early(m, sweep[w].ticks)
      PROVE  OnWay(w, m)'
  <2>1. Early(m, sweep[w].ticks)'
    BY <1>1, <1>4, StaysEarly DEF Early
  <2> QED
    BY <2>1 DEF OnWay
<1>5. CASE List(w)
  <2>1. CASE sweep' = sweep
    BY <1>3, <2>1
  <2>2. CASE /\ UNCHANGED calendarVars /\ sweep'[w].ticks = 0
             /\ sweep'[w].todo = {Snapshot(n) : n \in Upcoming}
    <3>1. CASE m \in Upcoming
      <4>1. /\ Snapshot(m) \in sweep'[w].todo
            /\ Snapshot(m).meeting = m /\ ~Snapshot(m).declined
        BY <2>2, <3>1 DEF Snapshot, Pending
      <4> QED
        BY <4>1 DEF OnWay, InHand
    <3>2. CASE m \notin Upcoming
      <4>1. now + LeadTime <= event[m].start
        BY <1>1, <1>2, <3>2, Clocks DEF Upcoming, On, Pending, ReminderTimes
      <4>2. failures' * MaxSweep \in Nat
        BY <1>1, Clocks, Costs
      <4> QED
        BY <1>1, <2>2, <4>1, <4>2, Clocks DEF OnWay, Early
    <3> QED
      BY <3>1, <3>2
  <2> QED
    BY <1>1, <1>5, <2>1, <2>2, ListsOrNot
<1>6. ASSUME NEW s \in sweep[w].todo, TakeItem(w, s)
      PROVE  OnWay(w, m)'
  <2>1. /\ sweep[w].pc = "next" /\ s \in Kept /\ True(s)
        /\ sweep'[w].todo = sweep[w].todo \ {s}
        /\ sweep'[w].ticks = sweep[w].ticks
        /\ Item(s).meeting = s.meeting /\ Item(s).declined = s.declined
        /\ \/ Wanted(s) /\ sweep'[w].item = Item(s) /\ sweep'[w].pc \in {"dedupe", "owner"}
           \/ ~Wanted(s) /\ sweep'[w].pc = "next"
    BY <1>1, <1>6, TakesItem DEF SnapshotsTrue
  <2>2. \/ Early(m, sweep[w].ticks)
        \/ \E t \in sweep[w].todo : t.meeting = m /\ ~t.declined
    BY <2>1 DEF OnWay, InHand, AtWork
  <2>3. ASSUME NEW t \in sweep[w].todo, t.meeting = m, ~t.declined, t # s
        PROVE  OnWay(w, m)'
    BY <2>1, <2>3 DEF OnWay, InHand
  <2>4. ASSUME s.meeting = m, ~s.declined, Wanted(s)
        PROVE  OnWay(w, m)'
    BY <2>1, <2>4 DEF OnWay, InHand, AtWork, Meeting
  <2>5. ASSUME s.meeting = m, ~s.declined, ~Wanted(s)
        PROVE  OnWay(w, m)'
    <3>1. now + LeadTime <= event[m].start
      BY <1>1, <1>2, <2>1, <2>5, Clocks DEF Wanted, IsReminderDue, True
    <3>2. failures * MaxSweep \in Nat
      BY Clocks, Costs
    <3> QED
      BY <1>1, <1>4, <2>1, <3>1, <3>2, Clocks DEF Early
  <2> QED
    BY <1>4, <2>1, <2>2, <2>3, <2>4, <2>5
<1>7. CASE EndSweep(w) \/ Crash(w)
  BY <1>1, <1>7, Rests DEF EndSweep, Crash, OnWay, calendarVars
<1>8. ASSUME NEW pc \in PCs, Continues(w, pc)
      PROVE  OnWay(w, m)'
  <2>1. InHand(w, m) => InHand(w, m)'
    BY <1>8 DEF InHand, Continues, AtWork, Meeting
  <2> QED
    BY <1>4, <1>8, <2>1 DEF OnWay, Continues, AtWork
<1>9. ASSUME Drops(w), AtWork(w) /\ Meeting(w) = m /\ ~sweep[w].item.declined
                         => Early(m, sweep[w].ticks)'
      PROVE  OnWay(w, m)'
  <2>1. /\ sweep'[w].ticks = sweep[w].ticks /\ sweep'[w].todo = sweep[w].todo
        /\ AtWork(w)
    BY <1>9 DEF Drops
  <2> QED
    BY <1>4, <1>9, <2>1 DEF OnWay, InHand, AtWork
<1>10. ASSUME Drops(w), Fail
       PROVE  OnWay(w, m)'
  <2>1. failures' = failures + 1 /\ sweep'[w].ticks = sweep[w].ticks
    BY <1>10 DEF Fail, Drops
  <2>2. Early(m, sweep[w].ticks)'
    BY <1>1, <2>1, FailureCosts DEF Early
  <2> QED
    BY <1>9, <1>10, <2>2
<1>11. ASSUME Drops(w),
              \/ Call(w) \in rows'
              \/ event[Meeting(w)].lead \notin Phones
              \/ Mode(w) = "reminder" => Meeting(w) \in refused'
       PROVE  OnWay(w, m)'
  <2>1. AtWork(w) /\ Meeting(w) = m /\ ~sweep[w].item.declined
        => Mode(w) = "reminder" /\ Call(w) = Reminder(m)
    BY <1>1, HasMeeting DEF Reminder
  <2>2. ~(AtWork(w) /\ Meeting(w) = m /\ ~sweep[w].item.declined)
    <3>1. Reminder(m)' = Reminder(m)
      BY DEF Reminder
    <3> QED
      BY <1>11, <2>1, <3>1 DEF Pending
  <2> QED
    BY <1>9, <1>11, <2>2
<1>12. rows \subseteq rows'
  BY StepEvents
<1>13. CASE Dedupe(w)
  <2>1. \/ Continues(w, "lookup")
        \/ Drops(w) /\ (Call(w) \in rows \/ event[Meeting(w)].lead \notin Phones)
        \/ Drops(w) /\ Fail
    BY <1>1, <1>13, Dedupes
  <2> QED
    BY <1>8, <1>10, <1>11, <1>12, <2>1 DEF PCs
<1>14. CASE LookUp(w)
  <2>1. \/ Continues(w, "insert")
        \/ /\ Drops(w)
           /\ Call(w) \in rows \/ (Mode(w) = "reminder" => Meeting(w) \in refused')
        \/ Drops(w) /\ Fail
    BY <1>14, LooksUp
  <2> QED
    BY <1>8, <1>10, <1>11, <1>12, <2>1 DEF PCs
<1>15. CASE Insert(w)
  <2>1. Continues(w, "dial") \/ (Drops(w) /\ Call(w) \in rows') \/ (Drops(w) /\ Fail)
    BY <1>15, Inserts
  <2> QED
    BY <1>8, <1>10, <1>11, <2>1 DEF PCs
<1>16. CASE Dial(w)
  <2>1. Drops(w) /\ Call(w) \in rows'
    BY <1>16, Dials, Untouched DEF CallsInv, DialsOnce
  <2> QED
    BY <1>11, <2>1
<1>17. CASE ResolveOwner(w) \/ GetEvent(w) \/ PatchEvent(w)
  <2>1. \E pc \in PCs : Continues(w, pc)
    BY <1>1, <1>17, ResolvesOwner, GetsEvent, PatchesEvent DEF PCs
  <2> QED
    BY <1>8, <2>1
<1> QED
  BY <1>5, <1>6, <1>7, <1>13, <1>14, <1>15, <1>16, <1>17 DEF SweepStep

LEMMA OnItsWay_Step ==
    ASSUME SweepInv, ReminderTimes, OnItsWay, NEW w \in Sweepers, SweepStep(w) \/ Crash(w)
    PROVE  OnItsWay'
<1> SUFFICES ASSUME ~late', NEW m \in Meetings, Pending(m)'
             PROVE  /\ Early(m, lag)'
                    /\ \A v \in Sweepers : OnWay(v, m)'
  BY DEF OnItsWay, OnWay
<1>1. /\ Exists(m) /\ SameEvent(m) /\ now' = now /\ ~late
      /\ failures' \in Nat /\ failures <= failures'
  <2>1. /\ \A n \in Meetings : /\ Exists(n)' => Exists(n)
                               /\ Exists(n) => SameEvent(n)
        /\ late' = late
    BY StepEvents
  <2>2. Exists(m)'
    BY DEF Pending, Standing
  <2>3. Exists(m) /\ SameEvent(m)
    BY <2>1, <2>2, Zenon
  <2> QED
    BY <2>1, <2>3, StepEvents
<1>2. Pending(m) /\ event'[m].start = event[m].start
  BY <1>1, StepEvents, WasPending
<1>3. Early(m, lag) /\ \A v \in Sweepers : OnWay(v, m)
  BY <1>1, <1>2 DEF OnItsWay, OnWay
<1>4. OnWay(w, m)'
  BY <1>2, <1>3, StepOnWay
<1>5. ASSUME NEW v \in Sweepers, v # w
      PROVE  OnWay(v, m)'
  <2>1. sweep'[v] = sweep[v]
    <3>1. sweep' = sweep \/ Only(w)
      BY StepKinds DEF Continues
    <3> QED
      BY <1>5, <3>1 DEF Only
  <2> QED
    BY <1>1, <1>2, <1>3, <2>1, StaysOnWay
<1>6. Early(m, lag)'
  <2>1. CASE lag' = lag
    <3>1. lag \in Nat
      BY Clocks
    <3> QED
      BY <1>1, <1>2, <1>3, <2>1, <3>1, StaysEarly DEF Early
  <2>2. CASE EndSweep(w) /\ lag' = sweep[w].ticks
    <3>1. Early(m, sweep[w].ticks) /\ sweep[w].ticks \in Nat
      BY <1>3, <2>2, Clocks DEF OnWay, InHand, AtWork, EndSweep
    <3> QED
      BY <1>1, <1>2, <2>2, <3>1, StaysEarly DEF Early
  <2> QED
    BY <2>1, <2>2
    DEF SweepStep, List, TakeItem, EndSweep, ResolveOwner, GetEvent, PatchEvent, Dedupe,
        LookUp, Insert, Dial, Crash
<1> QED
  BY <1>4, <1>5, <1>6

\* What others do to the calendar, while the sweeps stand still.
LEMMA OnItsWay_Calendar ==
    ASSUME SweepInv, SweepInv', OnItsWay, now' = now, failures' \in Nat, failures <= failures',
           UNCHANGED <<sweep, rows, lag, late, refused>>, undone \subseteq undone',
           \A m \in Meetings : /\ Exists(m) => SameEvent(m)
                               /\ ~Exists(m) /\ Exists(m)' => event'[m].made = now
    PROVE  OnItsWay'
<1> SUFFICES ASSUME ~late', NEW m \in Meetings, Pending(m)'
             PROVE  /\ Early(m, lag)'
                    /\ \A v \in Sweepers : OnWay(v, m)'
  BY DEF OnItsWay, OnWay
<1>1. Exists(m)'
  BY DEF Pending, Standing
<1>2. CASE ~Exists(m)
  BY <1>1, <1>2, NewIsEarly DEF OnWay
<1>3. CASE Exists(m)
  <2>1. Pending(m) /\ event'[m].start = event[m].start
    BY <1>3, WasPending
  <2>2. Early(m, lag) /\ \A v \in Sweepers : OnWay(v, m)
    BY <2>1 DEF OnItsWay, OnWay
  <2>3. lag \in Nat
    BY Clocks
  <2>4. Early(m, lag)'
    BY <1>3, <2>1, <2>2, <2>3, StaysEarly DEF Early
  <2> QED
    BY <1>3, <2>1, <2>2, <2>4, StaysOnWay
<1> QED
  BY <1>2, <1>3

LEMMA OnItsWay_Tick ==
    ASSUME SweepInv, OnItsWay, Tick
    PROVE  OnItsWay'
<1> SUFFICES ASSUME ~late', NEW m \in Meetings, Pending(m)'
             PROVE  /\ Early(m, lag)'
                    /\ \A v \in Sweepers : OnWay(v, m)'
  BY DEF OnItsWay, OnWay
<1>1. /\ Pending(m) /\ Exists(m) /\ event'[m].start = event[m].start
      /\ event[m].start \in Nat /\ ~late
  BY Ticks, Clocks DEF Pending, Standing, Exists, Reminder, placeVars, guestVars
<1>2. Early(m, lag) /\ \A v \in Sweepers : OnWay(v, m)
  BY <1>1 DEF OnItsWay, OnWay
<1>3. failures * MaxSweep \in Nat
  BY Clocks, Costs
<1>4. Early(m, lag)'
  BY <1>1, <1>2, <1>3, Clocks, Ticks DEF Early
<1>5. ASSUME NEW v \in Sweepers
      PROVE  OnWay(v, m)'
  <2>1. sweep[v].pc # "idle" /\ Early(m, sweep[v].ticks) => Early(m, sweep[v].ticks)'
    BY <1>1, <1>3, Clocks, Ticks DEF Early
  <2>2. InHand(v, m) => InHand(v, m)'
    BY Ticks DEF InHand, AtWork, Meeting
  <2> QED
    BY <1>2, <2>1, <2>2, Ticks DEF OnWay
<1> QED
  BY <1>4, <1>5

LEMMA OnItsWay_Next ==
    ASSUME ReminderTimes
    PROVE  SweepInv /\ OnItsWay /\ [SchedulerNext]_<<calendarVars, schedulerVars>> => OnItsWay'
<1> SUFFICES ASSUME SweepInv, OnItsWay, [SchedulerNext]_<<calendarVars, schedulerVars>>
             PROVE  OnItsWay'
  OBVIOUS
<1>1. SweepInv'
  BY Next_Inv
<1>2. CASE UNCHANGED <<calendarVars, schedulerVars>>
  BY <1>2 DEF calendarVars, bookingVars, schedulerVars, placeVars, guestVars, OnItsWay,
              Pending, Reminder, Standing, Exists, Early, InHand, AtWork, Meeting
<1>3. CASE (People \/ \E r \in Requests : BookingStep(r)) /\ UNCHANGED schedulerVars
  <2>1. failures' \in Nat /\ failures <= failures'
    <3>1. failures' = failures \/ failures' = failures + 1
      BY <1>3 DEF People, AeBooks, Decline, Cancel, BookingStep, RefuseEarly, BeginBooking,
                  FoundDemo, FoundNone, CheckFails, QueryFreeBusy, InsertEvent, Fail
    <3> QED
      BY <3>1, Clocks
  <2> QED
    BY <1>1, <1>3, <2>1, CalendarMoves, OnItsWay_Calendar
    DEF schedulerVars, placeVars, guestVars, SweepInv
<1>4. ASSUME NEW w \in Sweepers, SweepStep(w) \/ Crash(w)
      PROVE  OnItsWay'
  BY <1>4, OnItsWay_Step
<1>5. CASE \E m \in ByHand, ae \in AEs : InviteByHand(m, ae)
  <2>1. UNCHANGED <<now, failures, sweep, rows, lag, late, refused>>
    BY <1>5 DEF InviteByHand, placeVars
  <2>2. /\ undone \subseteq undone'
        /\ \A n \in Meetings : /\ Exists(n) => SameEvent(n)
                               /\ ~Exists(n) /\ Exists(n)' => event'[n].made = now
    BY <1>5, Invitations DEF SameEvent, Exists
  <2> QED
    BY <1>1, <2>1, <2>2, Clocks, OnItsWay_Calendar
<1>6. CASE Tick
  BY <1>6, OnItsWay_Tick
<1> QED
  BY <1>2, <1>3, <1>4, <1>5, <1>6 DEF SchedulerNext

\* A call that has its row was made, is being made, or failed after that; so a
\* reminder that is none of these is pending.
LEMMA OnItsWay_GoesOut ==
    ASSUME ReminderTimes
    PROVE  SweepInv /\ OnItsWay => ReminderGoesOut
<1> SUFFICES ASSUME SweepInv, OnItsWay, ~late, NEW m \in Meetings,
                    /\ Standing(m) /\ ~event[m].declined /\ m \notin undone
                    /\ event[m].calendar = Shared
                    /\ event[m].made + LeadTime <= event[m].start
                    /\ event[m].lead \in Phones,
                    event[m].start < now + Grace,
                    ~(rung[Reminder(m)] > 0), ~Dialling(Reminder(m)),
                    m \notin refused, Reminder(m) \notin cut
             PROVE  FALSE
  BY DEF ReminderGoesOut
<1>1. Reminder(m) \notin rows
  BY Untouched DEF CallsInv, RowsAccounted
<1>2. Pending(m)
  BY <1>1 DEF Pending
<1>3. now + Grace <= event[m].start
  BY <1>2, Timely DEF OnItsWay
<1>4. Exists(m)
  BY DEF Standing
<1> QED
  BY <1>3, <1>4, Clocks

\* A reminder goes out, is refused, or fails after it has its row, whatever fails
\* before and however many processes sweep, unless a sweep is late: if demos are
\* made before it is time to remind of them, and the lead time has room for a sweep
\* for each failure and one more.
THEOREM ReminderOut == ReminderTimes /\ SchedulerSpec => []ReminderGoesOut
<1> SUFFICES ASSUME ReminderTimes
             PROVE  SchedulerSpec => []ReminderGoesOut
  OBVIOUS
<1>1. SchedulerInit => OnItsWay
  BY DEF SchedulerInit, BookingInit, OnItsWay, Pending, Standing, Exists
<1>2. SchedulerSpec => [](SweepInv /\ OnItsWay)
  BY <1>1, SchedulerInit_Inv, Next_Inv, OnItsWay_Next, PTL DEF SchedulerSpec
<1> QED
  BY <1>2, OnItsWay_GoesOut, PTL
=============================================================================
