----------------------------- MODULE DemoBooking -----------------------------
(***************************************************************************)
(* The demo calendars at Google and the two operations that relate a lead  *)
(* to them: DemoBookingChecker.check (src/google/calendar.ts) and          *)
(* DemoBooker.book (src/google/booking.ts), which the voice agent calls    *)
(* while it talks to the prospect.                                         *)
(*                                                                         *)
(* A booking reads the calendars one after the other for a demo the lead   *)
(* already has, asks for the busy intervals of all of them, and inserts an *)
(* event into the shared calendar: each is a request to Google, and each   *)
(* may fail.  People use the same calendars by hand: AEs book demos from   *)
(* their own, prospects decline, events are cancelled.  An event takes one *)
(* unit of time.                                                           *)
(***************************************************************************)
EXTENDS FiniteSets, Naturals

CONSTANTS
    Meetings,     \* event ids
    Leads,
    AEs,          \* account executives, each with a calendar
    Shared,       \* the shared demo calendar
    None,
    Requests,     \* bookings asked for
    LeadOf,       \* the lead each of them is for
    AeOf,         \* its ae_email, or None
    StartOf,      \* its start
    Length,       \* how long a demo takes
    CheckWindow,  \* DEMO_CHECK_WINDOW_DAYS
    MinNotice,    \* DEMO_MIN_NOTICE_MINUTES
    AeStarts,     \* bound: when AEs book demos by hand
    MaxTime,      \* bound: how far the clock goes
    MaxFailures   \* bound: requests to Google, HubSpot or the database that fail

ASSUME BookingAssumption ==
    /\ Shared \notin AEs /\ None \notin AEs \cup Meetings \cup Requests
    /\ LeadOf \in [Requests -> Leads]
    /\ AeOf \in [Requests -> AEs \cup {None}]
    /\ StartOf \in [Requests -> Nat]
    /\ AeStarts \subseteq Nat
    /\ {Length, CheckWindow, MinNotice, MaxTime, MaxFailures} \subseteq Nat

VARIABLES
    now,
    event,     \* the events on the calendars
    booking,   \* where each request stands
    failures,  \* how many requests failed
    raced      \* history: bookings something else came in between of, for the
               \* same lead or the same time

bookingVars == <<event, booking, raced>>

\* `guests` are the AEs invited; `made` is when, `by` is the request that did.
Event == [calendar : {Shared} \cup AEs, lead : Leads, start : Nat, made : Nat,
          guests : SUBSET AEs, declined : BOOLEAN, cancelled : BOOLEAN,
          by : Requests \cup {None}]

NoEvent == [calendar |-> None]

BookingPCs == {"idle", "check", "busy", "insert",
               "booked", "already", "refused", "error"}

\* `unread` are the calendars still to be read, `from` is when that began.
BookingInit ==
    /\ now = 0
    /\ event = [m \in Meetings |-> NoEvent]
    /\ booking = [r \in Requests |-> [pc |-> "idle", unread |-> {}, from |-> 0]]
    /\ failures = 0
    /\ raced = {}

Exists(m) == event[m] # NoEvent

Standing(m) == Exists(m) /\ ~event[m].cancelled

\* An event is on the calendar it was made in and on those of its guests.
On(calendar) == {m \in Meetings : /\ Standing(m)
                                  /\ \/ event[m].calendar = calendar
                                     \/ calendar \in event[m].guests}

Overlap(s, t) == s < t + Length /\ t < s + Length

\* There is no access token for a request, or no answer, or a bad one: each of
\* these is an error to whoever asked.
Fail == failures < MaxFailures /\ failures' = failures + 1

-----------------------------------------------------------------------------
(* DemoBooker.book, and DemoBookingChecker.check within it. *)

CalendarsToCheck(r) == {Shared} \cup ({AeOf[r]} \ {None})

\* eventMatchesLead, of the events in the window that is asked for.
MatchesLead(m, r) == /\ event[m].lead = LeadOf[r]
                     /\ ~event[m].declined
                     /\ booking[r].from <= event[m].start
                     /\ event[m].start <= booking[r].from + CheckWindow

\* Requests that are under way for the same lead or the same time.
Rivals(lead, start) ==
    {q \in Requests : /\ booking[q].pc \in {"check", "busy", "insert"}
                      /\ LeadOf[q] = lead \/ Overlap(StartOf[q], start)}

Move(r, pc) == booking' = [booking EXCEPT ![r].pc = pc]

\* A start without the notice is refused before Google is asked.
RefuseEarly(r) ==
    /\ booking[r].pc = "idle"
    /\ StartOf[r] < now + MinNotice
    /\ Move(r, "refused")
    /\ UNCHANGED <<now, event, failures, raced>>

BeginBooking(r) ==
    /\ booking[r].pc = "idle"
    /\ StartOf[r] >= now + MinNotice
    /\ booking' = [booking EXCEPT ![r] = [pc     |-> "check",
                                          unread |-> CalendarsToCheck(r),
                                          from   |-> now]]
    /\ LET rivals == Rivals(LeadOf[r], StartOf[r])
       IN  raced' = IF rivals = {} THEN raced ELSE raced \cup rivals \cup {r}
    /\ UNCHANGED <<now, event, failures>>

\* The shared calendar is read first, then the AE's.
Reading(r) == IF Shared \in booking[r].unread THEN Shared ELSE AeOf[r]

FoundDemo(r) ==
    /\ booking[r].pc = "check"
    /\ \E m \in On(Reading(r)) : MatchesLead(m, r)
    /\ Move(r, "already")
    /\ UNCHANGED <<now, event, failures, raced>>

FoundNone(r) ==
    /\ booking[r].pc = "check"
    /\ ~ \E m \in On(Reading(r)) : MatchesLead(m, r)
    /\ LET unread == booking[r].unread \ {Reading(r)}
       IN  booking' = [booking EXCEPT
              ![r].unread = unread,
              ![r].pc     = IF unread = {} THEN "busy" ELSE "check"]
    /\ UNCHANGED <<now, event, failures, raced>>

\* Mutant: a calendar that cannot be read holds no demo.
CheckFailsOpen(r) ==
    /\ booking[r].pc = "check" /\ Fail
    /\ Move(r, "busy")
    /\ UNCHANGED <<now, event, raced>>

\* A calendar that cannot be read is an error, never "not booked".
CheckFails(r) ==
    /\ booking[r].pc = "check" /\ Fail
    /\ Move(r, "error")
    /\ UNCHANGED <<now, event, raced>>

\* Mutant: only the shared calendar must be free.
QueryFreeBusyShared(r) ==
    /\ booking[r].pc = "busy"
    /\ Move(r, IF \E m \in On(Shared) : Overlap(event[m].start, StartOf[r])
                 THEN "refused" ELSE "insert")
    /\ UNCHANGED <<now, event, failures, raced>>

\* One request for the busy intervals of all the calendars.
QueryFreeBusy(r) ==
    /\ booking[r].pc = "busy"
    /\ \/ /\ Move(r, IF \E c \in CalendarsToCheck(r) : \E m \in On(c) :
                            Overlap(event[m].start, StartOf[r])
                       THEN "refused" ELSE "insert")
          /\ UNCHANGED failures
       \/ Fail /\ Move(r, "error")
    /\ UNCHANGED <<now, event, raced>>

NewEvent(e) ==
    /\ \E m \in Meetings : ~Exists(m)
    /\ event' = [event EXCEPT ![CHOOSE m \in Meetings : ~Exists(m)] = e]

\* The event is inserted; or it is not; or it is, and the answer is lost.
InsertEvent(r) ==
    /\ booking[r].pc = "insert"
    /\ \/ /\ NewEvent([calendar |-> Shared, lead |-> LeadOf[r],
                       start |-> StartOf[r], made |-> now,
                       guests |-> {AeOf[r]} \ {None},
                       declined |-> FALSE, cancelled |-> FALSE, by |-> r])
          /\ \/ Move(r, "booked") /\ UNCHANGED failures
             \/ Move(r, "error") /\ Fail
       \/ UNCHANGED event /\ Move(r, "error") /\ Fail
    /\ UNCHANGED <<now, raced>>

BookingStep(r) ==
    \/ RefuseEarly(r) \/ BeginBooking(r)
    \/ FoundDemo(r) \/ FoundNone(r) \/ CheckFails(r)
    \/ QueryFreeBusy(r) \/ InsertEvent(r)

-----------------------------------------------------------------------------
(* People and time. *)

\* An AE books a demo from their own calendar, at a time they are free.
AeBooks(ae, lead, start) ==
    /\ now <= start
    /\ \A m \in On(ae) : ~Overlap(event[m].start, start)
    /\ NewEvent([calendar |-> ae, lead |-> lead, start |-> start,
                 made |-> now, guests |-> {},
                 declined |-> FALSE, cancelled |-> FALSE, by |-> None])
    /\ raced' = raced \cup Rivals(lead, start)
    /\ UNCHANGED <<now, booking, failures>>

\* The prospect declines; the model's prospects do not change their mind again.
Decline(m) ==
    /\ Standing(m) /\ ~event[m].declined
    /\ event' = [event EXCEPT ![m].declined = TRUE]
    /\ UNCHANGED <<now, booking, failures, raced>>

Cancel(m) ==
    /\ Standing(m)
    /\ event' = [event EXCEPT ![m].cancelled = TRUE]
    /\ UNCHANGED <<now, booking, failures, raced>>

BookingTick ==
    /\ now < MaxTime
    /\ now' = now + 1
    /\ UNCHANGED <<event, booking, failures, raced>>

People ==
    \/ \E ae \in AEs, lead \in Leads, start \in AeStarts :
           AeBooks(ae, lead, start)
    \/ \E m \in Meetings : Decline(m) \/ Cancel(m)

BookingNext == People \/ BookingTick \/ \E r \in Requests : BookingStep(r)

BookingSpec == BookingInit /\ [][BookingNext]_<<now, failures, bookingVars>>

-----------------------------------------------------------------------------
(* Properties. *)

\* Every variable has its type; an event always has a calendar and a start.
BookingTypeOK ==
    /\ now \in 0..MaxTime
    /\ event \in [Meetings -> Event \cup {NoEvent}]
    /\ booking \in [Requests -> [pc : BookingPCs, from : 0..MaxTime,
                                 unread : SUBSET ({Shared} \cup AEs)]]
    /\ failures \in 0..MaxFailures
    /\ raced \subseteq Requests

Adds(r, m) == ~Exists(m) /\ Exists(m)' /\ event'[m].by = r

\* However often a booking is repeated, after errors and after answers that were
\* lost, it adds no demo for a lead who has one to come, within the window, on
\* the shared calendar or on the AE's: unless the other one was made while this
\* booking was under way.
NoSecondDemo ==
    [][\A r \in Requests, m \in Meetings :
          Adds(r, m) /\ r \notin raced
          => \A c \in CalendarsToCheck(r) : \A n \in On(c) : ~MatchesLead(n, r)]_event

\* Nor does it put a demo where the demo calendar or the AE is busy.
NoDoubleBooking ==
    [][\A r \in Requests, m \in Meetings :
          Adds(r, m) /\ r \notin raced
          => \A c \in CalendarsToCheck(r) : \A n \in On(c) :
                 ~Overlap(event[n].start, StartOf[r])]_event

\* README: re-booking a lead who already has an upcoming demo returns that
\* event instead of creating a second one; also of bookings made one by one.
RebookingCreatesNothing ==
    [][\A r \in Requests, m, n \in Meetings :
          Adds(r, m) /\ r \notin raced /\ Standing(n) /\ ~event[n].declined
          /\ event[n].calendar = Shared /\ now <= event[n].start
          => event[n].lead # LeadOf[r]]_event
=============================================================================
