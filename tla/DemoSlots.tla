------------------------------ MODULE DemoSlots ------------------------------
(***************************************************************************)
(* The open demo slots an agent reads out: computeFreeSlots and            *)
(* DemoBooker.availableSlots (src/google/booking.ts), behind POST          *)
(* /demo-slots.                                                            *)
(*                                                                         *)
(* Instants are integers.  A zone is ahead of UTC by `before` until the    *)
(* instant `change` and by `after` from then on: its clocks are put on or  *)
(* back once.  Slots are given by their starts.                            *)
(***************************************************************************)
EXTENDS FiniteSets, Integers

CONSTANTS
    DayLength,    \* how long a day is, by the clock
    WeekLength,
    WorkingDays,  \* DEMO_WORKING_DAYS
    HoursStart,   \* DEMO_HOURS_START
    HoursEnd,     \* DEMO_HOURS_END
    SlotMinutes,  \* DEMO_SLOT_MINUTES
    Zones,        \* what DEMO_TIMEZONE may be
    Queries,      \* what is asked, and when
    Calendars,    \* sets of intervals the demo calendar and the AE are busy
    NoLead,       \* the time of the prospect does not matter
    NoQuery

Zone == [before : Int, after : Int, change : Int]

Lead == [zone : Zone, hoursStart : Int, hoursEnd : Int]

Query == [from : Int, days : Nat \ {0}, duration : Nat \ {0}, earliest : Int,
          limit : Nat \ {0}, lead : Lead \cup {NoLead}]

ASSUME SlotsAssumption ==
    /\ DayLength \in Nat \ {0} /\ WeekLength \in Nat \ {0}
    /\ WorkingDays \subseteq 0..WeekLength - 1
    /\ HoursStart \in Nat /\ HoursEnd \in Nat
    /\ HoursStart < HoursEnd /\ HoursEnd <= DayLength
    /\ SlotMinutes \in Nat \ {0}
    /\ Zones \subseteq Zone
    /\ Queries \subseteq Query
    /\ Calendars \subseteq SUBSET [start : Int, end : Int]

-----------------------------------------------------------------------------
(* Zones.  zonedParts is Intl.DateTimeFormat's view of an instant.         *)

Offset(t, zone) == IF t < zone.change THEN zone.before ELSE zone.after

LocalDay(t, zone) == (t + Offset(t, zone)) \div DayLength

LocalMinutes(t, zone) == (t + Offset(t, zone)) % DayLength

Weekday(t, zone) == LocalDay(t, zone) % WeekLength

\* The wall-clock time is taken for an instant, and put right by what the zone's
\* clocks show then.
ZonedTimeToUtc(day, minutes, zone) ==
    LET guess == day * DayLength + minutes
        seen  == guess + Offset(guess, zone)
    IN  guess - (seen - guess)

-----------------------------------------------------------------------------
(* computeFreeSlots. *)

Overlaps(s, q, b) == s < b.end /\ s + q.duration > b.start

InLeadDaytime(s, q) ==
    q.lead # NoLead =>
    LET startMin == LocalMinutes(s, q.lead.zone)
        endMin   == LocalMinutes(s + q.duration - 1, q.lead.zone) + 1
    IN  /\ startMin >= q.lead.hoursStart
        /\ endMin <= q.lead.hoursEnd
        /\ endMin > startMin

\* Mutant: the days of a query are twenty-four hours apart.
DayStartByHours(i, q, zone) ==
    ZonedTimeToUtc(LocalDay(q.from, zone), HoursStart, zone) + i * DayLength

\* When the i-th day of a query begins, for demos: by calendar day, so that days
\* when clocks change are neither skipped nor doubled.
DayStart(i, q, zone) ==
    ZonedTimeToUtc(LocalDay(q.from, zone) + i, HoursStart, zone)

DayEnd(i, q, zone) ==
    ZonedTimeToUtc(LocalDay(q.from, zone) + i, HoursEnd, zone)

DaySlots(i, q, zone) ==
    LET dayStart == DayStart(i, q, zone)
    IN  IF Weekday(dayStart, zone) \notin WorkingDays THEN {}
        ELSE {s \in {dayStart + k * SlotMinutes : k \in 0..DayLength} :
                  s + q.duration <= DayEnd(i, q, zone)}

FirstOf(S, limit) == {s \in S : Cardinality({t \in S : t < s}) < limit}

ComputeFreeSlots(q, busy, zone) ==
    FirstOf({s \in UNION {DaySlots(i, q, zone) : i \in 0..q.days - 1} :
                /\ s >= q.earliest
                /\ ~ \E b \in busy : Overlaps(s, q, b)
                /\ InLeadDaytime(s, q)},
            q.limit)

\* availableSlots asks for the busy intervals of `days` times twenty-four hours.
FreeBusy(q, calendar) ==
    {b \in calendar : b.end > q.from /\ b.start < q.from + q.days * DayLength}

AvailableSlots(q, calendar, zone) == ComputeFreeSlots(q, FreeBusy(q, calendar), zone)

-----------------------------------------------------------------------------
(* What a slot is, by the clock on the wall and with all calendars open. *)

Within(s, duration, zone, hoursStart, hoursEnd) ==
    /\ LocalDay(s, zone) = LocalDay(s + duration - 1, zone)
    /\ LocalMinutes(s, zone) >= hoursStart
    /\ LocalMinutes(s + duration - 1, zone) < hoursEnd

IsSlot(s, q, calendar, zone) ==
    /\ LocalDay(s, zone) < LocalDay(q.from, zone) + q.days
    /\ Weekday(s, zone) \in WorkingDays
    /\ Within(s, q.duration, zone, HoursStart, HoursEnd)
    /\ (LocalMinutes(s, zone) - HoursStart) % SlotMinutes = 0
    /\ q.lead # NoLead =>
          Within(s, q.duration, q.lead.zone, q.lead.hoursStart, q.lead.hoursEnd)
    /\ s >= q.earliest
    /\ \A b \in calendar : ~Overlaps(s, q, b)

-----------------------------------------------------------------------------
(* What the clocks must not do for the slots to be right. *)

\* On a zone's clock no day comes twice.
DaysAdvance(zone) ==
    (zone.change - 1 + zone.before) \div DayLength
        <= (zone.change + zone.after) \div DayLength

\* The clocks do not change between two times of a day, these included.
KeepsTime(day, start, end, zone) ==
    LET changes == {zone.change + zone.before, zone.change + zone.after}
    IN  \/ zone.before = zone.after
        \/ \A t \in changes : t <= day * DayLength + start
        \/ \A t \in changes : t > day * DayLength + end

\* The one correction of ZonedTimeToUtc is enough.
Settled(day, minutes, zone) ==
    LET guess == day * DayLength + minutes
    IN  Offset(guess - Offset(guess, zone), zone) = Offset(guess, zone)

\* The clocks change outside the hours; the hours are found; and days of
\* twenty-four hours reach to the end of the last ones.
Regular(q, zone) ==
    /\ DaysAdvance(zone)
    /\ HoursEnd + zone.before - zone.after <= DayLength
    /\ \A i \in 0..q.days - 1 :
           LET day == LocalDay(q.from, zone) + i
           IN  /\ Settled(day, HoursStart, zone)
               /\ day % WeekLength \in WorkingDays =>
                      /\ Settled(day, HoursEnd, zone)
                      /\ KeepsTime(day, HoursStart, HoursEnd, zone)

\* The same of the prospect's clocks; and a demo is no longer than a day.
LeadRegular(q) ==
    LET zone == q.lead.zone
        last == q.from + (q.days + 1) * DayLength
    IN  /\ DaysAdvance(zone)
        /\ q.duration <= DayLength
        /\ q.duration + zone.after - zone.before <= DayLength
        /\ \A day \in LocalDay(q.from, zone)..LocalDay(last, zone) :
               KeepsTime(day, q.lead.hoursStart, q.lead.hoursEnd, zone)

QueriesRegular ==
    \A q \in Queries :
        /\ \A zone \in Zones : Regular(q, zone)
        /\ q.lead # NoLead => LeadRegular(q)

-----------------------------------------------------------------------------
(* What is asked. *)

Asked(q) == q.from..q.from + (q.days + 1) * DayLength

VARIABLE asked   \* a query, the intervals that are busy, and the zone; or NoQuery

SlotsInit == asked \in [query : Queries, calendar : Calendars, zone : Zones]

\* Of the instants from the one that was asked for on, the slots offered are the
\* first ones the wall clock, the prospect's and both calendars allow, and none
\* is left out, also when clocks change between one day and the next; if the
\* limit leaves one out, all that are offered are earlier.  Nothing is said of
\* what is offered from before that instant: see OfferedAreFree.
SlotsAgree ==
    asked # NoQuery =>
    LET q       == asked.query
        zone    == asked.zone
        offered == AvailableSlots(q, asked.calendar, zone)
        slots   == {s \in Asked(q) : IsSlot(s, q, asked.calendar, zone)}
    IN  /\ \A s \in offered : s >= q.from => s \in slots
        /\ \A s \in slots \ offered :
               Cardinality(offered) = q.limit /\ \A t \in offered : t < s

\* README, "Demo booking": slots respect the calendar's free/busy; openapi,
\* /demo-slots: they are free on the demo calendar.  The code breaks it:
\* computeFreeSlots begins with the hours of from's day, and availableSlots asks
\* when the calendars are busy from `from` on.
OfferedAreFree ==
    asked # NoQuery =>
    \A s \in AvailableSlots(asked.query, asked.calendar, asked.zone) :
        \A b \in asked.calendar : ~Overlaps(s, asked.query, b)
=============================================================================
