---------------------------- MODULE BookingProofs ----------------------------
(***************************************************************************)
(* Proofs about DemoBooking, for any meetings, leads, AEs and bookings.    *)
(*                                                                         *)
(* A booking reads one calendar after the other and inserts at the end.    *)
(* What it has read stays true unless somebody books, or is invited, for   *)
(* the same lead or the same time, and then the booking is one of `raced`; *)
(* two bookings that could be in each other's way are both (RivalsRaced).  *)
(* The lemmas are about single steps, so that Scheduler, whose processes   *)
(* change the guests of the same events, can use them.                     *)
(***************************************************************************)
EXTENDS DemoBooking, TLAPS

-----------------------------------------------------------------------------
(* The inductive invariant. *)

UnderWay == {"check", "busy", "insert"}

\* The calendars a booking has read hold no demo of its lead.
ReadClear ==
    \A r \in Requests \ raced : booking[r].pc \in UnderWay =>
        \A c \in CalendarsToCheck(r) \ booking[r].unread :
            \A n \in On(c) : ~MatchesLead(n, r)

\* It has read them all before it asks whether they are free.
AllRead ==
    \A r \in Requests : booking[r].pc \in {"busy", "insert"} => booking[r].unread = {}

\* And they are free when it inserts.
FreeClear ==
    \A r \in Requests \ raced : booking[r].pc = "insert" =>
        \A c \in CalendarsToCheck(r) :
            \A n \in On(c) : ~Overlap(event[n].start, StartOf[r])

\* Two bookings that are under way at once for one lead or one time.
RivalsRaced ==
    \A q, r \in Requests :
        /\ q # r /\ booking[q].pc \in UnderWay /\ booking[r].pc \in UnderWay
        /\ LeadOf[q] = LeadOf[r] \/ Overlap(StartOf[q], StartOf[r])
        => q \in raced /\ r \in raced

BookingClear == ReadClear /\ AllRead /\ FreeClear /\ RivalsRaced

BookingInv == BookingTypeOK /\ BookingClear

-----------------------------------------------------------------------------
(* Lemmas about the operators. *)

LEMMA NoEventIsNone == NoEvent \notin Event
BY DEF NoEvent, Event

LEMMA OverlapSymmetric ==
    ASSUME NEW s \in Nat, NEW t \in Nat
    PROVE  Overlap(s, t) <=> Overlap(t, s)
BY BookingAssumption DEF BookingAssumption, Overlap

\* A new event is put where there was none.
LEMMA NewEventAdds ==
    ASSUME NEW e \in Event, NewEvent(e), BookingTypeOK
    PROVE  \E new \in Meetings :
              /\ ~Exists(new) /\ event'[new] = e /\ Exists(new)'
              /\ event' = [event EXCEPT ![new] = e]
              /\ \A n \in Meetings \ {new} : event'[n] = event[n]
<1>1. PICK new \in Meetings : ~Exists(new) /\ event' = [event EXCEPT ![new] = e]
  BY DEF NewEvent
<1>2. event'[new] = e /\ \A n \in Meetings \ {new} : event'[n] = event[n]
  BY <1>1 DEF BookingTypeOK
<1>3. Exists(new)'
  BY <1>2, NoEventIsNone DEF Exists
<1> QED
  BY <1>1, <1>2, <1>3

\* What was read stays true while bookings only end, and events only go, or come
\* with whoever they are in the way of being raced.
LEMMA StaysClear ==
    ASSUME BookingInv, raced \subseteq raced',
           \A q \in Requests : booking'[q].pc \in UnderWay => booking'[q] = booking[q],
           \A n \in Meetings : Standing(n)' =>
              \/ Rivals(event[n].lead, event[n].start)' \subseteq raced'
              \/ /\ Standing(n)
                 /\ event'[n].calendar = event[n].calendar
                 /\ event'[n].guests = event[n].guests
                 /\ event'[n].lead = event[n].lead
                 /\ event'[n].start = event[n].start
                 /\ ~event'[n].declined => ~event[n].declined
    PROVE  /\ ReadClear' /\ FreeClear' /\ RivalsRaced'
           /\ \A q \in Requests : booking'[q].pc \in {"busy", "insert"}
                                  => booking'[q].unread = {}
<1>1. ReadClear /\ AllRead /\ FreeClear /\ RivalsRaced
  BY DEF BookingInv, BookingClear
<1>2. ReadClear'
  <2> SUFFICES ASSUME NEW r \in Requests, r \notin raced', booking'[r].pc \in UnderWay,
                      NEW c \in CalendarsToCheck(r) \ booking'[r].unread,
                      NEW n \in On(c)', MatchesLead(n, r)'
               PROVE  FALSE
    BY DEF ReadClear, CalendarsToCheck
  <2>1. n \in Meetings /\ Standing(n)' /\ event'[n].lead = LeadOf[r]
    BY DEF On, MatchesLead
  <2>2. r \in Rivals(event[n].lead, event[n].start)'
    BY <2>1 DEF Rivals, UnderWay
  <2>3. n \in On(c) /\ MatchesLead(n, r)
    BY <2>1, <2>2 DEF On, MatchesLead
  <2> QED
    BY <1>1, <2>3 DEF ReadClear
<1>3. FreeClear'
  <2> SUFFICES ASSUME NEW r \in Requests, r \notin raced', booking'[r].pc = "insert",
                      NEW c \in CalendarsToCheck(r),
                      NEW n \in On(c)', Overlap(event'[n].start, StartOf[r])
               PROVE  FALSE
    BY DEF FreeClear, CalendarsToCheck, Overlap
  <2>1. n \in Meetings /\ Standing(n)' /\ booking[r].pc = "insert"
    BY DEF On, UnderWay
  <2>2. CASE Rivals(event[n].lead, event[n].start)' \subseteq raced'
    <3>1. Overlap(StartOf[r], event'[n].start)
      BY DEF Overlap
    <3>2. r \in Rivals(event[n].lead, event[n].start)'
      BY <3>1 DEF Rivals, Overlap
    <3> QED
      BY <2>2, <3>2
  <2>3. CASE ~(Rivals(event[n].lead, event[n].start)' \subseteq raced')
    <3>1. n \in On(c) /\ event'[n].start = event[n].start
      BY <2>1, <2>3 DEF On
    <3> QED
      BY <1>1, <2>1, <3>1 DEF FreeClear
  <2> QED
    BY <2>2, <2>3
<1>4. RivalsRaced'
  BY <1>1 DEF RivalsRaced, Overlap
<1>5. \A q \in Requests : booking'[q].pc \in {"busy", "insert"} => booking'[q].unread = {}
  BY <1>1 DEF AllRead, UnderWay
<1> QED
  BY <1>2, <1>3, <1>4, <1>5
-----------------------------------------------------------------------------
(* Every step keeps the invariant. *)

\* Where a booking stands.
Row == [pc : BookingPCs, from : 0..MaxTime, unread : SUBSET ({Shared} \cup AEs)]

LEMMA Moved ==
    ASSUME BookingTypeOK, NEW r \in Requests, NEW pc \in BookingPCs, Move(r, pc)
    PROVE  /\ booking' \in [Requests -> Row]
           /\ booking'[r].pc = pc /\ booking'[r].unread = booking[r].unread
           /\ booking'[r].from = booking[r].from
           /\ \A q \in Requests \ {r} : booking'[q] = booking[q]
BY DEF BookingTypeOK, Move, Row

\* A booking ends, or fails, without having touched the calendars.
LEMMA Ends ==
    ASSUME BookingInv, NEW r \in Requests, NEW pc \in BookingPCs \ UnderWay, Move(r, pc),
           event' = event, raced' = raced, now' \in 0..MaxTime, failures' \in 0..MaxFailures
    PROVE  BookingInv'
<1>1. /\ booking' \in [Requests -> Row] /\ booking'[r].pc = pc
      /\ \A q \in Requests \ {r} : booking'[q] = booking[q]
  BY Moved DEF BookingInv
<1>2. BookingTypeOK'
  BY <1>1 DEF BookingInv, BookingTypeOK, Row
<1>3. \A q \in Requests : booking'[q].pc \in UnderWay => booking'[q] = booking[q]
  BY <1>1
<1>4. \A n \in Meetings : Standing(n)' =>
         /\ Standing(n)
         /\ event'[n].calendar = event[n].calendar
         /\ event'[n].guests = event[n].guests
         /\ event'[n].lead = event[n].lead
         /\ event'[n].start = event[n].start
         /\ ~event'[n].declined => ~event[n].declined
  BY DEF Standing, Exists
<1>5. BookingClear'
  BY <1>3, <1>4, StaysClear DEF BookingClear, AllRead
<1> QED
  BY <1>2, <1>5 DEF BookingInv

LEMMA Failed ==
    ASSUME BookingTypeOK, Fail
    PROVE  failures' \in 0..MaxFailures
BY BookingAssumption DEF BookingAssumption, BookingTypeOK, Fail

LEMMA BeginBooking_Inv ==
    ASSUME BookingInv, NEW r \in Requests, BeginBooking(r)
    PROVE  BookingInv'
<1> DEFINE row == [pc |-> "check", unread |-> CalendarsToCheck(r), from |-> now]
           rivals == Rivals(LeadOf[r], StartOf[r])
<1>1. /\ booking[r].pc = "idle" /\ booking' = [booking EXCEPT ![r] = row]
      /\ raced' = IF rivals = {} THEN raced ELSE raced \cup rivals \cup {r}
      /\ now' = now /\ event' = event /\ failures' = failures
      /\ BookingTypeOK /\ ReadClear /\ AllRead /\ FreeClear /\ RivalsRaced
  BY DEF BeginBooking, BookingInv, BookingClear
<1>2. row \in Row /\ rivals \subseteq Requests \ {r}
  BY <1>1, BookingAssumption
  DEF BookingAssumption, BookingTypeOK, Row, BookingPCs, CalendarsToCheck, Rivals
<1>3. /\ booking'[r].pc = "check" /\ booking'[r].unread = CalendarsToCheck(r)
      /\ \A q \in Requests \ {r} : booking'[q] = booking[q]
  BY <1>1 DEF BookingTypeOK
<1>4. BookingTypeOK'
  BY <1>1, <1>2 DEF BookingTypeOK, Row
<1>5. raced \subseteq raced'
  BY <1>1
<1>6. ReadClear'
  BY <1>1, <1>3, <1>5 DEF ReadClear, On, Standing, Exists, MatchesLead, CalendarsToCheck
<1>7. AllRead'
  BY <1>1, <1>3 DEF AllRead
<1>8. FreeClear'
  BY <1>1, <1>3, <1>5 DEF FreeClear, On, Standing, Exists, CalendarsToCheck, Overlap
<1>9. RivalsRaced'
  <2> SUFFICES ASSUME NEW p \in Requests, NEW q \in Requests, p # q,
                      booking'[p].pc \in UnderWay, booking'[q].pc \in UnderWay,
                      LeadOf[p] = LeadOf[q] \/ Overlap(StartOf[p], StartOf[q])
               PROVE  p \in raced' /\ q \in raced'
    BY DEF RivalsRaced, Overlap
  <2>1. \A t \in Requests \ {r} :
          booking[t].pc \in UnderWay
          /\ (LeadOf[t] = LeadOf[r] \/ Overlap(StartOf[t], StartOf[r]))
          => t \in raced' /\ r \in raced'
    BY <1>1 DEF Rivals, UnderWay
  <2>2. CASE p # r /\ q # r
    BY <1>1, <1>3, <1>5, <2>2 DEF RivalsRaced
  <2>3. CASE q = r
    BY <1>3, <2>1, <2>3
  <2>4. CASE p = r
    BY <1>3, <2>1, <2>4 DEF Overlap
  <2> QED
    BY <2>2, <2>3, <2>4
<1> QED
  BY <1>4, <1>6, <1>7, <1>8, <1>9 DEF BookingInv, BookingClear

LEMMA FoundNone_Inv ==
    ASSUME BookingInv, NEW r \in Requests, FoundNone(r)
    PROVE  BookingInv'
<1> DEFINE unread == booking[r].unread \ {Reading(r)}
           pc == IF unread = {} THEN "busy" ELSE "check"
<1>1. /\ booking[r].pc = "check"
      /\ \A m \in On(Reading(r)) : ~MatchesLead(m, r)
      /\ booking' = [booking EXCEPT ![r].unread = unread, ![r].pc = pc]
      /\ now' = now /\ event' = event /\ failures' = failures /\ raced' = raced
      /\ BookingTypeOK /\ ReadClear /\ AllRead /\ FreeClear /\ RivalsRaced
  BY DEF FoundNone, BookingInv, BookingClear
<1>2. /\ booking' \in [Requests -> Row]
      /\ booking'[r].pc = pc /\ booking'[r].unread = unread
      /\ booking'[r].from = booking[r].from
      /\ \A q \in Requests \ {r} : booking'[q] = booking[q]
  <2>1. /\ booking \in [Requests -> Row] /\ unread \subseteq {Shared} \cup AEs
        /\ pc \in BookingPCs
    BY <1>1 DEF BookingTypeOK, Row, BookingPCs
  <2> HIDE DEF unread, pc
  <2> QED
    BY <1>1, <2>1 DEF Row
<1>3. pc \in {"busy", "check"} /\ (pc = "busy" => unread = {})
  OBVIOUS
<1>4. BookingTypeOK'
  BY <1>1, <1>2 DEF BookingTypeOK, Row
<1>5. ReadClear'
  <2> SUFFICES ASSUME NEW q \in Requests, q \notin raced, booking'[q].pc \in UnderWay,
                      NEW c \in CalendarsToCheck(q) \ booking'[q].unread,
                      NEW n \in On(c)', MatchesLead(n, q)'
               PROVE  FALSE
    BY <1>1 DEF ReadClear, CalendarsToCheck
  <2>1. n \in On(c) /\ booking'[q].from = booking[q].from /\ MatchesLead(n, q)
    BY <1>1, <1>2 DEF On, Standing, Exists, MatchesLead
  <2>2. CASE q # r
    BY <1>1, <1>2, <2>1, <2>2 DEF ReadClear
  <2>3. CASE q = r
    BY <1>1, <1>2, <2>1, <2>3 DEF ReadClear, UnderWay
  <2> QED
    BY <2>2, <2>3
<1> HIDE DEF unread, pc
<1>6. AllRead'
  BY <1>1, <1>2, <1>3 DEF AllRead
<1>7. FreeClear'
  BY <1>1, <1>2, <1>3 DEF FreeClear, On, Standing, Exists, CalendarsToCheck, Overlap
<1>8. RivalsRaced'
  BY <1>1, <1>2 DEF RivalsRaced, UnderWay, Overlap
<1> QED
  BY <1>4, <1>5, <1>6, <1>7, <1>8 DEF BookingInv, BookingClear

LEMMA QueryFreeBusy_Inv ==
    ASSUME BookingInv, NEW r \in Requests, QueryFreeBusy(r)
    PROVE  BookingInv'
<1> DEFINE taken == \E c \in CalendarsToCheck(r) : \E m \in On(c) :
                        Overlap(event[m].start, StartOf[r])
<1>1. /\ now' = now /\ event' = event /\ raced' = raced /\ booking[r].pc = "busy"
      /\ BookingTypeOK /\ ReadClear /\ AllRead /\ FreeClear /\ RivalsRaced
      /\ now' \in 0..MaxTime /\ failures \in 0..MaxFailures
  BY DEF QueryFreeBusy, BookingInv, BookingClear, BookingTypeOK
<1>2. \/ taken /\ Move(r, "refused") /\ failures' = failures
      \/ ~taken /\ Move(r, "insert") /\ failures' = failures
      \/ Fail /\ Move(r, "error")
  BY DEF QueryFreeBusy
<1>3. CASE Fail /\ Move(r, "error")
  BY <1>1, <1>3, Failed, Ends DEF BookingPCs, UnderWay
<1>4. CASE taken /\ Move(r, "refused") /\ failures' = failures
  BY <1>1, <1>4, Ends DEF BookingPCs, UnderWay
<1>5. CASE ~taken /\ Move(r, "insert") /\ failures' = failures
  <2>1. /\ booking' \in [Requests -> Row]
        /\ booking'[r].pc = "insert" /\ booking'[r].unread = booking[r].unread
        /\ booking'[r].from = booking[r].from
        /\ \A q \in Requests \ {r} : booking'[q] = booking[q]
    BY <1>1, <1>5, Moved DEF BookingPCs
  <2>2. BookingTypeOK' /\ AllRead'
    BY <1>1, <1>5, <2>1 DEF BookingTypeOK, Row, AllRead
  <2>3. ReadClear'
    BY <1>1, <2>1 DEF ReadClear, On, Standing, Exists, MatchesLead, CalendarsToCheck,
                      UnderWay
  <2>4. FreeClear'
    BY <1>1, <1>5, <2>1 DEF FreeClear, On, Standing, Exists, CalendarsToCheck, Overlap
  <2>5. RivalsRaced'
    BY <1>1, <2>1 DEF RivalsRaced, UnderWay, Overlap
  <2> QED
    BY <2>2, <2>3, <2>4, <2>5 DEF BookingInv, BookingClear
<1> QED
  BY <1>2, <1>3, <1>4, <1>5
\* A new event: whoever it is in the way of was raced, or has it on record now.
LEMMA AddedClear ==
    ASSUME BookingInv, NEW e \in Event, NewEvent(e), raced \subseteq raced',
           \A q \in Requests : booking'[q].pc \in UnderWay => booking'[q] = booking[q],
           NEW lead, NEW start, e.lead = lead, e.start = start,
           Rivals(lead, start)' \subseteq raced'
    PROVE  BookingClear' /\ event' \in [Meetings -> Event \cup {NoEvent}]
<1>1. PICK new \in Meetings :
        /\ ~Exists(new) /\ event'[new] = e /\ Exists(new)'
        /\ event' = [event EXCEPT ![new] = e]
        /\ \A n \in Meetings \ {new} : event'[n] = event[n]
  BY NewEventAdds DEF BookingInv
<1>2. event' \in [Meetings -> Event \cup {NoEvent}]
  BY <1>1 DEF BookingInv, BookingTypeOK
<1>3. Rivals(event[new].lead, event[new].start)' \subseteq raced'
  BY <1>1
<1>4. \A n \in Meetings : Standing(n)' =>
        \/ Rivals(event[n].lead, event[n].start)' \subseteq raced'
        \/ /\ Standing(n)
           /\ event'[n].calendar = event[n].calendar
           /\ event'[n].guests = event[n].guests
           /\ event'[n].lead = event[n].lead
           /\ event'[n].start = event[n].start
           /\ ~event'[n].declined => ~event[n].declined
  BY <1>1, <1>3 DEF Standing, Exists
<1> QED
  BY <1>2, <1>4, StaysClear DEF BookingClear, AllRead

LEMMA InsertEvent_Inv ==
    ASSUME BookingInv, NEW r \in Requests, InsertEvent(r)
    PROVE  BookingInv'
<1> DEFINE e == [calendar |-> Shared, lead |-> LeadOf[r],
                 start |-> StartOf[r], made |-> now, guests |-> {AeOf[r]} \ {None},
                 declined |-> FALSE, cancelled |-> FALSE, by |-> r]
<1>1. /\ booking[r].pc = "insert" /\ now' = now /\ raced' = raced
      /\ BookingTypeOK /\ RivalsRaced
  BY DEF InsertEvent, BookingInv, BookingClear
<1>2. now' \in 0..MaxTime /\ failures \in 0..MaxFailures
  BY <1>1 DEF BookingTypeOK
<1>3. CASE event' = event /\ Move(r, "error") /\ Fail
  BY <1>1, <1>2, <1>3, Failed, Ends DEF BookingPCs, UnderWay
<1>4. ASSUME NewEvent(e), NEW pc \in {"booked", "error"}, Move(r, pc),
             failures' \in 0..MaxFailures
      PROVE  BookingInv'
  <2>1. e \in Event
    <3>1. now \in Nat
      BY <1>1, BookingAssumption DEF BookingTypeOK, BookingAssumption
    <3> QED
      BY <3>1, BookingAssumption DEF BookingAssumption, Event
  <2>2. e.lead = LeadOf[r] /\ e.start = StartOf[r]
    OBVIOUS
  <2> HIDE DEF e
  <2>3. /\ booking' \in [Requests -> Row] /\ booking'[r].pc = pc
        /\ \A q \in Requests \ {r} : booking'[q] = booking[q]
    BY <1>1, <1>4, Moved DEF BookingPCs
  <2>4. \A q \in Requests : booking'[q].pc \in UnderWay => booking'[q] = booking[q]
    BY <2>3 DEF UnderWay
  <2>5. Rivals(LeadOf[r], StartOf[r])' \subseteq raced'
    <3> SUFFICES ASSUME NEW q \in Rivals(LeadOf[r], StartOf[r])'
                 PROVE  q \in raced
      BY <1>1
    <3>1. q \in Requests /\ booking'[q].pc \in UnderWay /\ q # r
      BY <2>3 DEF Rivals, UnderWay
    <3>2. LeadOf[q] = LeadOf[r] \/ Overlap(StartOf[q], StartOf[r])
      BY DEF Rivals, Overlap
    <3> QED
      BY <1>1, <2>4, <3>1, <3>2 DEF RivalsRaced, UnderWay
  <2>6. raced \subseteq raced'
    BY <1>1
  <2>7. BookingClear' /\ event' \in [Meetings -> Event \cup {NoEvent}]
    BY <1>4, <2>1, <2>2, <2>4, <2>5, <2>6, AddedClear
  <2> QED
    BY <1>1, <1>2, <1>4, <2>3, <2>7 DEF BookingInv, BookingTypeOK, Row
<1>5. \/ event' = event /\ Move(r, "error") /\ Fail
      \/ NewEvent(e) /\ Move(r, "booked") /\ failures' = failures
      \/ NewEvent(e) /\ Move(r, "error") /\ Fail
  BY DEF InsertEvent
<1> HIDE DEF e
<1> QED
  BY <1>1, <1>2, <1>3, <1>4, <1>5, Failed

LEMMA AeBooks_Inv ==
    ASSUME BookingInv, NEW ae \in AEs, NEW lead \in Leads, NEW start \in AeStarts,
           AeBooks(ae, lead, start)
    PROVE  BookingInv'
<1> DEFINE e == [calendar |-> ae, lead |-> lead, start |-> start,
                 made |-> now, guests |-> {},
                 declined |-> FALSE, cancelled |-> FALSE, by |-> None]
<1>1. /\ NewEvent(e) /\ raced' = raced \cup Rivals(lead, start)
      /\ now' = now /\ booking' = booking /\ failures' = failures
      /\ BookingTypeOK
  BY DEF AeBooks, BookingInv
<1>2. e \in Event
  BY <1>1, BookingAssumption DEF BookingTypeOK, BookingAssumption, Event
<1>3. e.lead = lead /\ e.start = start /\ Rivals(lead, start)' \subseteq raced'
  BY <1>1 DEF Rivals, Overlap
<1> HIDE DEF e
<1>4. BookingClear' /\ event' \in [Meetings -> Event \cup {NoEvent}]
  BY <1>1, <1>2, <1>3, AddedClear
<1>5. raced' \subseteq Requests
  BY <1>1 DEF Rivals, BookingTypeOK
<1> QED
  BY <1>1, <1>4, <1>5 DEF BookingInv, BookingTypeOK

\* An event is declined, cancelled, or has other guests or another answer: then
\* whoever it may be in the way of is raced.
LEMMA Edited ==
    ASSUME BookingInv, NEW m \in Meetings, Exists(m), NEW e \in Event,
           event' = [event EXCEPT ![m] = e],
           e.calendar = event[m].calendar, e.lead = event[m].lead,
           e.start = event[m].start, event[m].cancelled => e.cancelled,
           \/ e.guests = event[m].guests /\ (event[m].declined => e.declined)
           \/ Rivals(event[m].lead, event[m].start) \subseteq raced',
           booking' = booking, raced \subseteq raced', raced' \subseteq Requests,
           now' = now, failures' \in 0..MaxFailures
    PROVE  BookingInv' /\ \A n \in Meetings : Exists(n)' <=> Exists(n)
<1>1. /\ event'[m] = e /\ \A n \in Meetings \ {m} : event'[n] = event[n]
      /\ event' \in [Meetings -> Event \cup {NoEvent}]
  BY DEF BookingInv, BookingTypeOK
<1>2. BookingTypeOK'
  BY <1>1 DEF BookingInv, BookingTypeOK
<1>3. \/ e.guests = event[m].guests /\ (event[m].declined => e.declined)
      \/ Rivals(event[m].lead, event[m].start)' \subseteq raced'
  BY <1>1 DEF Rivals, Overlap
<1>4. \A n \in Meetings : Standing(n)' =>
        \/ Rivals(event[n].lead, event[n].start)' \subseteq raced'
        \/ /\ Standing(n)
           /\ event'[n].calendar = event[n].calendar
           /\ event'[n].guests = event[n].guests
           /\ event'[n].lead = event[n].lead
           /\ event'[n].start = event[n].start
           /\ ~event'[n].declined => ~event[n].declined
  BY <1>1, <1>3 DEF Standing, Exists
<1>5. BookingClear'
  BY <1>4, StaysClear DEF BookingClear, AllRead
<1>6. Exists(m)'
  BY <1>1, NoEventIsNone DEF Exists
<1> QED
  BY <1>1, <1>2, <1>5, <1>6 DEF BookingInv, Exists

LEMMA Decline_Inv ==
    ASSUME BookingInv, NEW m \in Meetings, Decline(m) \/ Cancel(m)
    PROVE  BookingInv' /\ \A n \in Meetings : Exists(n)' <=> Exists(n)
<1> DEFINE e == IF Decline(m) THEN [event[m] EXCEPT !.declined = TRUE]
                ELSE [event[m] EXCEPT !.cancelled = TRUE]
<1>1. /\ Exists(m) /\ event' = [event EXCEPT ![m] = e]
      /\ now' = now /\ booking' = booking /\ failures' = failures /\ raced' = raced
      /\ failures' \in 0..MaxFailures /\ raced' \subseteq Requests
  BY DEF Decline, Cancel, Standing, BookingInv, BookingTypeOK
<1>2. event[m] \in Event
  BY <1>1 DEF Exists, BookingInv, BookingTypeOK
<1>3. /\ e \in Event /\ e.calendar = event[m].calendar /\ e.lead = event[m].lead
      /\ e.start = event[m].start /\ e.guests = event[m].guests
      /\ event[m].declined => e.declined
      /\ event[m].cancelled => e.cancelled
  BY <1>2 DEF Event
<1> HIDE DEF e
<1> QED
  BY <1>1, <1>3, Edited

LEMMA BookingStep_Inv ==
    ASSUME BookingInv, NEW r \in Requests, BookingStep(r)
    PROVE  BookingInv'
<1>1. now \in 0..MaxTime /\ failures \in 0..MaxFailures /\ BookingTypeOK
  BY DEF BookingInv, BookingTypeOK
<1>2. CASE RefuseEarly(r)
  BY <1>1, <1>2, Ends DEF RefuseEarly, BookingPCs, UnderWay
<1>3. CASE FoundDemo(r)
  BY <1>1, <1>3, Ends DEF FoundDemo, BookingPCs, UnderWay
<1>4. CASE CheckFails(r)
  BY <1>1, <1>4, Ends, Failed DEF CheckFails, BookingPCs, UnderWay
<1> QED
  BY <1>2, <1>3, <1>4, BeginBooking_Inv, FoundNone_Inv, QueryFreeBusy_Inv, InsertEvent_Inv
  DEF BookingStep

LEMMA People_Inv == BookingInv /\ People => BookingInv'
BY AeBooks_Inv, Decline_Inv DEF People

LEMMA BookingTick_Inv ==
    ASSUME BookingInv, now < MaxTime, now' = now + 1, UNCHANGED <<event, booking, failures, raced>>
    PROVE  BookingInv'
<1>1. BookingTypeOK'
  BY BookingAssumption DEF BookingAssumption, BookingInv, BookingTypeOK
<1>2. BookingClear'
  BY DEF BookingInv, BookingClear, ReadClear, AllRead, FreeClear, RivalsRaced, On, Standing,
         Exists, MatchesLead, CalendarsToCheck, Overlap
<1> QED
  BY <1>1, <1>2 DEF BookingInv

LEMMA BookingInit_Inv == BookingInit => BookingInv
BY BookingAssumption
DEF BookingAssumption, BookingInit, BookingInv, BookingTypeOK, BookingClear, ReadClear, AllRead,
    FreeClear, RivalsRaced, BookingPCs, UnderWay

LEMMA BookingUnchanged_Inv == BookingInv /\ UNCHANGED <<now, failures, bookingVars>> => BookingInv'
BY DEF bookingVars, BookingInv, BookingTypeOK, BookingClear, ReadClear, AllRead, FreeClear,
       RivalsRaced, On, Standing, Exists, MatchesLead, CalendarsToCheck, Overlap

LEMMA BookingNext_Inv == BookingInv /\ [BookingNext]_<<now, failures, bookingVars>> => BookingInv'
BY People_Inv, BookingStep_Inv, BookingTick_Inv, BookingUnchanged_Inv
DEF BookingNext, BookingTick
-----------------------------------------------------------------------------
(* What a booking adds. *)

\* Only a booking that inserts adds an event of its own.
LEMMA AddsInserts ==
    ASSUME BookingInv, NEW r \in Requests, NEW m \in Meetings, Adds(r, m),
           \/ People \/ (\E q \in Requests : BookingStep(q))
           \/ \A n \in Meetings : Exists(n)' => Exists(n)
    PROVE  InsertEvent(r)
<1>1. /\ ~Exists(m) /\ Exists(m)' /\ event'[m].by = r /\ r # None
      /\ event' # event /\ BookingTypeOK
  BY BookingAssumption DEF BookingAssumption, Adds, Exists, BookingInv
<1>2. CASE \A n \in Meetings : Exists(n)' => Exists(n)
  BY <1>1, <1>2
<1>3. ASSUME NEW n \in Meetings, Decline(n) \/ Cancel(n)
      PROVE  InsertEvent(r)
  BY <1>1, <1>3, Decline_Inv
<1>4. ASSUME NEW ae \in AEs, NEW lead \in Leads, NEW start \in AeStarts,
             AeBooks(ae, lead, start)
      PROVE  InsertEvent(r)
  <2> DEFINE e == [calendar |-> ae, lead |-> lead, start |-> start,
                   made |-> now, guests |-> {},
                   declined |-> FALSE, cancelled |-> FALSE, by |-> None]
  <2>1. NewEvent(e) /\ e \in Event /\ e.by = None
    BY <1>1, <1>4, BookingAssumption
    DEF AeBooks, BookingTypeOK, BookingAssumption, Event
  <2> HIDE DEF e
  <2>2. PICK new \in Meetings :
          event'[new] = e /\ \A n \in Meetings \ {new} : event'[n] = event[n]
    BY <1>1, <2>1, NewEventAdds
  <2>3. m = new
    BY <1>1, <2>2 DEF Exists
  <2> QED
    BY <1>1, <2>1, <2>2, <2>3
<1>5. ASSUME NEW q \in Requests, BookingStep(q)
      PROVE  InsertEvent(r)
  <2>1. InsertEvent(q)
    BY <1>1, <1>5 DEF BookingStep, RefuseEarly, BeginBooking, FoundDemo, FoundNone,
                      CheckFails, QueryFreeBusy
  <2> DEFINE e == [calendar |-> Shared, lead |-> LeadOf[q],
                   start |-> StartOf[q], made |-> now, guests |-> {AeOf[q]} \ {None},
                   declined |-> FALSE, cancelled |-> FALSE, by |-> q]
  <2>2. NewEvent(e) /\ e.by = q
    BY <1>1, <2>1 DEF InsertEvent
  <2>3. e \in Event
    <3>1. now \in Nat
      BY <1>1, BookingAssumption DEF BookingTypeOK, BookingAssumption
    <3> QED
      BY <3>1, BookingAssumption DEF BookingAssumption, Event
  <2> HIDE DEF e
  <2>4. PICK new \in Meetings :
          event'[new] = e /\ \A n \in Meetings \ {new} : event'[n] = event[n]
    BY <1>1, <2>2, <2>3, NewEventAdds
  <2>5. m = new
    BY <1>1, <2>4 DEF Exists
  <2> QED
    BY <1>1, <2>1, <2>2, <2>4, <2>5
<1> QED
  BY <1>2, <1>3, <1>4, <1>5 DEF People

\* When it does, what it has read is still so.
LEMMA InsertsAlone ==
    ASSUME BookingInv, NEW r \in Requests \ raced, InsertEvent(r),
           NEW c \in CalendarsToCheck(r), NEW n \in On(c)
    PROVE  ~MatchesLead(n, r) /\ ~Overlap(event[n].start, StartOf[r])
<1>1. booking[r].pc = "insert" /\ booking[r].unread = {}
  BY DEF InsertEvent, BookingInv, BookingClear, AllRead
<1> QED
  BY <1>1 DEF BookingInv, BookingClear, ReadClear, FreeClear, UnderWay

\* What the two action properties say of a step.
NoneInTheWay ==
    \A r \in Requests, m \in Meetings :
        Adds(r, m) /\ r \notin raced
        => \A c \in CalendarsToCheck(r) : \A n \in On(c) :
              ~MatchesLead(n, r) /\ ~Overlap(event[n].start, StartOf[r])

LEMMA StepAddsAlone ==
    ASSUME BookingInv,
           \/ People \/ (\E q \in Requests : BookingStep(q))
           \/ \A n \in Meetings : Exists(n)' => Exists(n)
    PROVE  NoneInTheWay
BY AddsInserts, InsertsAlone DEF NoneInTheWay

-----------------------------------------------------------------------------
(* Theorems. *)

\* A booking is raced, or has seen nothing in its way on what it has read.
LEMMA BookingInvariant == BookingSpec => []BookingInv
BY BookingInit_Inv, BookingNext_Inv, PTL DEF BookingSpec

LEMMA BookingAddsAlone == BookingInv /\ [BookingNext]_<<now, failures, bookingVars>> => NoneInTheWay
<1>1. BookingTick \/ UNCHANGED <<now, failures, bookingVars>>
      => \A n \in Meetings : Exists(n)' => Exists(n)
  BY DEF BookingTick, bookingVars, Exists
<1> QED
  BY <1>1, StepAddsAlone DEF BookingNext

\* A booking that was not raced adds no demo for a lead who has one on the
\* calendars it checks, however many bookings, AEs, leads and errors there are:
\* DemoBooker.book.
THEOREM NoSecond == BookingSpec => NoSecondDemo
<1>1. BookingInv /\ [BookingNext]_<<now, failures, bookingVars>>
      => [\A r \in Requests, m \in Meetings :
            Adds(r, m) /\ r \notin raced
            => \A c \in CalendarsToCheck(r) : \A n \in On(c) : ~MatchesLead(n, r)]_event
  BY BookingAddsAlone DEF NoneInTheWay
<1> QED
  BY <1>1, BookingInvariant, PTL DEF BookingSpec, NoSecondDemo

\* Nor does it put one where a calendar it checks is busy.
THEOREM NoDouble == BookingSpec => NoDoubleBooking
<1>1. BookingInv /\ [BookingNext]_<<now, failures, bookingVars>>
      => [\A r \in Requests, m \in Meetings :
            Adds(r, m) /\ r \notin raced
            => \A c \in CalendarsToCheck(r) : \A n \in On(c) :
                   ~Overlap(event[n].start, StartOf[r])]_event
  BY BookingAddsAlone DEF NoneInTheWay
<1> QED
  BY <1>1, BookingInvariant, PTL DEF BookingSpec, NoDoubleBooking
=============================================================================
