------------------------------- MODULE MCDemo -------------------------------
(***************************************************************************)
(* What the demo calendar is asked during calls: bookings (DemoBooking),   *)
(* the tokens they are made with (TokenCache), the slots that are offered  *)
(* before (DemoSlots), and who owns the lead (OwnerWait).  To a booking    *)
(* the tokens are one more thing that may fail, at any request, and the    *)
(* owner one that is given; so it is enough to let one of them run while   *)
(* the others stand still.                                                 *)
(***************************************************************************)
EXTENDS MCBooking, TokenCache, MCSlots, OwnerWait, TLC

CONSTANTS o1, o2

Changes(x, y, m) == [t \in Moments |-> IF t < m THEN x ELSE y]

\* Assigned before one waits, or meanwhile, or too late; to somebody else in the
\* end, or to nobody.
MCAssignments ==
    {Changes(NoOwner, o1, m) : m \in {0, 1, 4}}
        \cup {Changes(o1, o2, 3), Changes(o1, NoOwner, 3)}

MCProfiles == {Changes(TRUE, TRUE, 0), Changes(FALSE, TRUE, 4), Changes(TRUE, FALSE, 2)}

\* The hypothesis under which the slots are proved right.
ASSUME SlotsRegular == QueriesRegular

VARIABLE subject   \* which of them is looked at

Init ==
    /\ BookingInit /\ TokenInit /\ OwnerInit
    /\ \/ subject \in {"bookings", "tokens", "owners"} /\ asked = NoQuery
       \/ subject = "slots" /\ SlotsInit
    /\ subject # "owners" =>
          /\ assigned = [p \in Prospects |-> Changes(NoOwner, o1, 0)]
          /\ profile = [o \in Owners |-> Changes(TRUE, TRUE, 0)]

Next ==
    /\ UNCHANGED <<asked, subject>>
    /\ \/ /\ subject = "bookings" /\ BookingNext
          /\ UNCHANGED <<tokenVars, ownerVars>>
       \/ /\ subject = "tokens" /\ TokenNext
          /\ UNCHANGED <<now, failures, bookingVars, ownerVars>>
       \/ /\ subject = "owners" /\ OwnerNext
          /\ UNCHANGED <<now, failures, bookingVars, tokenVars>>

Spec ==
    /\ Init
    /\ [][Next]_<<now, failures, bookingVars, tokenVars, ownerVars, asked, subject>>

MCSymmetry == Permutations(Timed) \cup Permutations(Subjects) \cup Permutations(Waits)
=============================================================================
