------------------------------ MODULE MCBooking ------------------------------
(***************************************************************************)
(* One prospect is booked by the agent twice, for one of the AEs and for   *)
(* nobody in particular; the AE books demos too.                           *)
(***************************************************************************)
EXTENDS DemoBooking

CONSTANTS r1, ae1, lead1

MCLeadOf == [r \in Requests |-> lead1]
MCAeOf == [r \in Requests |-> IF r = r1 THEN None ELSE ae1]
MCStartOf == [r \in Requests |-> IF r = r1 THEN 2 ELSE 4]
MCStartBeyond == [r \in Requests |-> IF r = r1 THEN 4 ELSE 5]
=============================================================================
