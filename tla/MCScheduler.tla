----------------------------- MODULE MCScheduler -----------------------------
(***************************************************************************)
(* Two demos of one prospect are in the calendar, the first of which they  *)
(* declined; no bookings are asked for.                                    *)
(***************************************************************************)
EXTENDS Scheduler, TLC

CONSTANTS lead1, m1

MCNoRequest == [r \in {} |-> None]

Demo(start, guests) ==
    [calendar |-> Shared, lead |-> lead1, start |-> start, made |-> 0,
     guests |-> guests, declined |-> FALSE, cancelled |-> FALSE, by |-> None]

MCEvents ==
    {[m \in Meetings |-> IF m = m1 THEN Demo(3, {})
                         ELSE [Demo(2, {}) EXCEPT !.cancelled = TRUE]],
     [m \in Meetings |-> IF m = m1 THEN Demo(3, AEs)
                         ELSE [Demo(2, {}) EXCEPT !.declined = TRUE]]}

MCInit ==
    /\ now = 0 /\ failures = 0 /\ raced = {} /\ booking = MCNoRequest
    /\ event \in MCEvents
    /\ SweepInit

MCSymmetry == Permutations(Sweepers) \cup Permutations(AEs)

MCSpec == MCInit /\ [][SchedulerNext]_<<calendarVars, schedulerVars>>
=============================================================================
