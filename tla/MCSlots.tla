------------------------------ MODULE MCSlots ------------------------------
(***************************************************************************)
(* A day of twelve hours, a week of four days, two of them worked; a zone  *)
(* that keeps its time, one that is behind UTC and puts its clocks on, and *)
(* one that is ahead and puts them back, both in the night before a day    *)
(* that is not worked.                                                     *)
(***************************************************************************)
EXTENDS DemoSlots

Steady == [before |-> 5, after |-> 5, change |-> 0]
PutOn  == [before |-> -4, after |-> -3, change |-> 41]
PutBack == [before |-> 5, after |-> 4, change |-> 33]

MCZones == {Steady, PutOn, PutBack}

\* /demo-slots takes any zone for the prospect, or none.
MCLeads ==
    {[zone |-> zone, hoursStart |-> 4, hoursEnd |-> 9] : zone \in MCZones}
        \cup {NoLead}

MCQueries ==
    [from : {17, 20, 26, 34, 45, 50, 53, 58}, days : {1, 4}, duration : {1, 2},
     earliest : {0, 30}, limit : {2, 9}, lead : MCLeads]

Interval(s) == [start |-> s, end |-> s + 2]

MCCalendars ==
    {{}} \cup {{Interval(s)} : s \in {18, 48, 55, 57}}
        \cup {{Interval(13), Interval(54)}}

\* A query is answered in one step: nothing more happens.
MCSpec == SlotsInit /\ [][UNCHANGED asked]_asked
=============================================================================
