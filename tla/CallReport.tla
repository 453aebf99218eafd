----------------------------- MODULE CallReport -----------------------------
(***************************************************************************)
(* What the service promises SuperFlow about each call: it is open, then   *)
(* it has ended, then its report is claimed.  No phase is skipped, none    *)
(* comes back, and the claim is taken once.  CallLifecycle implements this *)
(* specification under every interleaving, fault and crash.                *)
(***************************************************************************)
CONSTANT Calls

VARIABLE phase

Phases == {"open", "ended", "claimed"}

Init == phase = [c \in Calls |-> "open"]

End(c) ==
    phase[c] = "open" /\ phase' = [phase EXCEPT ![c] = "ended"]

ClaimReport(c) ==
    phase[c] = "ended" /\ phase' = [phase EXCEPT ![c] = "claimed"]

Next == \E c \in Calls : End(c) \/ ClaimReport(c)

Spec == Init /\ [][Next]_phase
=============================================================================
