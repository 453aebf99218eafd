----------------------------- MODULE MCService -----------------------------
(***************************************************************************)
(* The service's calls, looked at from two sides: several requests about   *)
(* one prospect that are placed while the clock goes, and one call that is *)
(* placed and then has the status webhooks, the media stream, the callback *)
(* and the cleanup at work on its row.                                     *)
(***************************************************************************)
EXTENDS MCPlacement, CallLifecycle, TLC

VARIABLE subject   \* which of them is looked at

MCInit == Init /\ subject \in {"requests", "call"}

MCNext ==
    /\ UNCHANGED subject
    /\ \/ /\ subject = "requests"
          /\ PlacementNext
          /\ UNCHANGED <<flowVars, callbackVars, cleanupVars, overlapped>>
       \/ /\ subject = "call"
          /\ Next
          /\ \A r \in Calls \ {r1} : pc'[r] = "idle"

MCSpec == MCInit /\ [][MCNext]_<<vars, subject>>

MCSymmetry == Permutations(Handlers) \cup Permutations(Sweepers)
=============================================================================
