---------------------------- MODULE MCPlacement ----------------------------
(***************************************************************************)
(* Three requests about one prospect: a form submission, its retry with    *)
(* the same Idempotency-Key, and a follow-up call without a key.           *)
(***************************************************************************)
EXTENDS Placement

CONSTANTS r1, r2, r3, k1, lead1

MCCalls     == {r1, r2, r3}
MCKeyOf     == [r \in MCCalls |-> IF r = r3 THEN NoKey ELSE k1]
MCLeadOf    == [r \in MCCalls |-> lead1]
MCFollowUps == {r3}
=============================================================================
