---------------------------- MODULE MCLifecycle ----------------------------
(***************************************************************************)
(* One call, placed by one request, with the status webhooks, the media    *)
(* stream and the callback all at work on its row.                         *)
(***************************************************************************)
EXTENDS CallLifecycle

CONSTANTS c1, k1, lead1

MCCalls  == {c1}
MCKeyOf  == [c \in MCCalls |-> k1]
MCLeadOf == [c \in MCCalls |-> lead1]
=============================================================================
