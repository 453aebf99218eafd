--------------------------- MODULE IdempotentDial ---------------------------
(***************************************************************************)
(* What POST /api/call promises about the Idempotency-Key: the first       *)
(* request to get hold of a key owns it for good, only the owner of a key  *)
(* may make a phone ring, and whoever asks with that key is told of the    *)
(* owner's call.  Placement implements this specification.                 *)
(***************************************************************************)
CONSTANTS Calls, Keys, NoKey, NoCall, KeyOf

VARIABLES
    owner,   \* the call each key belongs to
    rung,    \* calls that made a phone ring
    answer   \* the call each request was told of

dialVars == <<owner, rung, answer>>

Init ==
    /\ owner = [k \in Keys |-> NoCall]
    /\ rung = {}
    /\ answer = [r \in Calls |-> NoCall]

Own(c) ==
    /\ KeyOf[c] # NoKey
    /\ owner[KeyOf[c]] = NoCall
    /\ owner' = [owner EXCEPT ![KeyOf[c]] = c]
    /\ UNCHANGED <<rung, answer>>

MayRing(c) == KeyOf[c] = NoKey \/ owner[KeyOf[c]] = c

Ring(c) ==
    /\ MayRing(c)
    /\ rung' = rung \cup {c}
    /\ UNCHANGED <<owner, answer>>

Tell(r, c) ==
    /\ answer[r] = NoCall
    /\ \/ c = r /\ MayRing(r) /\ r \in rung
       \/ KeyOf[r] # NoKey /\ owner[KeyOf[r]] = c
    /\ answer' = [answer EXCEPT ![r] = c]
    /\ UNCHANGED <<owner, rung>>

Next == \E c \in Calls : \/ Own(c)
                         \/ Ring(c)
                         \/ \E r \in Calls : Tell(r, c)

Spec == Init /\ [][Next]_dialVars
=============================================================================
