----------------------------- MODULE OwnerWait -----------------------------
(***************************************************************************)
(* Who owns a lead: HubspotClient.waitForOwner (src/hubspot/client.ts).    *)
(* The scheduler asks before each reminder, the demo check when SuperFlow  *)
(* does not name the owner.  A lookup is a search for the contact and,     *)
(* unless the cache has the owner, a request for the owner; it is repeated *)
(* until there is an owner or the time is up.  Waits share the cache.      *)
(*                                                                         *)
(* What HubSpot knows changes while one waits.  It is a function of time,  *)
(* chosen in the beginning; a request reads it at some time between the    *)
(* moment it is sent and the moment it is answered.                        *)
(***************************************************************************)
EXTENDS Naturals

CONSTANTS
    Waits,
    Prospects,       \* leads
    Owners,
    NoOwner,
    NotCached,
    OwnerWaitTime,   \* HUBSPOT_OWNER_WAIT_MS
    PollInterval,    \* intervalMs
    RequestTime,     \* timeoutMs of a request
    OwnerTtl,        \* OWNER_TTL_MS
    LastMoment,      \* bound: how far the time goes
    Assignments,     \* what may become of a lead: its owner at each time
    Profiles         \* what may become of an owner: whether it has an email

Moments == 0..LastMoment

ASSUME OwnerAssumption ==
    /\ {OwnerWaitTime, PollInterval, RequestTime, LastMoment} \subseteq Nat
    /\ OwnerTtl \in Nat \ {0}
    /\ NoOwner \notin Owners
    /\ Assignments \subseteq [Moments -> Owners \cup {NoOwner}]
    /\ Profiles \subseteq [Moments -> BOOLEAN]

\* What is kept of an owner: that it can be written to, or that it cannot.
CachedOwner == [known : BOOLEAN, expiresAt : Nat]

ASSUME CacheAssumption == NotCached \notin CachedOwner

VARIABLES
    time,
    assigned,    \* HubSpot's contacts: the owner of each lead, at each time
    profile,     \* HubSpot's owners: whether each has an email, at each time
    ownerCache,  \* HubspotClient.ownerCache
    wait         \* what each wait is doing

ownerVars == <<time, assigned, profile, ownerCache, wait>>

NoWait == [pc |-> "idle"]

OwnerInit ==
    /\ time = 0
    /\ assigned \in [Prospects -> Assignments]
    /\ profile \in [Owners -> Profiles]
    /\ ownerCache = [o \in Owners |-> NotCached]
    /\ wait = [w \in Waits |-> NoWait]

-----------------------------------------------------------------------------
(* What a wait does next. *)

Search(l, deadline) ==
    [pc |-> "searching", lead |-> l, deadline |-> deadline, sent |-> time]

Fetch(l, deadline, o) ==
    [pc |-> "fetching", lead |-> l, deadline |-> deadline, sent |-> time, owner |-> o]

Done(l, deadline, o, failed) ==
    [pc |-> "done", lead |-> l, deadline |-> deadline, ended |-> time,
     owner |-> o, failed |-> failed]

\* Mutant: gives up when the deadline is nearer than the next poll.
MissedGivesUp(l, deadline, failed) ==
    IF time + PollInterval >= deadline
      THEN Done(l, deadline, NoOwner, failed)
      ELSE [pc |-> "sleeping", lead |-> l, deadline |-> deadline,
            until |-> time + PollInterval]

\* The lookup found no owner, or an error took its place.
Missed(l, deadline, failed) ==
    IF time >= deadline
      THEN Done(l, deadline, NoOwner, failed)
      ELSE [pc |-> "sleeping", lead |-> l, deadline |-> deadline,
            until |-> IF time + PollInterval < deadline
                        THEN time + PollInterval ELSE deadline]

\* What a lookup returns for an owner of whom this is known.
Found(l, deadline, o, known) ==
    IF known THEN Done(l, deadline, o, FALSE) ELSE Missed(l, deadline, FALSE)

Fresh(o) == ownerCache[o] # NotCached /\ ownerCache[o].expiresAt > time

-----------------------------------------------------------------------------
(* The steps of a wait. *)

Begin(w, l) ==
    /\ wait[w].pc \in {"idle", "done"}
    /\ wait' = [wait EXCEPT ![w] = Search(l, time + OwnerWaitTime)]
    /\ UNCHANGED <<time, assigned, profile, ownerCache>>

\* findContactByEmail returns what was so at time t; getOwner looks in the cache.
SearchAnswered(w, t) ==
    /\ wait[w].pc = "searching" /\ t \in wait[w].sent..time
    /\ LET l == wait[w].lead
           d == wait[w].deadline
           o == assigned[l][t]
       IN  wait' = [wait EXCEPT ![w] =
               IF o = NoOwner THEN Missed(l, d, FALSE)
               ELSE IF Fresh(o) THEN Found(l, d, o, ownerCache[o].known)
               ELSE Fetch(l, d, o)]
    /\ UNCHANGED <<time, assigned, profile, ownerCache>>

\* An owner who is not there, or has no email, is remembered as well.
OwnerAnswered(w, t) ==
    /\ wait[w].pc = "fetching" /\ t \in wait[w].sent..time
    /\ LET o == wait[w].owner
           known == profile[o][t]
       IN  /\ ownerCache' = [ownerCache EXCEPT ![o] =
                                [known |-> known, expiresAt |-> time + OwnerTtl]]
           /\ wait' = [wait EXCEPT ![w] = Found(wait[w].lead, wait[w].deadline, o, known)]
    /\ UNCHANGED <<time, assigned, profile>>

\* HubSpot refuses, or the network does, or the time of the request is up.
RequestFails(w) ==
    /\ wait[w].pc \in {"searching", "fetching"}
    /\ wait' = [wait EXCEPT ![w] = Missed(wait[w].lead, wait[w].deadline, TRUE)]
    /\ UNCHANGED <<time, assigned, profile, ownerCache>>

Wake(w) ==
    /\ wait[w].pc = "sleeping" /\ wait[w].until = time
    /\ wait' = [wait EXCEPT ![w] = Search(wait[w].lead, wait[w].deadline)]
    /\ UNCHANGED <<time, assigned, profile, ownerCache>>

\* Neither an abort nor the end of a sleep is put off.
TimePasses ==
    /\ time < LastMoment
    /\ \A w \in Waits :
          /\ wait[w].pc \in {"searching", "fetching"} => time < wait[w].sent + RequestTime
          /\ wait[w].pc = "sleeping" => time < wait[w].until
    /\ time' = time + 1
    /\ UNCHANGED <<assigned, profile, ownerCache, wait>>

OwnerNext ==
    \/ \E w \in Waits :
          \/ \E l \in Prospects : Begin(w, l)
          \/ \E t \in Moments : SearchAnswered(w, t) \/ OwnerAnswered(w, t)
          \/ RequestFails(w) \/ Wake(w)
    \/ TimePasses

OwnerSpec == OwnerInit /\ [][OwnerNext]_ownerVars

-----------------------------------------------------------------------------
(* Properties. *)

\* What was said of an owner was so no longer ago than the cache keeps it and a
\* request takes.
SaidOf(o, known, ended) ==
    \E t \in 0..ended : profile[o][t] = known /\ ended < t + OwnerTtl + RequestTime

\* An owner that is returned was the lead's while one waited.
AnswerTrue(w) ==
    wait[w].pc = "done" /\ wait[w].owner # NoOwner =>
        /\ \E t \in 0..wait[w].ended :
              /\ wait[w].deadline <= t + OwnerWaitTime
              /\ assigned[wait[w].lead][t] = wait[w].owner
        /\ SaidOf(wait[w].owner, TRUE, wait[w].ended)

\* Nobody is returned only if, when the time was up or a lookup before, nobody
\* was assigned, or nobody who could be written to, or a request failed.
NobodyTrue(w) ==
    wait[w].pc = "done" /\ wait[w].owner = NoOwner /\ ~wait[w].failed =>
        \E t \in 0..wait[w].ended :
            /\ wait[w].deadline <= t + 2 * RequestTime
            /\ LET o == assigned[wait[w].lead][t]
               IN  o # NoOwner => SaidOf(o, FALSE, wait[w].ended)

\* A wait is over when its time is up, but for one lookup.
WaitOver(w) ==
    wait[w].pc # "idle" =>
        (IF wait[w].pc = "done" THEN wait[w].ended ELSE time)
            <= wait[w].deadline + 2 * RequestTime

\* waitForOwner finds an assignment that is made while it waits, invents none,
\* and does not keep the reminder waiting; however many waits share the cache.
OwnerFound == \A w \in Waits : AnswerTrue(w) /\ NobodyTrue(w) /\ WaitOver(w)
=============================================================================
