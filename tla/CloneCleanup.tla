---------------------------- MODULE CloneCleanup ----------------------------
(***************************************************************************)
(* ClonedAgentCleanup (src/lyzr/cleanup.ts): every call had an agent of    *)
(* its own at Lyzr, and a periodic sweep deletes the ones of calls that    *)
(* ended long enough ago.                                                  *)
(*                                                                         *)
(* The interval starts a sweep whether or not the one before it is still   *)
(* waiting for Lyzr, and during a redeployment two processes sweep, so     *)
(* several sweeps may be at work on the same rows.  A sweep lists the rows *)
(* once and takes them one by one; a row keeps the id of its clone until   *)
(* the clone is gone.                                                      *)
(*                                                                         *)
(* A row records the id of its own clone when cloning is on, and no id at  *)
(* all when it is off, so the base agent is never listed and the test that *)
(* protects it is left out.                                                *)
(***************************************************************************)
EXTENDS Placement, StatusFlow, SuperflowCallback

CONSTANT Sweepers   \* sweeps that may be at work at once

VARIABLES
    sweeper,   \* what each of them is doing
    deleted,   \* clones that are gone at Lyzr
    forgotten  \* history: calls whose row no longer holds the id of its clone

cleanupVars == <<sweeper, deleted, forgotten>>

\* Rows yet to be taken, and the row whose clone was just deleted.
Resting == [todo |-> {}, clearing |-> NoCall]

CleanupInit ==
    /\ sweeper = [w \in Sweepers |-> Resting]
    /\ deleted = {} /\ forgotten = {}

\* The retention period is counted in hours, and everything else a call
\* consists of in minutes: the model takes the period to be over at any time
\* once nothing of the call is going on.  The code looks at the clock alone.
RetentionOver(c) ==
    /\ pc[c] \notin InFlight
    /\ c \in dialled => carrier[c] \in CarrierFinal
    /\ \A m \in mail : m[1] # c
    /\ \A h \in Handlers : handler[h] = Idle \/ handler[h].call # c
    /\ stream[c] \in {"none", "closed"}
    /\ taken[c] = Len(onTerminal[c])
    /\ post[c] \in {"none", "done", "lost"}

FindExpiredClonedAgents ==
    {c \in Calls : /\ calls[c].lyzr_call_agent_id
                   /\ calls[c].completed_at
                   /\ RetentionOver(c)}

StartSweep(w) ==
    /\ sweeper[w] = Resting
    /\ FindExpiredClonedAgents # {}
    /\ sweeper' = [sweeper EXCEPT ![w].todo = FindExpiredClonedAgents]
    /\ UNCHANGED <<calls, dialled, onTerminal, disturbed, deleted, forgotten>>

Taking(w, c) == sweeper[w].clearing = NoCall /\ c \in sweeper[w].todo

\* Mutant: an agent that is not there cannot be deleted.
AgentDeletedUnlessMissing(w, c) ==
    /\ Taking(w, c) /\ c \notin deleted
    /\ deleted' = deleted \cup {c}
    /\ sweeper' = [sweeper EXCEPT ![w] = [todo |-> @.todo \ {c}, clearing |-> c]]
    /\ UNCHANGED <<calls, dialled, onTerminal, disturbed, forgotten>>

\* deleteAgent: the agent is gone, or has been before.
AgentDeleted(w, c) ==
    /\ Taking(w, c)
    /\ deleted' = deleted \cup {c}
    /\ sweeper' = [sweeper EXCEPT ![w] = [todo |-> @.todo \ {c}, clearing |-> c]]
    /\ UNCHANGED <<calls, dialled, onTerminal, disturbed, forgotten>>

\* Mutant: the id is cleared all the same.
DeletionFailsAndForgets(w, c) ==
    /\ Taking(w, c)
    /\ UNCHANGED deleted
    /\ sweeper' = [sweeper EXCEPT ![w] = [todo |-> @.todo \ {c}, clearing |-> c]]
    /\ UNCHANGED <<calls, dialled, onTerminal, disturbed, forgotten>>

\* It fails, or its answer is lost: the row is left to the next sweep and this
\* one goes on.
DeletionFails(w, c) ==
    /\ Taking(w, c)
    /\ deleted' \in {deleted, deleted \cup {c}}
    /\ sweeper' = [sweeper EXCEPT ![w].todo = @ \ {c}]
    /\ UNCHANGED <<calls, dialled, onTerminal, disturbed, forgotten>>

Forget(c) ==
    /\ calls' = [calls EXCEPT ![c].lyzr_call_agent_id = FALSE]
    /\ forgotten' = forgotten \cup {c}

ClearClonedAgent(w) ==
    /\ sweeper[w].clearing # NoCall
    /\ Forget(sweeper[w].clearing)
    /\ sweeper' = [sweeper EXCEPT ![w].clearing = NoCall]
    /\ UNCHANGED <<dialled, onTerminal, disturbed, deleted>>

\* The statement fails, with or without effect: caught like a failed deletion.
ClearFault(w) ==
    /\ Disturb("fault")
    /\ sweeper[w].clearing # NoCall
    /\ \/ UNCHANGED <<calls, forgotten>>
       \/ Forget(sweeper[w].clearing)
    /\ sweeper' = [sweeper EXCEPT ![w].clearing = NoCall]
    /\ UNCHANGED <<dialled, onTerminal, deleted>>

LoseSweeps == sweeper' = [w \in Sweepers |-> Resting]

SweepStep(w) ==
    \/ StartSweep(w)
    \/ \E c \in Calls : AgentDeleted(w, c) \/ DeletionFails(w, c)
    \/ ClearClonedAgent(w)
=============================================================================
