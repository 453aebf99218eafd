----------------------------- MODULE CallTable -----------------------------
(***************************************************************************)
(* The "calls" table and the queries CallRepository runs on it             *)
(* (src/db/repository.ts, src/db/schema.ts).  One SQL statement is one     *)
(* atomic step of whoever runs it; CallRepository.update is two of them,   *)
(* an UPDATE and the SELECT that reads the row back, and both matter: the  *)
(* row can change in between.                                              *)
(*                                                                         *)
(* A call is named by the request that would insert it, so the columns     *)
(* that never change after the INSERT are constants: the idempotency key   *)
(* (KeyOf) and the prospect (LeadOf).  A column that is only ever NULL or  *)
(* set once is a Boolean, "is it set".  The columns that only feed logs,   *)
(* prompts and replies (names, error_*, raw_twilio_status, metadata...)    *)
(* are left out.                                                           *)
(*                                                                         *)
(* The module also declares what the components that work on a call share: *)
(* the calls Twilio accepted, the in-process onTerminal notifications, and *)
(* what can disturb any of them: a database statement fails, the process   *)
(* crashes, Twilio delivers a webhook twice.                               *)
(***************************************************************************)
EXTENDS CallStatus, FiniteSets, Sequences

CONSTANTS
    Calls,    \* call ids, one for each request that may insert a row
    Keys,     \* values of the Idempotency-Key header
    NoKey,    \* the request carries no key: the column is NULL
    Leads,    \* prospects, by email address
    KeyOf,    \* the key each request carries
    LeadOf,   \* the prospect each request is about
    Disturbances,    \* the kinds of disturbance that may happen
    MaxDisturbances  \* bound: how many of them happen

ASSUME CallsAssumption ==
    /\ NoKey \notin Keys
    /\ KeyOf \in [Calls -> Keys \cup {NoKey}]
    /\ LeadOf \in [Calls -> Leads]
    /\ MaxDisturbances \in Nat

VARIABLES
    calls,       \* the table
    dialled,     \* calls Twilio accepted: each one rings a phone
    onTerminal,  \* for each call, the status in each onTerminal notification
    disturbed    \* how often each kind of disturbance has happened

\* "absent" stands for: no such row.
Row == [status                     : Statuses \cup {"absent"},
        created_at                 : Nat,
        twilio_call_sid            : BOOLEAN,
        lyzr_call_agent_id         : BOOLEAN,
        answered_at                : BOOLEAN,
        completed_at               : BOOLEAN,
        post_call_callback_sent_at : BOOLEAN]

NoRow == [status                     |-> "absent",
          created_at                 |-> 0,
          twilio_call_sid            |-> FALSE,
          lyzr_call_agent_id         |-> FALSE,
          answered_at                |-> FALSE,
          completed_at               |-> FALSE,
          post_call_callback_sent_at |-> FALSE]

Exists(c) == calls[c].status # "absent"

-----------------------------------------------------------------------------
Kinds == {"fault", "crash", "duplicate"}

Undisturbed == [kind \in Kinds |-> 0]

Disturb(kind) ==
    /\ kind \in Disturbances
    /\ disturbed["fault"] + disturbed["crash"] + disturbed["duplicate"]
           < MaxDisturbances
    /\ disturbed' = [disturbed EXCEPT ![kind] = @ + 1]

-----------------------------------------------------------------------------
(* The queries. *)

FindByIdempotencyKey(k) == {c \in Calls : Exists(c) /\ KeyOf[c] = k}

\* Mutant: a plain index in place of the UNIQUE one.
IndexNotUnique(c) == FALSE

\* The UNIQUE index on idempotency_key; SQL lets NULLs repeat.
UniqueViolation(c) == KeyOf[c] # NoKey /\ FindByIdempotencyKey(KeyOf[c]) # {}

\* A failed call is not counted.
CountRecentCallsTo(lead, since) ==
    Cardinality({c \in Calls : /\ Exists(c)
                               /\ LeadOf[c] = lead
                               /\ calls[c].created_at >= since
                               /\ calls[c].status # "failed"})

CallsTo(lead) == {c \in Calls : Exists(c) /\ LeadOf[c] = lead}
=============================================================================
