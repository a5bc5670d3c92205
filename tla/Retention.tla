----------------------------- MODULE Retention ------------------------------
(***************************************************************************)
(* The daily purge (purge_retention) beside the traffic it meets.  A tenant *)
(* has at most one row of each table; a row that references another         *)
(* references that of its tenant.                                           *)
(* Ages are told apart by the tenant's cutoff alone: a run takes the time   *)
(* once, and rows only grow old between runs.                               *)
(***************************************************************************)
EXTENDS Naturals, FiniteSets, Schema

CONSTANTS
    Tenants,
    MaxTraffic,  \* bound: changes by staff and customers
    MaxRuns      \* bound: runs started

VARIABLES
    rows,        \* the committed rows, <<table, tenant>>
    age,         \* [rows -> "fresh", "old"]: of last_message_at, deleted_at, updated_at
    status,      \* of each tenant's conversation: "open", "closed"
    deleted,     \* tenants whose contact is soft-deleted
    purge,       \* the run of the task
    unreadable,  \* tenants whose settings are no numbers of days, as this run read them
    answered,    \* the run's answer, and the tenants it had tried
    counted,     \* conversations_purged of this run, over all its tenants
    entry,       \* [Tenants -> the last "retention.purge" entry: what it says, what was done]
    traffic, runs,
    met          \* history: the conversation has changed since it was selected

vars ==
    <<rows, age, status, deleted, purge, unreadable, answered, counted, entry, traffic, runs, met>>

(* The tables a purge deletes from, the ones whose rows may go with them,   *)
(* and the ones that law or the business keeps.                             *)
Kept == {"invoices", "payments", "audit_logs", "deals", "shipments", "survey_responses"}
Purged == {"contacts", "conversations", "messages", "ai_conversation_contexts"}
Row == (Kept \cup Purged) \X Tenants
Idle == [at |-> "idle"]
NoAnswer == [says |-> "none", tried |-> {}]

Has(table, t) == <<table, t>> \in rows
Old(table, t) == Has(table, t) /\ age[<<table, t>>] = "old"

Init ==
    /\ rows = Row
    /\ age = [r \in Row |-> "fresh"]
    /\ status = [t \in Tenants |-> "open"]
    /\ deleted = {}
    /\ purge = Idle
    /\ unreadable = {}
    /\ answered = NoAnswer
    /\ counted = 0
    /\ entry = [t \in Tenants |-> [says |-> 0, did |-> 0]]
    /\ traffic = 0 /\ runs = 0
    /\ met = FALSE

-----------------------------------------------------------------------------
(* Traffic.  A row the purge has deleted is locked until its commit.        *)

Doomed == IF purge.at \in {"contacts", "select", "delete", "contexts"} THEN purge.gone ELSE {}
Touch(table, t) ==
    /\ traffic < MaxTraffic /\ traffic' = traffic + 1
    /\ Has(table, t) /\ <<table, t>> \notin Doomed
    /\ met' = (met \/ (purge.at = "select" /\ <<table, t>> = <<"conversations", purge.tenant>>))
    /\ UNCHANGED <<purge, unreadable, answered, counted, entry, runs>>

(* An inbound message finds the open conversation; staff also write in a    *)
(* closed one.                                                              *)
Message(t) ==
    /\ Touch("conversations", t)
    /\ rows' = rows \cup {<<"messages", t>>}
    /\ age' = [age EXCEPT ![<<"conversations", t>>] = "fresh", ![<<"messages", t>>] = "fresh"]
    /\ UNCHANGED <<status, deleted>>

SetStatus(t) ==
    /\ Touch("conversations", t)
    /\ status' = [status EXCEPT ![t] = IF @ = "open" THEN "closed" ELSE "open"]
    /\ UNCHANGED <<rows, age, deleted>>

DeleteContact(t) ==
    /\ Touch("contacts", t)
    /\ t \notin deleted
    /\ deleted' = deleted \cup {t}
    /\ age' = [age EXCEPT ![<<"contacts", t>>] = "fresh"]
    /\ UNCHANGED <<rows, status>>

(* Rows grow old, one table's at a time.                                    *)
Grow(table, t) ==
    /\ purge = Idle
    /\ Has(table, t)
    /\ table = "contacts" => t \in deleted
    /\ age' = [age EXCEPT ![<<table, t>>] = "old"]
    /\ UNCHANGED <<rows, status, deleted, purge, unreadable, answered, counted, entry, traffic, runs, met>>

-----------------------------------------------------------------------------
(* The task: each tenant in a transaction of its own (READ COMMITTED).      *)

Frame == UNCHANGED <<status, deleted, traffic>>

(* A run reads the tenants and their settings, whatever those hold.         *)
Starts ==
    /\ purge' = [at |-> "next", left |-> Tenants, done |-> {}, failed |-> {}]
    /\ unreadable' \in SUBSET Tenants
    /\ answered' = NoAnswer
    /\ counted' = 0
    /\ runs < MaxRuns /\ runs' = runs + 1
    /\ met' = FALSE
    /\ UNCHANGED <<rows, age, entry>> /\ Frame

Begin == purge = Idle /\ Starts

(* What a row's deletion takes with it, by the foreign keys.                *)
Followers == [table \in Purged |-> DeletedWith(table)]
Gone(table, t) == {<<u, t>> : u \in Followers[table]} \cap rows

DeleteContacts(t) ==
    /\ purge.at = "next" /\ t \in purge.left \ unreadable
    /\ purge' = [at |-> "contacts", tenant |-> t, left |-> purge.left \ {t},
                 done |-> purge.done, failed |-> purge.failed,
                 gone |-> IF t \in deleted /\ Old("contacts", t) THEN Gone("contacts", t) ELSE {},
                 chosen |-> FALSE, hits |-> 0]
    /\ met' = FALSE
    /\ UNCHANGED <<rows, age, unreadable, answered, counted, entry, runs>> /\ Frame

Due(t) ==
    /\ status[t] = "closed"
    /\ Old("conversations", t) /\ <<"conversations", t>> \notin purge.gone

SelectConversations ==
    /\ purge.at = "contacts"
    /\ purge' = [purge EXCEPT !.at = "select", !.chosen = Due(purge.tenant)]
    /\ UNCHANGED <<rows, age, unreadable, answered, counted, entry, runs, met>> /\ Frame

(* The messages and then the conversations, by the ids selected: whatever   *)
(* has come into a conversation since goes with it.                         *)
DeleteConversations ==
    LET t == purge.tenant
        hit == purge.chosen IN
        /\ purge.at = "select"
        /\ purge' = [purge EXCEPT !.at = "delete",
                                  !.gone = IF hit THEN @ \cup Gone("conversations", t) ELSE @,
                                  !.hits = IF hit THEN 1 ELSE 0]
        /\ counted' = IF hit THEN counted + 1 ELSE counted
        /\ UNCHANGED <<rows, age, unreadable, answered, entry, runs, met>> /\ Frame

DeleteContexts ==
    LET t == purge.tenant IN
        /\ purge.at = "delete"
        /\ purge' = [purge EXCEPT !.at = "contexts",
                        !.gone = IF Old("ai_conversation_contexts", t)
                                 THEN @ \cup Gone("ai_conversation_contexts", t) ELSE @]
        /\ UNCHANGED <<rows, age, unreadable, answered, counted, entry, runs, met>> /\ Frame

(* The entry states the counts of the whole run so far.                     *)
CommitTenant ==
    LET t == purge.tenant IN
        /\ purge.at = "contexts"
        /\ rows' = rows \ purge.gone
        /\ deleted' = {u \in deleted : <<"contacts", u>> \in rows'}
        /\ entry' = [entry EXCEPT ![t] = [says |-> counted, did |-> purge.hits]]
        /\ purge' = [at |-> "next", left |-> purge.left, done |-> purge.done \cup {t},
                     failed |-> purge.failed]
        /\ UNCHANGED <<age, status, unreadable, answered, counted, traffic, runs, met>>

(* The transaction is rolled back; the counts are not.                      *)
FailTenant ==
    /\ purge.at \in {"contacts", "select", "delete", "contexts"}
    /\ purge' = [at |-> "next", left |-> purge.left, done |-> purge.done,
                 failed |-> purge.failed \cup {purge.tenant}]
    /\ UNCHANGED <<rows, age, unreadable, answered, counted, entry, runs, met>> /\ Frame

Answer(says) ==
    /\ answered' = [says |-> says, tried |-> purge.done \cup purge.failed]
    /\ purge' = Idle
    /\ UNCHANGED <<rows, age, unreadable, counted, entry, runs, met>> /\ Frame

End == purge.at = "next" /\ purge.left = {} /\ Answer("ok")

(* What is raised outside a tenant's try ends the run: a setting that is no *)
(* number of days, and the read of the tenants at the start.                *)
GiveUp ==
    /\ purge.at = "next"
    /\ purge.left = Tenants \/ purge.left \cap unreadable # {}
    /\ Answer("error")

(* The worker is lost and the task starts again (acks_late).                *)
LoseWorker == purge # Idle /\ Starts

Next ==
    \/ \E t \in Tenants :
        \/ Message(t) \/ SetStatus(t) \/ DeleteContact(t) \/ DeleteContacts(t)
        \/ \E table \in Purged \ {"messages"} : Grow(table, t)
    \/ Begin \/ SelectConversations \/ DeleteConversations \/ DeleteContexts \/ CommitTenant
    \/ FailTenant \/ End \/ GiveUp \/ LoseWorker

Spec == Init /\ [][Next]_vars

-----------------------------------------------------------------------------
(* Properties *)

TypeOK ==
    /\ rows \subseteq Row /\ age \in [Row -> {"fresh", "old"}]
    /\ status \in [Tenants -> {"open", "closed"}]
    /\ deleted \subseteq Tenants

(* A conversation is purged if it was closed and quiet, or goes with a      *)
(* contact that was deleted long ago, even when it is open; only one that   *)
(* changed beside the purge, after it was selected, is lost otherwise.      *)
PurgedWasDue ==
    purge.at = "contexts" =>
        LET t == purge.tenant IN
            <<"conversations", t>> \in purge.gone =>
                \/ status[t] = "closed" /\ age[<<"conversations", t>>] = "old"
                \/ <<"contacts", t>> \in purge.gone
                \/ met

(* A run that answers ok has tried every tenant, whichever failed in its    *)
(* transaction.  The docstring's "one tenant's failure doesn't poison the   *)
(* others" ends there: a run that answers error has done nothing, or has    *)
(* left out a tenant whose settings it could not read, and any others with  *)
(* it.                                                                      *)
EveryTenantTried ==
    /\ answered.says = "ok" => answered.tried = Tenants
    /\ answered.says = "error" =>
           answered.tried = {} \/ unreadable \ answered.tried # {}

(* No message or analysis is left without its conversation, and no          *)
(* conversation without its contact.                                        *)
Dependent == {c \in (Purged \cup Kept) \X Purged : With(c[2]) \in Refs(c[1])}
NoOrphans ==
    \A c \in Dependent, t \in Tenants : Has(c[1], t) => Has(c[2], t)

(* An entry states at least what the purge did for its tenant; it may also  *)
(* state what it did for others, and what was rolled back.                  *)
EntriesCover == \A t \in Tenants : entry[t].says >= entry[t].did

PurgeSound == PurgedWasDue /\ EveryTenantTried /\ NoOrphans /\ EntriesCover

(* Invoices, payments and audit entries are never deleted, and the deals,   *)
(* shipments and answers of a contact outlive it, whatever is purged and    *)
(* wherever it stops.                                                       *)
RecordsKept == [][\A r \in rows : r[1] \in Kept => r \in rows']_rows
=============================================================================
