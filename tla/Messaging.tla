----------------------------- MODULE Messaging -----------------------------
(***************************************************************************)
(* The life of an OUTBOUND WhatsApp message: the API handler that inserts   *)
(* the row and dispatches a Celery task, the task that calls the Cloud API  *)
(* and records the result, and the status webhooks that update the row.     *)
(*                                                                          *)
(* Two handlers create rows.  start_conversation dispatches the task and    *)
(* commits afterwards; send_message commits first, then looks the           *)
(* conversation up again and dispatches only when it finds it.              *)
(*                                                                          *)
(* The broker is at-least-once: task_acks_late and                          *)
(* task_reject_on_worker_lost put the task of a lost worker back in the     *)
(* queue with its retry count.  A worker that is lost between publishing a  *)
(* retry and acknowledging the original leaves two copies of the task.      *)
(* Every read-modify-write of a row is two steps, SELECT and COMMIT; the    *)
(* ORM's UPDATE names the columns that differ from what was selected.       *)
(* The k-th id the Cloud API gives a message is the number k, and 0 stands  *)
(* for a NULL external_id.                                                  *)
(***************************************************************************)
EXTENDS Naturals, Sequences, FiniteSets

CONSTANTS
    StartMsgs,      \* messages created by start_conversation
    SendMsgs,       \* messages created by send_message
    MaxRetries,     \* max_retries of send_whatsapp_message
    MaxFaults,      \* bound: faults of any kind per message
    MaxMessages,    \* bound: messages created in one behaviour
    Faulty,         \* messages whose worker or answer can be lost
    Erring,         \* messages whose worker's transactions can raise
    RowSecurity,    \* is the runtime role subject to row-level security?
    TokenReadable,  \* can the task read company.whatsapp_token?
    Ordered,        \* messages whose webhooks are known, in order, not repeated
    ExtraStatuses   \* wire statuses that parse_webhook does not know

ASSUME MessagesDisjoint == StartMsgs \cap SendMsgs = {}
ASSUME BoundsAreNat == MaxRetries \in Nat /\ MaxFaults \in Nat /\ MaxMessages \in Nat
ASSUME FlagsAreBoolean == {RowSecurity, TokenReadable} \subseteq BOOLEAN
ASSUME ExtraIsExtra ==
    ExtraStatuses \cap {"none", "pending", "sent", "delivered", "read", "failed"} = {}
ASSUME OrderedAreMessages == Ordered \subseteq StartMsgs \cup SendMsgs

Messages == StartMsgs \cup SendMsgs

(* One task per message, and one more for each lost retry.                  *)
Copies == 1..(1 + MaxFaults)

VARIABLES
    api,         \* where the API handler of each message stands
    row,         \* the messages table; status "none" before the INSERT
    configured,  \* company.whatsapp_phone_number_id is set
    task,        \* task[m][k]: copy k of the Celery task of message m
    cloud,       \* cloud[m][k]: what the Cloud API has done with id k of m
    hooks,       \* status webhooks in flight
    updates,     \* status webhook handlers between SELECT and COMMIT
    faults       \* lost workers, timed-out calls and errors, per message

cloudVars == <<cloud, hooks>>
vars == <<api, row, configured, task, cloud, hooks, updates, faults>>

KnownStatuses == {"sent", "delivered", "read", "failed"}
WireStatuses == KnownStatuses \cup ExtraStatuses
RowStatuses == {"none", "pending"} \cup KnownStatuses
ApiStates == {"idle", "inserted", "dispatched", "committed", "done", "aborted"}

(* What the second transaction of the task has to record.                   *)
Outcomes == {"succeeded", "errored", "unconfigured"}
TaskStates == Outcomes \cup
                {"none", "queued", "sending", "retrying", "acking", "finished"}

Row == [status : RowStatuses, ext : Nat]
Hook == [msg : Messages, id : Nat, status : WireStatuses]
Update == [msg : Messages, status : KnownStatuses]
Task == [at : TaskStates, tries : 0..MaxRetries, id : Nat,
         old : RowStatuses \cup {"unread"}]

NoRow == [status |-> "none", ext |-> 0]
NoTask == [at |-> "none", tries |-> 0, id |-> 0, old |-> "unread"]

(* A transaction of another connection sees the row once it is committed.   *)
Visible(m) == api[m] \in {"committed", "done"}

(* Mutant: a status it does not know is taken to be "delivered".            *)
ParseStatusDelivered(wire) == IF wire \in KnownStatuses THEN wire ELSE "delivered"

(* parse_webhook: a status it does not know is taken to be "sent".          *)
ParseStatus(wire) == IF wire \in KnownStatuses THEN wire ELSE "sent"

(* The status column after an UPDATE by a session that selected old.        *)
Flush(current, old, new) == IF old = new THEN current ELSE new

Init ==
    /\ api = [m \in Messages |-> "idle"]
    /\ row = [m \in Messages |-> NoRow]
    /\ configured \in BOOLEAN
    /\ task = [m \in Messages |-> [k \in Copies |-> NoTask]]
    /\ cloud = [m \in Messages |-> <<>>]
    /\ hooks = {}
    /\ updates = {}
    /\ faults = [m \in Messages |-> 0]

MayFail(m, kind) == m \in kind /\ faults[m] < MaxFaults

(* Copy k of the task of m becomes t; its state alone changes.              *)
Put(m, k, t) == task' = [task EXCEPT ![m] = [@ EXCEPT ![k] = t]]
Becomes(m, k, state) == Put(m, k, [task[m][k] EXCEPT !.at = state])

-----------------------------------------------------------------------------
(* API handlers *)

(* add_message: INSERT and flush inside the request's transaction.          *)
AddMessage(m) ==
    /\ api[m] = "idle"
    /\ Cardinality({x \in Messages : api[x] # "idle"}) < MaxMessages
    /\ api' = [api EXCEPT ![m] = "inserted"]
    /\ row' = [row EXCEPT ![m] = [status |-> "pending", ext |-> 0]]
    /\ UNCHANGED <<configured, task, cloudVars, updates, faults>>

(* start_conversation: send_whatsapp_message.delay inside the transaction.  *)
StartDispatch(m) ==
    /\ m \in StartMsgs
    /\ api[m] = "inserted"
    /\ api' = [api EXCEPT ![m] = "dispatched"]
    /\ Becomes(m, 1, "queued")
    /\ UNCHANGED <<row, configured, cloudVars, updates, faults>>

(* start_conversation: db.commit() is the last thing it does.               *)
StartCommit(m) ==
    /\ api[m] = "dispatched"
    /\ api' = [api EXCEPT ![m] = "done"]
    /\ UNCHANGED <<row, configured, task, cloudVars, updates, faults>>

(* send_message: db.commit() right after add_message.                       *)
SendCommit(m) ==
    /\ m \in SendMsgs
    /\ api[m] = "inserted"
    /\ api' = [api EXCEPT ![m] = "committed"]
    /\ UNCHANGED <<row, configured, task, cloudVars, updates, faults>>

(* send_message, after the commit: SELECT the conversation and its contact, *)
(* and dispatch if they are there.  The SET LOCAL of get_tenant_db ended    *)
(* with the transaction, so under row-level security neither is visible.    *)
SendDispatch(m) ==
    /\ api[m] = "committed"
    /\ api' = [api EXCEPT ![m] = "done"]
    /\ IF RowSecurity THEN UNCHANGED task ELSE Becomes(m, 1, "queued")
    /\ UNCHANGED <<row, configured, cloudVars, updates, faults>>

(* The handler raises, or its process dies, before the commit: get_db rolls *)
(* the transaction back.  A task that was dispatched stays dispatched.      *)
Rollback(m) ==
    /\ api[m] \in {"inserted", "dispatched"}
    /\ api' = [api EXCEPT ![m] = "aborted"]
    /\ row' = [row EXCEPT ![m] = NoRow]
    /\ UNCHANGED <<configured, task, cloudVars, updates, faults>>

(* PATCH and DELETE /channels/whatsapp set and clear the phone number.      *)
SetConfigured ==
    /\ configured' = ~configured
    /\ UNCHANGED <<api, row, task, cloudVars, updates, faults>>

-----------------------------------------------------------------------------
(* The task send_whatsapp_message *)

(* Mutant: one retry too many.                                              *)
RetryOnceMore(m, k) ==
    IF task[m][k].tries <= MaxRetries THEN "retrying" ELSE "acking"

(* self.retry after an exception, until max_retries is reached.             *)
RetryOrGiveUp(m, k) ==
    IF task[m][k].tries < MaxRetries THEN "retrying" ELSE "acking"

(* Mutant: an unconfigured company is skipped without marking the row.      *)
TaskUnconfiguredSilent(m, k) ==
    /\ task[m][k].at = "queued"
    /\ ~configured
    /\ Becomes(m, k, "acking")
    /\ UNCHANGED <<api, row, configured, cloudVars, updates, faults>>

(* First transaction of _async_send, company without a phone number.        *)
TaskUnconfigured(m, k) ==
    /\ task[m][k].at = "queued"
    /\ ~configured
    /\ Becomes(m, k, "unconfigured")
    /\ UNCHANGED <<api, row, configured, cloudVars, updates, faults>>

(* First transaction, configured company: the provider is built from        *)
(* company.whatsapp_token.  If that raises, the transaction rolls back and  *)
(* the task is retried without having touched the row.                      *)
TaskLoad(m, k) ==
    /\ task[m][k].at = "queued"
    /\ configured
    /\ Becomes(m, k, IF TokenReadable THEN "sending" ELSE RetryOrGiveUp(m, k))
    /\ UNCHANGED <<api, row, configured, cloudVars, updates, faults>>

(* The Cloud API accepts the message under a new id and will report it.     *)
Accept(m) ==
    /\ cloud' = [cloud EXCEPT ![m] = Append(@, "sent")]
    /\ hooks' = hooks \cup
                  {[msg |-> m, id |-> Len(cloud[m]) + 1, status |-> "sent"]}

(* Mutant: the id is on the row before the outcome is recorded.             *)
CallAcceptedEarlyId(m, k) ==
    /\ task[m][k].at = "sending"
    /\ Accept(m)
    /\ Put(m, k, [task[m][k] EXCEPT !.at = "succeeded", !.id = Len(cloud[m]) + 1])
    /\ row' = [row EXCEPT ![m].ext = Len(cloud[m]) + 1]
    /\ UNCHANGED <<api, configured, updates, faults>>

(* provider.send_message, outside any transaction, returns the id ...       *)
CallAccepted(m, k) ==
    /\ task[m][k].at = "sending"
    /\ Accept(m)
    /\ Put(m, k, [task[m][k] EXCEPT !.at = "succeeded", !.id = Len(cloud[m]) + 1])
    /\ UNCHANGED <<api, row, configured, updates, faults>>

(* ... or raises because the Cloud API refused the message ...              *)
CallRejected(m, k) ==
    /\ task[m][k].at = "sending"
    /\ Becomes(m, k, "errored")
    /\ UNCHANGED <<api, row, configured, cloudVars, updates, faults>>

(* ... or raises because the answer to an accepted message did not arrive.  *)
CallTimedOut(m, k) ==
    /\ task[m][k].at = "sending"
    /\ MayFail(m, Faulty)
    /\ faults' = [faults EXCEPT ![m] = @ + 1]
    /\ Accept(m)
    /\ Becomes(m, k, "errored")
    /\ UNCHANGED <<api, row, configured, updates>>

(* Recording an outcome: SELECT the message ...                             *)
SelectRow(m, k) ==
    /\ task[m][k].at \in Outcomes
    /\ task[m][k].old = "unread"
    /\ Put(m, k, [task[m][k] EXCEPT !.old =
                     IF Visible(m) THEN row[m].status ELSE "none"])
    /\ UNCHANGED <<api, row, configured, cloudVars, updates, faults>>

Selected(m, k, outcome) ==
    task[m][k].at = outcome /\ task[m][k].old # "unread"

Store(m, k, status, ext) ==
    row' = [row EXCEPT ![m] =
              IF task[m][k].old = "none" THEN @
              ELSE [status |-> Flush(@.status, task[m][k].old, status),
                    ext |-> ext]]

Recorded(m, k, state) ==
    Put(m, k, [task[m][k] EXCEPT !.at = state, !.old = "unread"])

(* Mutant: a recorded success goes through self.retry as well.              *)
PersistSentRetried(m, k) ==
    /\ Selected(m, k, "succeeded")
    /\ Store(m, k, "sent", task[m][k].id)
    /\ Recorded(m, k, RetryOrGiveUp(m, k))
    /\ UNCHANGED <<api, configured, cloudVars, updates, faults>>

(* ... and COMMIT the id the call returned, ...                             *)
PersistSent(m, k) ==
    /\ Selected(m, k, "succeeded")
    /\ Store(m, k, "sent", task[m][k].id)
    /\ Recorded(m, k, "acking")
    /\ UNCHANGED <<api, configured, cloudVars, updates, faults>>

(* ... or the failure, and re-raise it into self.retry, ...                 *)
PersistFailed(m, k) ==
    /\ Selected(m, k, "errored")
    /\ Store(m, k, "failed", row[m].ext)
    /\ Recorded(m, k, RetryOrGiveUp(m, k))
    /\ UNCHANGED <<api, configured, cloudVars, updates, faults>>

(* ... or "WhatsApp not configured", and return.                            *)
PersistUnconfigured(m, k) ==
    /\ Selected(m, k, "unconfigured")
    /\ Store(m, k, "failed", row[m].ext)
    /\ Recorded(m, k, "acking")
    /\ UNCHANGED <<api, configured, cloudVars, updates, faults>>

(* A copy of the task as it lies in the queue.                              *)
Queued(tries) == [NoTask EXCEPT !.at = "queued", !.tries = tries]

(* self.retry publishes the task again and the original is acknowledged.    *)
Retry(m, k) ==
    /\ task[m][k].at = "retrying"
    /\ Put(m, k, Queued(task[m][k].tries + 1))
    /\ UNCHANGED <<api, row, configured, cloudVars, updates, faults>>

(* acks_late: the broker forgets the task only after it has returned.       *)
Ack(m, k) ==
    /\ task[m][k].at = "acking"
    /\ Becomes(m, k, "finished")
    /\ UNCHANGED <<api, row, configured, cloudVars, updates, faults>>

(* The worker process is lost before the ack: the task is redelivered.      *)
WorkerLost(m, k) ==
    /\ task[m][k].at \in Outcomes \cup {"sending", "retrying", "acking"}
    /\ MayFail(m, Faulty)
    /\ faults' = [faults EXCEPT ![m] = @ + 1]
    /\ Put(m, k, Queued(task[m][k].tries))
    /\ UNCHANGED <<api, row, configured, cloudVars, updates>>

(* It is lost after the retry was published: both are in the queue.         *)
WorkerLostAfterRetry(m, k) ==
    /\ task[m][k].at = "retrying"
    /\ MayFail(m, Faulty)
    /\ faults' = [faults EXCEPT ![m] = @ + 1]
    /\ \E j \in Copies :
          /\ task[m][j].at = "none"
          /\ task' = [task EXCEPT ![m] =
                         [@ EXCEPT ![k] = Queued(task[m][k].tries),
                                   ![j] = Queued(task[m][k].tries + 1)]]
    /\ UNCHANGED <<api, row, configured, cloudVars, updates>>

(* The load or the outcome's transaction raises - in a statement, at its    *)
(* commit, or after a commit whose confirmation was lost - and `except      *)
(* Exception` retries the task as it would a refused call, also when the    *)
(* Cloud API has accepted the message.                                      *)
TransactionFails(m, k) ==
    /\ task[m][k].at \in Outcomes \cup {"queued", "acking"}
    /\ MayFail(m, Erring)
    /\ faults' = [faults EXCEPT ![m] = @ + 1]
    /\ Recorded(m, k, RetryOrGiveUp(m, k))
    /\ UNCHANGED <<api, row, configured, cloudVars, updates>>

-----------------------------------------------------------------------------
(* The Cloud API and its status webhooks *)

CloudNext(s) == CASE s = "sent" -> {"delivered", "failed"}
                  [] s = "delivered" -> {"read"}
                  [] OTHER -> {}

(* Meta's side: an accepted message is delivered and read, or fails.        *)
CloudProgress(m) ==
    \E k \in 1..Len(cloud[m]) : \E s \in CloudNext(cloud[m][k]) :
        /\ cloud' = [cloud EXCEPT ![m][k] = s]
        /\ hooks' = hooks \cup {[msg |-> m, id |-> k, status |-> s]}
        /\ UNCHANGED <<api, row, configured, task, updates, faults>>

(* Meta reports a status outside the ones parse_webhook knows.              *)
CloudExtra(m) ==
    /\ m \notin Ordered
    /\ \E k \in 1..Len(cloud[m]) : \E s \in ExtraStatuses :
          hooks' = hooks \cup {[msg |-> m, id |-> k, status |-> s]}
    /\ UNCHANGED <<api, row, configured, task, cloud, updates, faults>>

Rank(s) == CASE s = "read" -> 3 [] s = "delivered" -> 2
             [] s \in {"sent", "failed"} \cup ExtraStatuses -> 1 [] OTHER -> 0

Oldest(e) == \A f \in hooks :
    f.msg = e.msg /\ f.id = e.id /\ f.status # e.status =>
        Rank(e.status) < Rank(f.status) \/ e.status = "sent"

(* _handle_status_update: SELECT the row with that external_id; an unknown  *)
(* id, or phone number, is dropped and answered 200.  The webhooks of a     *)
(* message outside Ordered overtake each other, are handled concurrently    *)
(* and sent again.                                                          *)
StatusSelect(e) ==
    /\ e \in hooks
    /\ e.msg \in Ordered => Oldest(e) /\ \A u \in updates : u.msg # e.msg
    /\ hooks' = hooks \ {e} \/ (e.msg \notin Ordered /\ hooks' = hooks)
    /\ updates' = updates \cup
         {u \in {[msg |-> e.msg, status |-> ParseStatus(e.status)]} :
             configured /\ Visible(e.msg) /\ row[e.msg].ext = e.id
                /\ row[e.msg].status # u.status}
    /\ UNCHANGED <<api, row, configured, task, cloud, faults>>

(* ... and COMMIT the reported status by primary key, whatever the row      *)
(* holds by now.                                                            *)
StatusCommit(u) ==
    /\ u \in updates
    /\ updates' = updates \ {u}
    /\ row' = [row EXCEPT ![u.msg] = [@ EXCEPT !.status = u.status]]
    /\ UNCHANGED <<api, configured, task, cloudVars, faults>>

-----------------------------------------------------------------------------
ApiStep(m) == AddMessage(m) \/ StartDispatch(m) \/ StartCommit(m)
                \/ SendCommit(m) \/ SendDispatch(m) \/ Rollback(m)
WorkerStep(m, k) ==
    TaskUnconfigured(m, k) \/ TaskLoad(m, k) \/ CallAccepted(m, k)
      \/ CallRejected(m, k) \/ SelectRow(m, k) \/ PersistSent(m, k)
      \/ PersistFailed(m, k) \/ PersistUnconfigured(m, k) \/ Retry(m, k)
      \/ Ack(m, k)
FaultStep(m, k) ==
    CallTimedOut(m, k) \/ WorkerLost(m, k) \/ WorkerLostAfterRetry(m, k)
      \/ TransactionFails(m, k)
CloudStep(m) == CloudProgress(m) \/ CloudExtra(m)

Next ==
    \/ \E m \in Messages : ApiStep(m) \/ CloudStep(m)
    \/ \E m \in Messages, k \in Copies : WorkerStep(m, k) \/ FaultStep(m, k)
    \/ SetConfigured
    \/ \E e \in hooks : StatusSelect(e)
    \/ \E u \in updates : StatusCommit(u)

Spec == Init /\ [][Next]_vars

(* A live pool of workers executes every task it holds; neither the users,  *)
(* the Cloud API nor the webhooks owe the system anything.                  *)
FairSpec ==
    Spec /\ \A m \in Messages, k \in Copies : WF_vars(WorkerStep(m, k))

-----------------------------------------------------------------------------
(* Properties *)

TypeOK ==
    /\ api \in [Messages -> ApiStates]
    /\ row \in [Messages -> Row]
    /\ configured \in BOOLEAN
    /\ task \in [Messages -> [Copies -> Task]]
    /\ cloud \in [Messages -> Seq(KnownStatuses)]
    /\ hooks \subseteq Hook
    /\ updates \subseteq Update
    /\ faults \in [Messages -> 0..MaxFaults]

(* However often the task is retried, the customer gets a second copy of a  *)
(* message only when a worker was lost, an accepted call timed out or a     *)
(* transaction of the task raised, and at most one more for each of those.  *)
DuplicatesAreFaults == \A m \in Messages : Len(cloud[m]) <= 1 + faults[m]

(* The inbox never shows a check, double check or blue check that no copy   *)
(* of the message has earned at the Cloud API, in spite of resends, stale   *)
(* webhooks, lost updates and unknown statuses.                             *)
Earned(ids, status) ==
    status \in {"sent", "delivered", "read"} =>
        \E k \in 1..Len(ids) : Rank(status) <= Rank(ids[k])
StatusNeverAhead == \A m \in Messages : Earned(cloud[m], row[m].status)

(* "and update delivery status": when every copy of the task is over and    *)
(* the row exists, the row no longer says pending.  So it is for messages   *)
(* that send_message dispatches, which is after its commit.                 *)
Over(m) == /\ task[m][1].at = "finished"
           /\ \A k \in Copies : task[m][k].at \in {"none", "finished"}
Settled(m) == Over(m) /\ Visible(m) => row[m].status # "pending"
SendOutcomeRecorded == \A m \in SendMsgs : Settled(m)

(* With webhooks in order and no fault of the task, the status of a row     *)
(* that has its id only moves forward, although the task's own "sent" and   *)
(* the webhooks are written by different processes.                         *)
ForwardOnly ==
    \A m \in Ordered :
        faults'[m] = 0 /\ row[m].ext > 0
            => Rank(row'[m].status) >= Rank(row[m].status)
StatusMovesForward == [][ForwardOnly]_vars

(* A task that entered the queue ends, however its retries, redeliveries    *)
(* and errors follow each other; and once the token can be read, a row of   *)
(* send_message whose transactions did not raise no longer says pending,    *)
(* although workers are lost on the way.                                    *)
TaskEnds ==
    \A m \in Messages :
        task[m][1].at = "queued" ~>
            Over(m) /\ (TokenReadable /\ m \in SendMsgs \ Erring =>
                            row[m].status # "pending")
=============================================================================
