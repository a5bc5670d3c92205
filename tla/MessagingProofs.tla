-------------------------- MODULE MessagingProofs --------------------------
(***************************************************************************)
(* Proofs about Messaging, for every set of messages and every value of     *)
(* MaxRetries, MaxFaults and the flags.                                     *)
(***************************************************************************)
EXTENDS Messaging, FiniteSetTheorems, TLAPS

USE MessagesDisjoint, BoundsAreNat, FlagsAreBoolean, ExtraIsExtra

-----------------------------------------------------------------------------
(* Type correctness *)

(* A task that is about to be published again has a retry left.             *)
RetriesLeft ==
    \A m \in Messages, k \in Copies :
        task[m][k].at = "retrying" => task[m][k].tries < MaxRetries

TypeInv == TypeOK /\ RetriesLeft

(* Copy 1, the one the handlers dispatch, exists.                           *)
LEMMA FirstCopy == 1 \in Copies
  BY DEF Copies

LEMMA ParsedIsKnown == \A w : ParseStatus(w) \in KnownStatuses
  BY DEF ParseStatus, KnownStatuses

(* What Put does to the table of tasks.                                     *)
LEMMA PutTask ==
  ASSUME task \in [Messages -> [Copies -> Task]],
         NEW m \in Messages, NEW k \in Copies, NEW t \in Task, Put(m, k, t)
  PROVE  /\ task' \in [Messages -> [Copies -> Task]]
         /\ task'[m][k] = t
         /\ \A n \in Messages, j \in Copies :
               n # m \/ j # k => task'[n][j] = task[n][j]
  BY DEF Put

(* The records the task actions store are tasks.                            *)
LEMMA AtIsTask ==
  ASSUME NEW t \in Task, NEW s \in TaskStates, NEW u, u = [t EXCEPT !.at = s]
  PROVE  u \in Task /\ u.at = s /\ u.tries = t.tries
  BY DEF Task

LEMMA OldIsTask ==
  ASSUME NEW t \in Task, NEW o \in RowStatuses, NEW u, u = [t EXCEPT !.old = o]
  PROVE  u \in Task /\ u.at = t.at /\ u.tries = t.tries
  BY DEF Task

LEMMA QueuedIsTask ==
  ASSUME NEW i \in 0..MaxRetries
  PROVE  Queued(i) \in Task /\ Queued(i).at = "queued"
  BY DEF Task, Queued, NoTask, TaskStates

(* Storing a task keeps the types, unless it is one retry too many.         *)
LEMMA PutTyped ==
  ASSUME TypeInv, NEW m \in Messages, NEW k \in Copies, NEW t \in Task,
         t.at = "retrying" => t.tries < MaxRetries,
         Put(m, k, t)
  PROVE  task' \in [Messages -> [Copies -> Task]] /\ RetriesLeft'
  <1>1. task \in [Messages -> [Copies -> Task]]
    BY DEF TypeInv, TypeOK
  <1>2. /\ task' \in [Messages -> [Copies -> Task]]
        /\ task'[m][k] = t
        /\ \A n \in Messages, j \in Copies :
              n # m \/ j # k => task'[n][j] = task[n][j]
    BY <1>1, PutTask
  <1>3. ASSUME NEW n \in Messages, NEW j \in Copies, task'[n][j].at = "retrying"
        PROVE  task'[n][j].tries < MaxRetries
    <2>1. CASE n = m /\ j = k
      BY <1>2, <1>3, <2>1
    <2>2. CASE n # m \/ j # k
      BY <1>2, <1>3, <2>2 DEF TypeInv, RetriesLeft
    <2> QED
      BY <2>1, <2>2
  <1> QED
    BY <1>2, <1>3 DEF RetriesLeft

LEMMA PutState ==
  ASSUME TypeInv, NEW m \in Messages, NEW k \in Copies, NEW s \in TaskStates,
         s = "retrying" => task[m][k].tries < MaxRetries,
         Becomes(m, k, s)
  PROVE  task' \in [Messages -> [Copies -> Task]] /\ RetriesLeft'
  <1> DEFINE t == [task[m][k] EXCEPT !.at = s]
  <1>1. t \in Task /\ t.at = s /\ t.tries = task[m][k].tries
    BY AtIsTask DEF TypeInv, TypeOK
  <1>2. Put(m, k, t)
    BY DEF Becomes
  <1> HIDE DEF t
  <1> QED
    BY <1>1, <1>2, PutTyped

LEMMA PutRecorded ==
  ASSUME TypeInv, NEW m \in Messages, NEW k \in Copies, NEW s \in TaskStates,
         s = "retrying" => task[m][k].tries < MaxRetries,
         Recorded(m, k, s)
  PROVE  task' \in [Messages -> [Copies -> Task]] /\ RetriesLeft'
  <1> DEFINE t == [task[m][k] EXCEPT !.at = s, !.old = "unread"]
  <1>0. task[m][k] \in Task
    BY DEF TypeInv, TypeOK
  <1>1. t \in Task /\ t.at = s /\ t.tries = task[m][k].tries
    BY <1>0 DEF Task
  <1>2. Put(m, k, t)
    BY DEF Recorded
  <1> HIDE DEF t
  <1> QED
    BY <1>1, <1>2, PutTyped

LEMMA TypeInit == Init => TypeInv
  BY DEF Init, TypeInv, TypeOK, RetriesLeft, NoRow, NoTask, Row, Task, ApiStates,
         RowStatuses, TaskStates, Outcomes, KnownStatuses

(* No API handler breaks the types.                                         *)
LEMMA TypeApi ==
  ASSUME TypeInv, NEW m \in Messages, ApiStep(m)
  PROVE  TypeInv'
  <1>1. CASE AddMessage(m)
    BY <1>1 DEF AddMessage, TypeInv, TypeOK, RetriesLeft, Row, RowStatuses,
                ApiStates, cloudVars
  <1>2. CASE StartDispatch(m)
    BY <1>2, FirstCopy, PutState DEF StartDispatch, TypeInv, TypeOK, RetriesLeft,
                TaskStates, ApiStates, cloudVars
  <1>3. CASE StartCommit(m)
    BY <1>3 DEF StartCommit, TypeInv, TypeOK, RetriesLeft, ApiStates, cloudVars
  <1>4. CASE SendCommit(m)
    BY <1>4 DEF SendCommit, TypeInv, TypeOK, RetriesLeft, ApiStates, cloudVars
  <1>5. CASE SendDispatch(m)
    BY <1>5, FirstCopy, PutState DEF SendDispatch, TypeInv, TypeOK, RetriesLeft,
                TaskStates, ApiStates, cloudVars
  <1>6. CASE Rollback(m)
    BY <1>6 DEF Rollback, TypeInv, TypeOK, RetriesLeft, Row, RowStatuses, NoRow,
                ApiStates, cloudVars
  <1> QED
    BY <1>1, <1>2, <1>3, <1>4, <1>5, <1>6 DEF ApiStep

(* Storing an outcome leaves a well-typed row.                              *)
LEMMA TypeStore ==
  ASSUME TypeOK, NEW m \in Messages, NEW k \in Copies,
         NEW status \in KnownStatuses, NEW ext \in Nat, Store(m, k, status, ext)
  PROVE  row' \in [Messages -> Row]
  BY DEF TypeOK, Store, Flush, Row, RowStatuses

(* No step of a worker breaks the types.                                    *)
LEMMA TypeWorker ==
  ASSUME TypeInv, NEW m \in Messages, NEW k \in Copies, WorkerStep(m, k)
  PROVE  TypeInv'
  <1> DEFINE TaskOK == task \in [Messages -> [Copies -> Task]] /\ RetriesLeft
  <1>0. /\ \A s \in TaskStates : s = "retrying" \/ s \in TaskStates \ {"retrying"}
        /\ RetryOrGiveUp(m, k) \in TaskStates
        /\ RetryOrGiveUp(m, k) = "retrying" => task[m][k].tries < MaxRetries
    BY DEF RetryOrGiveUp, TaskStates
  <1>a. ASSUME TaskOK', UNCHANGED <<api, configured, cloudVars, updates, faults>>,
               row' \in [Messages -> Row]
        PROVE  TypeInv'
    BY <1>a DEF TypeInv, TypeOK, cloudVars
  <1>1. CASE TaskUnconfigured(m, k)
    BY <1>1, PutState DEF TaskUnconfigured, TypeInv, TypeOK, TaskStates, Outcomes,
                          cloudVars
  <1>2. CASE TaskLoad(m, k)
    <2>1. TaskOK'
      BY <1>2, <1>0, PutState DEF TaskLoad, TaskStates
    <2> QED
      BY <1>2, <2>1 DEF TaskLoad, TypeInv, TypeOK, cloudVars
  <1>3. CASE CallAccepted(m, k)
    <2>1. Len(cloud[m]) \in Nat /\ cloud[m] \in Seq(KnownStatuses)
      BY DEF TypeInv, TypeOK
    <2>2. TaskOK'
      <3> DEFINE t == [task[m][k] EXCEPT !.at = "succeeded", !.id = Len(cloud[m]) + 1]
      <3>0. /\ task[m][k] \in Task
            /\ Len(cloud[m]) + 1 \in Nat
            /\ "succeeded" \in TaskStates
        BY <2>1 DEF TypeInv, TypeOK, TaskStates, Outcomes
      <3>1. t \in Task /\ t.at = "succeeded"
        BY <3>0 DEF Task
      <3>2. Put(m, k, t)
        BY <1>3 DEF CallAccepted
      <3> HIDE DEF t
      <3> QED
        BY <3>1, <3>2, PutTyped
    <2>3. cloud' \in [Messages -> Seq(KnownStatuses)] /\ hooks' \subseteq Hook
      BY <1>3, <2>1 DEF CallAccepted, Accept, TypeInv, TypeOK, Hook, WireStatuses,
                        KnownStatuses
    <2> QED
      BY <1>3, <2>2, <2>3 DEF CallAccepted, TypeInv, TypeOK
  <1>4. CASE CallRejected(m, k)
    BY <1>4, PutState DEF CallRejected, TypeInv, TypeOK, TaskStates, Outcomes,
                          cloudVars
  <1>5. CASE SelectRow(m, k)
    <2>1. row[m].status \in RowStatuses /\ "none" \in RowStatuses
      BY DEF TypeInv, TypeOK, Row, RowStatuses
    <2>2. TaskOK'
      <3> DEFINE t == [task[m][k] EXCEPT !.old =
                         IF Visible(m) THEN row[m].status ELSE "none"]
      <3>1. t \in Task /\ t.at = task[m][k].at /\ t.tries = task[m][k].tries
        BY <2>1, OldIsTask DEF TypeInv, TypeOK
      <3>2. Put(m, k, t)
        BY <1>5 DEF SelectRow
      <3> HIDE DEF t
      <3> QED
        BY <3>1, <3>2, PutTyped DEF TypeInv, RetriesLeft
    <2> QED
      BY <1>5, <2>2 DEF SelectRow, TypeInv, TypeOK, cloudVars
  <1>6. CASE PersistSent(m, k)
    <2>1. row' \in [Messages -> Row]
      BY <1>6, TypeStore DEF PersistSent, KnownStatuses, TypeInv, TypeOK, Task
    <2>2. TaskOK'
      BY <1>6, PutRecorded DEF PersistSent, TaskStates
    <2> QED
      BY <1>6, <1>a, <2>1, <2>2 DEF PersistSent
  <1>7. CASE PersistFailed(m, k)
    <2>1. row' \in [Messages -> Row]
      BY <1>7, TypeStore DEF PersistFailed, KnownStatuses, TypeInv, TypeOK, Row
    <2>2. TaskOK'
      BY <1>7, <1>0, PutRecorded DEF PersistFailed
    <2> QED
      BY <1>7, <1>a, <2>1, <2>2 DEF PersistFailed
  <1>8. CASE PersistUnconfigured(m, k)
    <2>1. row' \in [Messages -> Row]
      BY <1>8, TypeStore DEF PersistUnconfigured, KnownStatuses, TypeInv, TypeOK, Row
    <2>2. TaskOK'
      BY <1>8, PutRecorded DEF PersistUnconfigured, TaskStates
    <2> QED
      BY <1>8, <1>a, <2>1, <2>2 DEF PersistUnconfigured
  <1>9. CASE Retry(m, k)
    <2>1. task[m][k].tries + 1 \in 0..MaxRetries
      BY <1>9 DEF Retry, TypeInv, TypeOK, RetriesLeft, Task
    <2>2. TaskOK'
      BY <1>9, <2>1, PutTyped, QueuedIsTask DEF Retry
    <2> QED
      BY <1>9, <2>2 DEF Retry, TypeInv, TypeOK, cloudVars
  <1>10. CASE Ack(m, k)
    BY <1>10, PutState DEF Ack, TypeInv, TypeOK, TaskStates, cloudVars
  <1> QED
    BY <1>1, <1>2, <1>3, <1>4, <1>5, <1>6, <1>7, <1>8, <1>9, <1>10
    DEF WorkerStep

(* No fault breaks the types.                                               *)
LEMMA TypeFault ==
  ASSUME TypeInv, NEW m \in Messages, NEW k \in Copies, FaultStep(m, k)
  PROVE  TypeInv'
  <1>0. /\ task[m][k].tries \in 0..MaxRetries
        /\ \A kind : MayFail(m, kind) => faults[m] + 1 \in 0..MaxFaults
    BY DEF MayFail, TypeInv, TypeOK, Task
  <1>1. CASE CallTimedOut(m, k)
    <2>1. cloud' \in [Messages -> Seq(KnownStatuses)] /\ hooks' \subseteq Hook
      BY <1>1 DEF CallTimedOut, Accept, TypeInv, TypeOK, Hook, WireStatuses,
                  KnownStatuses
    <2>2. task' \in [Messages -> [Copies -> Task]] /\ RetriesLeft'
      BY <1>1, PutState DEF CallTimedOut, TaskStates, Outcomes
    <2> QED
      BY <1>0, <1>1, <2>1, <2>2 DEF CallTimedOut, TypeInv, TypeOK
  <1>2. CASE WorkerLost(m, k)
    <2>1. task' \in [Messages -> [Copies -> Task]] /\ RetriesLeft'
      BY <1>0, <1>2, PutTyped, QueuedIsTask DEF WorkerLost
    <2> QED
      BY <1>0, <1>2, <2>1 DEF WorkerLost, TypeInv, TypeOK, cloudVars
  <1>3. CASE WorkerLostAfterRetry(m, k)
    <2>1. task[m][k].tries + 1 \in 0..MaxRetries
      BY <1>0, <1>3 DEF WorkerLostAfterRetry, TypeInv, RetriesLeft
    <2> DEFINE q == Queued(task[m][k].tries)
               r == Queued(task[m][k].tries + 1)
    <2>2. q \in Task /\ r \in Task /\ q.at = "queued" /\ r.at = "queued"
      BY <1>0, <2>1, QueuedIsTask
    <2>3. PICK j \in Copies :
            task' = [task EXCEPT ![m] = [@ EXCEPT ![k] = q, ![j] = r]]
      BY <1>3 DEF WorkerLostAfterRetry
    <2> HIDE DEF q, r
    <2>4. task' \in [Messages -> [Copies -> Task]]
      BY <2>2, <2>3 DEF TypeInv, TypeOK
    <2>5. \A n \in Messages, i \in Copies :
            task'[n][i] \in {q, r, task[n][i]}
      BY <2>3 DEF TypeInv, TypeOK
    <2>6. RetriesLeft'
      BY <2>2, <2>5 DEF TypeInv, RetriesLeft
    <2> QED
      BY <1>0, <1>3, <2>4, <2>6 DEF WorkerLostAfterRetry, TypeInv, TypeOK, cloudVars
  <1>4. CASE TransactionFails(m, k)
    <2>1. /\ RetryOrGiveUp(m, k) \in TaskStates
          /\ RetryOrGiveUp(m, k) = "retrying" => task[m][k].tries < MaxRetries
      BY DEF RetryOrGiveUp, TaskStates
    <2>2. task' \in [Messages -> [Copies -> Task]] /\ RetriesLeft'
      BY <1>4, <2>1, PutRecorded DEF TransactionFails
    <2> QED
      BY <1>0, <1>4, <2>2 DEF TransactionFails, TypeInv, TypeOK, cloudVars
  <1> QED
    BY <1>1, <1>2, <1>3, <1>4 DEF FaultStep

(* Neither do the Cloud API, its webhooks and the settings page.            *)
LEMMA TypeCloud ==
  ASSUME TypeInv,
         \/ \E m \in Messages : CloudStep(m)
         \/ \E e \in hooks : StatusSelect(e)
         \/ \E u \in updates : StatusCommit(u)
         \/ SetConfigured
  PROVE  TypeInv'
  <1> USE DEF TypeInv, TypeOK, RetriesLeft
  <1>1. CASE \E m \in Messages : CloudProgress(m)
    BY <1>1 DEF CloudProgress, CloudNext, Hook, WireStatuses, KnownStatuses
  <1>2. CASE \E m \in Messages : CloudExtra(m)
    BY <1>2 DEF CloudExtra, Hook, WireStatuses
  <1>3. CASE \E e \in hooks : StatusSelect(e)
    BY <1>3, ParsedIsKnown DEF StatusSelect, Hook, Update
  <1>4. CASE \E u \in updates : StatusCommit(u)
    <2>1. PICK u \in updates : StatusCommit(u)
      BY <1>4
    <2>2. u.msg \in Messages /\ u.status \in KnownStatuses
      BY DEF Update
    <2>3. [row[u.msg] EXCEPT !.status = u.status] \in Row
      BY <2>2 DEF Row, RowStatuses
    <2>4. row' \in [Messages -> Row]
      BY <2>1, <2>2, <2>3 DEF StatusCommit
    <2> QED
      BY <2>1, <2>4 DEF StatusCommit, cloudVars
  <1>5. CASE SetConfigured
    BY <1>5 DEF SetConfigured, cloudVars
  <1> QED
    BY <1>1, <1>2, <1>3, <1>4, <1>5 DEF CloudStep

LEMMA TypeStep == TypeInv /\ [Next]_vars => TypeInv'
  <1> SUFFICES ASSUME TypeInv, [Next]_vars PROVE TypeInv'
    OBVIOUS
  <1>1. CASE Next
    BY <1>1, TypeApi, TypeWorker, TypeFault, TypeCloud DEF Next
  <1>2. CASE UNCHANGED vars
    BY <1>2 DEF vars, TypeInv, TypeOK, RetriesLeft
  <1> QED
    BY <1>1, <1>2

(* Every reachable state is well typed and no task is retried more than     *)
(* max_retries times.                                                       *)
THEOREM TypeCorrect == Spec => [](TypeOK /\ RetriesLeft)
  BY TypeInit, TypeStep, PTL DEF Spec, TypeInv

-----------------------------------------------------------------------------
(* Duplicates *)

(* The states of a task that may still call the Cloud API without another   *)
(* fault, and the copies that are in one of them.                           *)
LiveStates == {"queued", "sending", "errored", "retrying"}
LiveIn(copies) == {k \in Copies : copies[k].at \in LiveStates}

(* Ids given so far and live copies together are within the budget.         *)
Within(ids, copies, lost) == Len(ids) + Cardinality(LiveIn(copies)) <= 1 + lost
SendBudget == \A m \in Messages : Within(cloud[m], task[m], faults[m])

(* A message whose handler has not dispatched has no task and no id.        *)
Undispatched ==
    \A m \in Messages : api[m] \in {"idle", "inserted", "committed"} =>
        cloud[m] = <<>> /\ \A k \in Copies : task[m][k].at = "none"

DuplicatesInv == SendBudget /\ Undispatched

LEMMA LiveFinite ==
  ASSUME NEW copies
  PROVE  /\ IsFiniteSet(LiveIn(copies))
         /\ Cardinality(LiveIn(copies)) \in Nat
  <1>1. IsFiniteSet(Copies)
    BY FS_Interval DEF Copies
  <1>2. LiveIn(copies) \in SUBSET Copies
    BY DEF LiveIn
  <1> QED
    BY <1>1, <1>2, FS_Subset, FS_CardinalityType

(* One more live copy at most, or one less.                                 *)
LEMMA LiveGrows ==
  ASSUME NEW before, NEW after, NEW k,
         LiveIn(after) \subseteq LiveIn(before) \cup {k}
  PROVE  Cardinality(LiveIn(after)) <= Cardinality(LiveIn(before)) + 1
  <1> DEFINE B == LiveIn(before)
             A == LiveIn(after)
  <1>1. IsFiniteSet(B) /\ Cardinality(B) \in Nat /\ Cardinality(A) \in Nat
    BY LiveFinite
  <1>2. /\ IsFiniteSet(B \cup {k})
        /\ Cardinality(B \cup {k}) \in {Cardinality(B), Cardinality(B) + 1}
    BY <1>1, FS_AddElement
  <1>3. Cardinality(A) <= Cardinality(B \cup {k})
    BY <1>2, FS_Subset
  <1> HIDE DEF A, B
  <1> QED
    BY <1>1, <1>2, <1>3 DEF A, B

LEMMA LiveShrinks ==
  ASSUME NEW before, NEW after, LiveIn(after) \subseteq LiveIn(before)
  PROVE  Cardinality(LiveIn(after)) <= Cardinality(LiveIn(before))
  BY LiveFinite, FS_Subset

LEMMA LiveRemoved ==
  ASSUME NEW before, NEW after, NEW k \in LiveIn(before),
         LiveIn(after) \subseteq LiveIn(before) \ {k}
  PROVE  Cardinality(LiveIn(after)) + 1 <= Cardinality(LiveIn(before))
  <1> DEFINE B == LiveIn(before)
             A == LiveIn(after)
  <1>1. IsFiniteSet(B) /\ Cardinality(B) \in Nat /\ Cardinality(A) \in Nat
    BY LiveFinite
  <1>2. IsFiniteSet(B \ {k}) /\ Cardinality(B \ {k}) = Cardinality(B) - 1
    BY <1>1, FS_RemoveElement
  <1>3. Cardinality(A) <= Cardinality(B \ {k})
    BY <1>2, FS_Subset
  <1> HIDE DEF A, B
  <1> QED
    BY <1>1, <1>2, <1>3 DEF A, B

(* Becomes and Recorded are Puts.                                           *)
LEMMA BecomesPut ==
  ASSUME TypeInv, NEW m \in Messages, NEW k \in Copies, NEW s \in TaskStates,
         Becomes(m, k, s)
  PROVE  \E t \in Task : Put(m, k, t) /\ t.at = s
  <1> DEFINE t == [task[m][k] EXCEPT !.at = s]
  <1>1. t \in Task /\ t.at = s
    BY AtIsTask DEF TypeInv, TypeOK
  <1>2. Put(m, k, t)
    BY DEF Becomes
  <1> HIDE DEF t
  <1> QED
    BY <1>1, <1>2

LEMMA RecordedPut ==
  ASSUME TypeInv, NEW m \in Messages, NEW k \in Copies, NEW s \in TaskStates,
         Recorded(m, k, s)
  PROVE  \E t \in Task : Put(m, k, t) /\ t.at = s
  <1> DEFINE t == [task[m][k] EXCEPT !.at = s, !.old = "unread"]
  <1>0. task[m][k] \in Task
    BY DEF TypeInv, TypeOK
  <1>1. t \in Task /\ t.at = s
    BY <1>0 DEF Task
  <1>2. Put(m, k, t)
    BY DEF Recorded
  <1> HIDE DEF t
  <1> QED
    BY <1>1, <1>2

(* What a Put does to the live copies.                                      *)
LEMMA PutLive ==
  ASSUME TypeInv, NEW m \in Messages, NEW k \in Copies, NEW t \in Task,
         Put(m, k, t)
  PROVE  /\ \A n \in Messages : n # m => LiveIn(task'[n]) = LiveIn(task[n])
         /\ LiveIn(task'[m]) \subseteq LiveIn(task[m]) \cup {k}
         /\ t.at \notin LiveStates =>
               LiveIn(task'[m]) \subseteq LiveIn(task[m]) \ {k}
         /\ task[m][k].at \in LiveStates =>
               LiveIn(task'[m]) \subseteq LiveIn(task[m])
  <1>1. task \in [Messages -> [Copies -> Task]]
    BY DEF TypeInv, TypeOK
  <1>2. /\ task'[m][k] = t
        /\ \A n \in Messages, j \in Copies :
              n # m \/ j # k => task'[n][j] = task[n][j]
    BY <1>1, PutTask
  <1> QED
    BY <1>2 DEF LiveIn

(* A step that makes no copy live, gives no id and loses nothing.           *)
LEMMA QuietStep ==
  ASSUME TypeInv, DuplicatesInv, cloud' = cloud, faults' = faults,
         \A n \in Messages : LiveIn(task'[n]) \subseteq LiveIn(task[n])
  PROVE  SendBudget'
  <1> SUFFICES ASSUME NEW n \in Messages
               PROVE  Within(cloud'[n], task'[n], faults'[n])
    BY DEF SendBudget
  <1>1. Cardinality(LiveIn(task'[n])) <= Cardinality(LiveIn(task[n]))
    BY LiveShrinks
  <1>2. /\ Cardinality(LiveIn(task'[n])) \in Nat
        /\ Cardinality(LiveIn(task[n])) \in Nat
        /\ Len(cloud[n]) \in Nat /\ faults[n] \in Nat
    BY LiveFinite DEF TypeInv, TypeOK
  <1> QED
    BY <1>1, <1>2 DEF DuplicatesInv, SendBudget, Within

(* A step of a task that was dispatched leaves Undispatched alone.          *)
LEMMA DispatchedStep ==
  ASSUME TypeInv, DuplicatesInv, NEW m \in Messages, NEW k \in Copies,
         task[m][k].at # "none", api' = api,
         \A n \in Messages \ {m} : task'[n] = task[n] /\ cloud'[n] = cloud[n]
  PROVE  Undispatched'
  <1>1. api[m] \notin {"idle", "inserted", "committed"}
    BY DEF DuplicatesInv, Undispatched
  <1> QED
    BY <1>1 DEF DuplicatesInv, Undispatched

LEMMA DuplicatesInit == Init => DuplicatesInv
  <1> SUFFICES ASSUME Init PROVE DuplicatesInv
    OBVIOUS
  <1>1. Undispatched
    BY DEF Init, Undispatched, NoTask
  <1>2. ASSUME NEW m \in Messages PROVE Within(cloud[m], task[m], faults[m])
    <2>1. LiveIn(task[m]) = {}
      BY DEF Init, LiveIn, LiveStates, NoTask
    <2>2. Len(cloud[m]) = 0 /\ faults[m] = 0
      BY DEF Init
    <2> QED
      BY <2>1, <2>2, FS_EmptySet DEF Within
  <1> QED
    BY <1>1, <1>2 DEF DuplicatesInv, SendBudget

(* Dispatching copy 1 of a message that has no task yet.                    *)
LEMMA Dispatch ==
  ASSUME TypeInv, DuplicatesInv, NEW m \in Messages,
         api[m] \in {"inserted", "committed"}, Becomes(m, 1, "queued"),
         cloud' = cloud, faults' = faults
  PROVE  SendBudget'
  <1>1. /\ cloud[m] = <<>> /\ LiveIn(task[m]) = {}
    BY DEF DuplicatesInv, Undispatched, LiveIn, LiveStates
  <1>2. PICK t \in Task : Put(m, 1, t)
    BY FirstCopy, BecomesPut DEF TaskStates
  <1>3. /\ \A n \in Messages : n # m => LiveIn(task'[n]) = LiveIn(task[n])
        /\ LiveIn(task'[m]) \subseteq LiveIn(task[m]) \cup {1}
    BY <1>2, FirstCopy, PutLive
  <1>4. /\ Cardinality(LiveIn(task'[m])) <= Cardinality(LiveIn(task[m])) + 1
        /\ Cardinality(LiveIn(task'[m])) \in Nat
        /\ Cardinality(LiveIn(task[m])) = 0
        /\ Len(cloud[m]) = 0 /\ faults[m] \in Nat
    <2>1. Cardinality(LiveIn(task'[m])) <= Cardinality(LiveIn(task[m])) + 1
      BY <1>3, LiveGrows
    <2>2. Len(cloud[m]) = 0 /\ faults[m] \in Nat
      BY <1>1 DEF TypeInv, TypeOK
    <2> QED
      BY <1>1, <2>1, <2>2, LiveFinite, FS_EmptySet
  <1>5. Within(cloud'[m], task'[m], faults'[m])
    BY <1>4 DEF Within
  <1>6. ASSUME NEW n \in Messages, n # m
        PROVE  Within(cloud'[n], task'[n], faults'[n])
    BY <1>3, <1>6 DEF DuplicatesInv, SendBudget, Within
  <1> QED
    BY <1>5, <1>6 DEF SendBudget

LEMMA DuplicatesApi ==
  ASSUME TypeInv, DuplicatesInv, NEW m \in Messages, ApiStep(m)
  PROVE  DuplicatesInv'
  <1>0. api \in [Messages -> ApiStates] /\ task \in [Messages -> [Copies -> Task]]
    BY DEF TypeInv, TypeOK
  <1>1. CASE AddMessage(m)
    <2>1. SendBudget'
      BY <1>1, QuietStep DEF AddMessage, cloudVars
    <2> QED
      BY <1>0, <1>1, <2>1 DEF AddMessage, DuplicatesInv, Undispatched, cloudVars
  <1>2. CASE StartDispatch(m)
    <2>1. SendBudget'
      BY <1>2, Dispatch DEF StartDispatch, cloudVars
    <2>2. ASSUME NEW n \in Messages, n # m PROVE task'[n] = task[n] /\ api'[n] = api[n]
      BY <1>0, <1>2, <2>2 DEF StartDispatch, Becomes, Put
    <2>3. api'[m] = "dispatched"
      BY <1>0, <1>2 DEF StartDispatch
    <2> QED
      BY <1>2, <2>1, <2>2, <2>3
      DEF StartDispatch, DuplicatesInv, Undispatched, cloudVars
  <1>3. CASE StartCommit(m)
    <2>1. SendBudget'
      BY <1>3, QuietStep DEF StartCommit, cloudVars
    <2> QED
      BY <1>0, <1>3, <2>1 DEF StartCommit, DuplicatesInv, Undispatched, cloudVars
  <1>4. CASE SendCommit(m)
    <2>1. SendBudget'
      BY <1>4, QuietStep DEF SendCommit, cloudVars
    <2> QED
      BY <1>0, <1>4, <2>1 DEF SendCommit, DuplicatesInv, Undispatched, cloudVars
  <1>5. CASE SendDispatch(m)
    <2>1. SendBudget'
      BY <1>5, Dispatch, QuietStep DEF SendDispatch, cloudVars
    <2>2. ASSUME NEW n \in Messages, n # m PROVE task'[n] = task[n] /\ api'[n] = api[n]
      BY <1>0, <1>5, <2>2 DEF SendDispatch, Becomes, Put
    <2>3. api'[m] = "done"
      BY <1>0, <1>5 DEF SendDispatch
    <2> QED
      BY <1>5, <2>1, <2>2, <2>3
      DEF SendDispatch, DuplicatesInv, Undispatched, cloudVars
  <1>6. CASE Rollback(m)
    <2>1. SendBudget'
      BY <1>6, QuietStep DEF Rollback, cloudVars
    <2> QED
      BY <1>0, <1>6, <2>1 DEF Rollback, DuplicatesInv, Undispatched, cloudVars
  <1> QED
    BY <1>1, <1>2, <1>3, <1>4, <1>5, <1>6 DEF ApiStep

(* A copy moves between states without giving an id: no live copy appears.  *)
LEMMA QuietPut ==
  ASSUME TypeInv, DuplicatesInv, NEW m \in Messages, NEW k \in Copies,
         NEW t \in Task, Put(m, k, t),
         t.at \in LiveStates => task[m][k].at \in LiveStates,
         task[m][k].at # "none", UNCHANGED <<api, cloud, faults>>
  PROVE  DuplicatesInv'
  <1>1. \A n \in Messages : LiveIn(task'[n]) \subseteq LiveIn(task[n])
    BY PutLive
  <1>2. SendBudget'
    BY <1>1, QuietStep
  <1>3. \A n \in Messages \ {m} : task'[n] = task[n]
    BY DEF Put, TypeInv, TypeOK
  <1>4. Undispatched'
    BY <1>3, DispatchedStep
  <1> QED
    BY <1>2, <1>4 DEF DuplicatesInv

LEMMA DuplicatesWorker ==
  ASSUME TypeInv, DuplicatesInv, NEW m \in Messages, NEW k \in Copies,
         WorkerStep(m, k)
  PROVE  DuplicatesInv'
  <1>0. RetryOrGiveUp(m, k) \in {"retrying", "acking"}
    BY DEF RetryOrGiveUp
  <1> USE DEF TaskStates, Outcomes, LiveStates, cloudVars
  <1>1. CASE TaskUnconfigured(m, k)
    <2>1. PICK t \in Task : Put(m, k, t) /\ t.at = "unconfigured"
      BY <1>1, BecomesPut DEF TaskUnconfigured
    <2> QED
      BY <1>1, <2>1, QuietPut DEF TaskUnconfigured
  <1>2. CASE TaskLoad(m, k)
    <2>1. PICK t \in Task : Put(m, k, t) /\ t.at \in {"sending", "retrying", "acking"}
      BY <1>0, <1>2, BecomesPut DEF TaskLoad
    <2> QED
      BY <1>2, <2>1, QuietPut DEF TaskLoad
  <1>3. CASE CallAccepted(m, k)
    <2> DEFINE t == [task[m][k] EXCEPT !.at = "succeeded", !.id = Len(cloud[m]) + 1]
    <2>1. t \in Task /\ t.at = "succeeded"
      <3>1. task[m][k] \in Task /\ Len(cloud[m]) + 1 \in Nat
        BY DEF TypeInv, TypeOK
      <3> QED
        BY <3>1 DEF Task
    <2>2. Put(m, k, t)
      BY <1>3 DEF CallAccepted
    <2> HIDE DEF t
    <2>3. /\ \A n \in Messages : n # m => LiveIn(task'[n]) = LiveIn(task[n])
          /\ LiveIn(task'[m]) \subseteq LiveIn(task[m]) \ {k}
      BY <2>1, <2>2, PutLive
    <2>4. k \in LiveIn(task[m])
      BY <1>3 DEF CallAccepted, LiveIn
    <2>5. /\ Cardinality(LiveIn(task'[m])) + 1 <= Cardinality(LiveIn(task[m]))
          /\ Cardinality(LiveIn(task'[m])) \in Nat
          /\ Cardinality(LiveIn(task[m])) \in Nat
      BY <2>3, <2>4, LiveRemoved, LiveFinite
    <2>6. /\ Len(cloud'[m]) = Len(cloud[m]) + 1
          /\ Len(cloud[m]) \in Nat /\ faults[m] \in Nat
          /\ \A n \in Messages \ {m} : cloud'[n] = cloud[n]
      BY <1>3 DEF CallAccepted, Accept, TypeInv, TypeOK
    <2>7. Within(cloud'[m], task'[m], faults'[m])
      BY <1>3, <2>5, <2>6 DEF CallAccepted, DuplicatesInv, SendBudget, Within
    <2>8. \A n \in Messages \ {m} : Within(cloud'[n], task'[n], faults'[n])
      BY <1>3, <2>3, <2>6 DEF CallAccepted, DuplicatesInv, SendBudget, Within
    <2>9. Undispatched'
      <3>1. \A n \in Messages \ {m} : task'[n] = task[n]
        BY <2>2 DEF Put, TypeInv, TypeOK
      <3> QED
        BY <1>3, <2>6, <3>1, DispatchedStep DEF CallAccepted
    <2> QED
      BY <2>7, <2>8, <2>9 DEF DuplicatesInv, SendBudget
  <1>4. CASE CallRejected(m, k)
    <2>1. PICK t \in Task : Put(m, k, t) /\ t.at = "errored"
      BY <1>4, BecomesPut DEF CallRejected
    <2> QED
      BY <1>4, <2>1, QuietPut DEF CallRejected
  <1>5. CASE SelectRow(m, k)
    <2> DEFINE t == [task[m][k] EXCEPT !.old =
                       IF Visible(m) THEN row[m].status ELSE "none"]
    <2>1. t \in Task /\ t.at = task[m][k].at
      <3>1. task[m][k] \in Task /\ row[m].status \in RowStatuses /\ "none" \in RowStatuses
        BY DEF TypeInv, TypeOK, Row, RowStatuses
      <3> QED
        BY <3>1, OldIsTask
    <2>2. Put(m, k, t)
      BY <1>5 DEF SelectRow
    <2> HIDE DEF t
    <2> QED
      BY <1>5, <2>1, <2>2, QuietPut DEF SelectRow
  <1>6. CASE PersistSent(m, k)
    <2>1. PICK t \in Task : Put(m, k, t) /\ t.at = "acking"
      BY <1>6, RecordedPut DEF PersistSent
    <2> QED
      BY <1>6, <2>1, QuietPut DEF PersistSent, Selected
  <1>7. CASE PersistFailed(m, k)
    <2>1. PICK t \in Task : Put(m, k, t) /\ t.at \in {"retrying", "acking"}
      BY <1>0, <1>7, RecordedPut DEF PersistFailed
    <2> QED
      BY <1>7, <2>1, QuietPut DEF PersistFailed, Selected
  <1>8. CASE PersistUnconfigured(m, k)
    <2>1. PICK t \in Task : Put(m, k, t) /\ t.at = "acking"
      BY <1>8, RecordedPut DEF PersistUnconfigured
    <2> QED
      BY <1>8, <2>1, QuietPut DEF PersistUnconfigured, Selected
  <1>9. CASE Retry(m, k)
    <2>1. task[m][k].tries + 1 \in 0..MaxRetries
      BY <1>9 DEF Retry, TypeInv, TypeOK, RetriesLeft, Task
    <2> QED
      BY <1>9, <2>1, QueuedIsTask, QuietPut DEF Retry
  <1>10. CASE Ack(m, k)
    <2>1. PICK t \in Task : Put(m, k, t) /\ t.at = "finished"
      BY <1>10, BecomesPut DEF Ack
    <2> QED
      BY <1>10, <2>1, QuietPut DEF Ack
  <1> QED
    BY <1>1, <1>2, <1>3, <1>4, <1>5, <1>6, <1>7, <1>8, <1>9, <1>10
    DEF WorkerStep

(* One more live copy or one more id, paid for with one fault.              *)
LEMMA PaidStep ==
  ASSUME TypeInv, DuplicatesInv, NEW m \in Messages, NEW j \in Copies,
         task[m][j].at # "none",
         api' = api, faults' = [faults EXCEPT ![m] = @ + 1],
         \A n \in Messages \ {m} : task'[n] = task[n] /\ cloud'[n] = cloud[n],
         \/ /\ cloud'[m] = cloud[m]
            /\ \E k \in Copies : LiveIn(task'[m]) \subseteq LiveIn(task[m]) \cup {k}
         \/ /\ Len(cloud'[m]) = Len(cloud[m]) + 1
            /\ LiveIn(task'[m]) \subseteq LiveIn(task[m])
  PROVE  DuplicatesInv'
  <1>1. /\ Cardinality(LiveIn(task'[m])) \in Nat
        /\ Cardinality(LiveIn(task[m])) \in Nat
        /\ Len(cloud[m]) \in Nat /\ faults[m] \in Nat
        /\ faults'[m] = faults[m] + 1
        /\ \A n \in Messages \ {m} : faults'[n] = faults[n]
    BY LiveFinite DEF TypeInv, TypeOK
  <1>2. Len(cloud'[m]) + Cardinality(LiveIn(task'[m]))
           <= Len(cloud[m]) + Cardinality(LiveIn(task[m])) + 1
    <2>1. CASE /\ cloud'[m] = cloud[m]
               /\ \E k \in Copies :
                     LiveIn(task'[m]) \subseteq LiveIn(task[m]) \cup {k}
      <3>1. Cardinality(LiveIn(task'[m])) <= Cardinality(LiveIn(task[m])) + 1
        BY <2>1, LiveGrows
      <3> QED
        BY <1>1, <2>1, <3>1
    <2>2. CASE /\ Len(cloud'[m]) = Len(cloud[m]) + 1
               /\ LiveIn(task'[m]) \subseteq LiveIn(task[m])
      <3>1. Cardinality(LiveIn(task'[m])) <= Cardinality(LiveIn(task[m]))
        BY <2>2, LiveShrinks
      <3> QED
        BY <1>1, <2>2, <3>1
    <2> QED
      BY <2>1, <2>2
  <1>3. Within(cloud'[m], task'[m], faults'[m])
    <2>1. Len(cloud'[m]) \in Nat
      BY <1>1
    <2> QED
      BY <1>1, <1>2, <2>1 DEF DuplicatesInv, SendBudget, Within
  <1>4. \A n \in Messages \ {m} : Within(cloud'[n], task'[n], faults'[n])
    BY <1>1 DEF DuplicatesInv, SendBudget, Within
  <1>5. Undispatched'
    BY DispatchedStep
  <1> QED
    BY <1>3, <1>4, <1>5 DEF DuplicatesInv, SendBudget

LEMMA DuplicatesFault ==
  ASSUME TypeInv, DuplicatesInv, NEW m \in Messages, NEW k \in Copies,
         FaultStep(m, k)
  PROVE  DuplicatesInv'
  <1>0. /\ task \in [Messages -> [Copies -> Task]]
        /\ task[m][k].tries \in 0..MaxRetries
        /\ cloud \in [Messages -> Seq(KnownStatuses)]
    BY DEF TypeInv, TypeOK, Task
  <1> USE DEF TaskStates, Outcomes, LiveStates, cloudVars
  <1>1. CASE CallTimedOut(m, k)
    <2>1. PICK t \in Task : Put(m, k, t) /\ t.at = "errored"
      BY <1>1, BecomesPut DEF CallTimedOut
    <2>2. LiveIn(task'[m]) \subseteq LiveIn(task[m])
      BY <1>1, <2>1, PutLive DEF CallTimedOut
    <2>3. /\ Len(cloud'[m]) = Len(cloud[m]) + 1
          /\ \A n \in Messages \ {m} : cloud'[n] = cloud[n]
      BY <1>0, <1>1 DEF CallTimedOut, Accept
    <2>4. \A n \in Messages \ {m} : task'[n] = task[n]
      BY <1>0, <2>1 DEF Put
    <2> QED
      BY <1>1, <2>2, <2>3, <2>4, PaidStep DEF CallTimedOut
  <1>2. CASE WorkerLost(m, k)
    <2>1. LiveIn(task'[m]) \subseteq LiveIn(task[m]) \cup {k}
      BY <1>0, <1>2, PutLive, QueuedIsTask DEF WorkerLost
    <2>2. \A n \in Messages \ {m} : task'[n] = task[n]
      BY <1>0, <1>2 DEF WorkerLost, Put
    <2> QED
      BY <1>2, <2>1, <2>2, PaidStep DEF WorkerLost
  <1>3. CASE WorkerLostAfterRetry(m, k)
    <2> DEFINE q == Queued(task[m][k].tries)
               r == Queued(task[m][k].tries + 1)
    <2>1. PICK j \in Copies :
            task' = [task EXCEPT ![m] = [@ EXCEPT ![k] = q, ![j] = r]]
      BY <1>3 DEF WorkerLostAfterRetry
    <2> HIDE DEF q, r
    <2>2. /\ \A i \in Copies \ {j, k} : task'[m][i] = task[m][i]
          /\ \A n \in Messages \ {m} : task'[n] = task[n]
      BY <1>0, <2>1
    <2>3. k \in LiveIn(task[m])
      BY <1>3 DEF WorkerLostAfterRetry, LiveIn
    <2>4. LiveIn(task'[m]) \subseteq LiveIn(task[m]) \cup {j}
      BY <2>2, <2>3 DEF LiveIn
    <2> QED
      BY <1>3, <2>2, <2>4, PaidStep DEF WorkerLostAfterRetry
  <1>4. CASE TransactionFails(m, k)
    <2>1. PICK t \in Task : Put(m, k, t) /\ t.at \in {"retrying", "acking"}
      BY <1>4, RecordedPut DEF TransactionFails, RetryOrGiveUp
    <2>2. LiveIn(task'[m]) \subseteq LiveIn(task[m]) \cup {k}
      BY <2>1, PutLive
    <2>3. \A n \in Messages \ {m} : task'[n] = task[n]
      BY <1>0, <2>1 DEF Put
    <2> QED
      BY <1>4, <2>2, <2>3, PaidStep DEF TransactionFails
  <1> QED
    BY <1>1, <1>2, <1>3, <1>4 DEF FaultStep

LEMMA DuplicatesCloud ==
  ASSUME TypeInv, DuplicatesInv,
         \/ \E m \in Messages : CloudStep(m)
         \/ \E e \in hooks : StatusSelect(e)
         \/ \E u \in updates : StatusCommit(u)
         \/ SetConfigured
  PROVE  DuplicatesInv'
  <1>1. CASE \E m \in Messages : CloudProgress(m)
    <2>1. PICK m \in Messages : \E k \in 1..Len(cloud[m]) :
            \E s \in CloudNext(cloud[m][k]) : cloud' = [cloud EXCEPT ![m][k] = s]
      BY <1>1 DEF CloudProgress
    <2>2. UNCHANGED <<api, task, faults>>
      BY <1>1 DEF CloudProgress
    <2>3. /\ \A n \in Messages : Len(cloud'[n]) = Len(cloud[n])
          /\ \A n \in Messages \ {m} : cloud'[n] = cloud[n]
          /\ cloud[m] # <<>>
      BY <2>1 DEF TypeInv, TypeOK
    <2>4. SendBudget'
      BY <2>2, <2>3 DEF DuplicatesInv, SendBudget, Within
    <2>5. Undispatched'
      BY <2>2, <2>3 DEF DuplicatesInv, Undispatched
    <2> QED
      BY <2>4, <2>5 DEF DuplicatesInv
  <1>2. ASSUME UNCHANGED <<api, task, cloud, faults>> PROVE DuplicatesInv'
    BY <1>2 DEF DuplicatesInv, SendBudget, Undispatched
  <1> QED
    BY <1>1, <1>2
    DEF CloudStep, CloudExtra, StatusSelect, StatusCommit, SetConfigured, cloudVars

LEMMA DuplicatesStep == TypeInv /\ DuplicatesInv /\ [Next]_vars => DuplicatesInv'
  <1> SUFFICES ASSUME TypeInv, DuplicatesInv, [Next]_vars PROVE DuplicatesInv'
    OBVIOUS
  <1>1. CASE Next
    BY <1>1, DuplicatesApi, DuplicatesWorker, DuplicatesFault, DuplicatesCloud
    DEF Next
  <1>2. CASE UNCHANGED vars
    BY <1>2 DEF vars, DuplicatesInv, SendBudget, Undispatched
  <1> QED
    BY <1>1, <1>2

LEMMA DuplicatesImplied == TypeInv /\ DuplicatesInv => DuplicatesAreFaults
  <1> SUFFICES ASSUME TypeInv, DuplicatesInv, NEW m \in Messages
               PROVE  Len(cloud[m]) <= 1 + faults[m]
    BY DEF DuplicatesAreFaults
  <1>1. /\ Cardinality(LiveIn(task[m])) \in Nat
        /\ Len(cloud[m]) \in Nat /\ faults[m] \in Nat
    BY LiveFinite DEF TypeInv, TypeOK
  <1> QED
    BY <1>1 DEF DuplicatesInv, SendBudget, Within

(* A message reaches the customer at most once, plus once for every lost    *)
(* worker, timed-out call and raising transaction, whatever the retries.    *)
THEOREM DuplicatesBounded == Spec => []DuplicatesAreFaults
  <1>1. Init => TypeInv /\ DuplicatesInv
    BY TypeInit, DuplicatesInit
  <1>2. TypeInv /\ DuplicatesInv /\ [Next]_vars => (TypeInv /\ DuplicatesInv)'
    BY TypeStep, DuplicatesStep
  <1> QED
    BY <1>1, <1>2, DuplicatesImplied, PTL DEF Spec

-----------------------------------------------------------------------------
(* Delivery status *)

(* Every status on its way to a row has been earned, and a task that is     *)
(* about to store "sent" has an id.                                         *)
EarnedInv ==
    /\ StatusNeverAhead
    /\ \A u \in updates : Earned(cloud[u.msg], u.status)
    /\ \A e \in hooks : Earned(cloud[e.msg], ParseStatus(e.status))
    /\ \A m \in Messages, k \in Copies :
          task[m][k].at = "succeeded" => cloud[m] # <<>>

LEMMA Ranks ==
  /\ Rank("sent") = 1 /\ Rank("failed") = 1
  /\ Rank("delivered") = 2 /\ Rank("read") = 3
  /\ \A s \in KnownStatuses : Rank(s) \in 1..3
  BY DEF Rank, KnownStatuses

(* A message with an id has earned "sent".                                  *)
LEMMA SentEarned ==
  ASSUME NEW ids \in Seq(KnownStatuses), ids # <<>>
  PROVE  Earned(ids, "sent")
  <1>2. 1 \in 1..Len(ids) /\ ids[1] \in KnownStatuses
    OBVIOUS
  <1> QED
    BY <1>2, Ranks DEF Earned

(* What the Cloud API has done with an id only moves forward.               *)
CloudGrows ==
    \A m \in Messages :
        /\ Len(cloud'[m]) >= Len(cloud[m])
        /\ \A k \in 1..Len(cloud[m]) : Rank(cloud'[m][k]) >= Rank(cloud[m][k])

(* What has been earned stays earned.                                       *)
LEMMA EarnedStays ==
  ASSUME TypeInv, TypeInv', CloudGrows, NEW m \in Messages, NEW s,
         Earned(cloud[m], s)
  PROVE  Earned(cloud'[m], s)
  <1> SUFFICES ASSUME s \in {"sent", "delivered", "read"}
               PROVE  \E k \in 1..Len(cloud'[m]) : Rank(s) <= Rank(cloud'[m][k])
    BY DEF Earned
  <1>1. PICK k \in 1..Len(cloud[m]) : Rank(s) <= Rank(cloud[m][k])
    BY DEF Earned
  <1>2. /\ cloud[m] \in Seq(KnownStatuses) /\ cloud'[m] \in Seq(KnownStatuses)
    BY DEF TypeInv, TypeOK
  <1>3. k \in 1..Len(cloud'[m]) /\ Rank(cloud'[m][k]) >= Rank(cloud[m][k])
    BY <1>2 DEF CloudGrows
  <1>4. Rank(s) \in Nat /\ Rank(cloud[m][k]) \in Nat /\ Rank(cloud'[m][k]) \in Nat
    BY <1>2, <1>3, Ranks DEF KnownStatuses
  <1> QED
    BY <1>1, <1>3, <1>4

(* A new id, or a step of Meta, only adds to what has been earned.          *)
LEMMA AcceptGrows ==
  ASSUME TypeInv, NEW m \in Messages, Accept(m)
  PROVE  /\ CloudGrows
         /\ cloud'[m] # <<>>
         /\ \A e \in hooks' \ hooks : e.msg = m /\ e.status = "sent"
  <1>1. cloud \in [Messages -> Seq(KnownStatuses)]
    BY DEF TypeInv, TypeOK
  <1>2. cloud' = [cloud EXCEPT ![m] = Append(@, "sent")]
    BY DEF Accept
  <1>3. /\ cloud'[m] = Append(cloud[m], "sent")
        /\ \A n \in Messages \ {m} : cloud'[n] = cloud[n]
    BY <1>1, <1>2
  <1>4. ASSUME NEW n \in Messages
        PROVE  /\ Len(cloud'[n]) >= Len(cloud[n])
               /\ \A k \in 1..Len(cloud[n]) : cloud'[n][k] = cloud[n][k]
    <2>1. cloud[n] \in Seq(KnownStatuses)
      BY <1>1
    <2> QED
      BY <1>3, <2>1
  <1>5. \A n \in Messages, k \in Nat :
           k \in 1..Len(cloud[n]) => Rank(cloud[n][k]) \in Nat
    BY <1>1, Ranks
  <1>6. CloudGrows
    BY <1>4, <1>5 DEF CloudGrows
  <1>7. cloud'[m] # <<>>
    BY <1>1, <1>3
  <1>8. ASSUME NEW e \in hooks' \ hooks
        PROVE  e.msg = m /\ e.status = "sent"
    <2>1. e = [msg |-> m, id |-> Len(cloud[m]) + 1, status |-> "sent"]
      BY <1>8 DEF Accept
    <2> QED
      BY <2>1
  <1> QED
    BY <1>6, <1>7, <1>8

LEMMA ProgressGrows ==
  ASSUME TypeInv, NEW m \in Messages, CloudProgress(m)
  PROVE  /\ CloudGrows
         /\ \A n \in Messages : cloud[n] # <<>> => cloud'[n] # <<>>
         /\ \A e \in hooks' \ hooks :
               /\ e.msg = m
               /\ e.status \in KnownStatuses
               /\ \E k \in 1..Len(cloud'[m]) : e.status = cloud'[m][k]
  <1>1. cloud \in [Messages -> Seq(KnownStatuses)]
    BY DEF TypeInv, TypeOK
  <1>2. PICK j \in 1..Len(cloud[m]) : \E s \in CloudNext(cloud[m][j]) :
          /\ cloud' = [cloud EXCEPT ![m][j] = s]
          /\ hooks' = hooks \cup {[msg |-> m, id |-> j, status |-> s]}
    BY DEF CloudProgress
  <1>3. PICK s \in CloudNext(cloud[m][j]) :
          /\ cloud' = [cloud EXCEPT ![m][j] = s]
          /\ hooks' = hooks \cup {[msg |-> m, id |-> j, status |-> s]}
    BY <1>2
  <1>4. /\ cloud[m][j] \in KnownStatuses /\ s \in KnownStatuses
        /\ Rank(s) >= Rank(cloud[m][j])
    BY <1>1, Ranks DEF CloudNext, KnownStatuses
  <1>5. ASSUME NEW n \in Messages
        PROVE  /\ Len(cloud'[n]) = Len(cloud[n])
               /\ \A k \in 1..Len(cloud[n]) :
                    cloud'[n][k] = IF n = m /\ k = j THEN s ELSE cloud[n][k]
    <2>1. cloud[n] \in Seq(KnownStatuses)
      BY <1>1
    <2> QED
      BY <1>1, <1>3, <2>1
  <1>6. CloudGrows
    <2>1. \A n \in Messages : \A k \in 1..Len(cloud[n]) :
             cloud[n][k] \in KnownStatuses /\ Rank(cloud[n][k]) \in Nat
      BY <1>1, Ranks
    <2>2. \A n \in Messages : Len(cloud[n]) \in Nat
      BY <1>1
    <2>3. Rank(s) \in Nat
      BY <1>4, Ranks
    <2>4. ASSUME NEW n \in Messages, NEW k \in 1..Len(cloud[n])
          PROVE  Rank(cloud'[n][k]) >= Rank(cloud[n][k])
      <3>1. CASE n = m /\ k = j
        BY <1>4, <1>5, <3>1
      <3>2. CASE ~(n = m /\ k = j)
        BY <1>5, <2>1, <3>2
      <3> QED
        BY <3>1, <3>2
    <2>5. \A n \in Messages : Len(cloud'[n]) >= Len(cloud[n])
      BY <1>5, <2>2
    <2> QED
      BY <2>4, <2>5 DEF CloudGrows
  <1>7. \A n \in Messages : cloud[n] # <<>> => cloud'[n] # <<>>
    <2>1. \A n \in Messages : cloud[n] # <<>> => Len(cloud[n]) # 0
      BY <1>1
    <2> QED
      BY <1>5, <2>1
  <1>8. j \in 1..Len(cloud'[m]) /\ cloud'[m][j] = s
    BY <1>5
  <1>9. ASSUME NEW e \in hooks' \ hooks
        PROVE  e.msg = m /\ e.status = s
    <2>1. e = [msg |-> m, id |-> j, status |-> s]
      BY <1>3, <1>9
    <2> QED
      BY <2>1
  <1> QED
    BY <1>4, <1>6, <1>7, <1>8, <1>9

LEMMA SameGrows == TypeInv /\ cloud' = cloud => CloudGrows
  <1> SUFFICES ASSUME TypeInv, cloud' = cloud PROVE CloudGrows
    OBVIOUS
  <1>1. cloud \in [Messages -> Seq(KnownStatuses)]
    BY DEF TypeInv, TypeOK
  <1>2. \A m \in Messages : /\ Len(cloud[m]) \in Nat
                            /\ \A k \in 1..Len(cloud[m]) : Rank(cloud[m][k]) \in Nat
    BY <1>1, Ranks
  <1> QED
    BY <1>2 DEF CloudGrows

(* What a step may add without breaking the invariant.                      *)
LEMMA EarnedAdded ==
  ASSUME TypeInv, TypeInv', EarnedInv, CloudGrows,
         \A m \in Messages : \/ row'[m].status = row[m].status
                             \/ Earned(cloud'[m], row'[m].status),
         \A u \in updates' \ updates : Earned(cloud'[u.msg], u.status),
         \A e \in hooks' \ hooks : Earned(cloud'[e.msg], ParseStatus(e.status)),
         \A m \in Messages, k \in Copies : task'[m][k].at = "succeeded" =>
            task[m][k].at = "succeeded" \/ cloud'[m] # <<>>
  PROVE  EarnedInv'
  <1>1. /\ \A u \in updates : u.msg \in Messages
        /\ \A e \in hooks : e.msg \in Messages
    BY DEF TypeInv, TypeOK, Hook, Update
  <1>2. \A m \in Messages : \A s : Earned(cloud[m], s) => Earned(cloud'[m], s)
    BY EarnedStays
  <1>3. \A m \in Messages : Earned(cloud'[m], row'[m].status)
    BY <1>2 DEF EarnedInv, StatusNeverAhead
  <1>4. \A u \in updates' : Earned(cloud'[u.msg], u.status)
    BY <1>1, <1>2 DEF EarnedInv
  <1>5. \A e \in hooks' : Earned(cloud'[e.msg], ParseStatus(e.status))
    BY <1>1, <1>2 DEF EarnedInv
  <1>6. \A m \in Messages : cloud[m] # <<>> => cloud'[m] # <<>>
    <2>1. cloud \in [Messages -> Seq(KnownStatuses)]
      BY DEF TypeInv, TypeOK
    <2>2. \A m \in Messages : cloud[m] # <<>> => Len(cloud[m]) >= 1
      BY <2>1
    <2>3. \A m \in Messages : cloud[m] # <<>> => Len(cloud'[m]) # 0
      BY <2>1, <2>2 DEF CloudGrows
    <2> QED
      BY <2>3
  <1>7. \A m \in Messages, k \in Copies :
           task'[m][k].at = "succeeded" => cloud'[m] # <<>>
    BY <1>6 DEF EarnedInv
  <1> QED
    BY <1>3, <1>4, <1>5, <1>7 DEF EarnedInv, StatusNeverAhead

(* No copy becomes "succeeded" through a Put of another state.              *)
LEMMA PutNotSucceeded ==
  ASSUME TypeInv, NEW m \in Messages, NEW k \in Copies, NEW t \in Task,
         Put(m, k, t), t.at = "succeeded" => task[m][k].at = "succeeded"
  PROVE  \A n \in Messages, j \in Copies :
            task'[n][j].at = "succeeded" => task[n][j].at = "succeeded"
  <1>1. task \in [Messages -> [Copies -> Task]]
    BY DEF TypeInv, TypeOK
  <1>2. /\ task'[m][k] = t
        /\ \A n \in Messages, j \in Copies :
              n # m \/ j # k => task'[n][j] = task[n][j]
    BY <1>1, PutTask
  <1> QED
    BY <1>2

LEMMA BecomesNotSucceeded ==
  ASSUME TypeInv, NEW m \in Messages, NEW k \in Copies,
         NEW s \in TaskStates \ {"succeeded"}, Becomes(m, k, s) \/ Recorded(m, k, s)
  PROVE  \A n \in Messages, j \in Copies :
            task'[n][j].at = "succeeded" => task[n][j].at = "succeeded"
  <1>1. PICK t \in Task : Put(m, k, t) /\ t.at = s
    BY BecomesPut, RecordedPut
  <1> QED
    BY <1>1, PutNotSucceeded

LEMMA EarnedInit == Init => EarnedInv
  BY DEF Init, EarnedInv, StatusNeverAhead, Earned, NoRow, NoTask

(* Storing an outcome: a row takes "sent" only from a task with an id.      *)
LEMMA StoreEarned ==
  ASSUME TypeInv, EarnedInv, NEW m \in Messages, NEW k \in Copies,
         NEW status, NEW ext, Store(m, k, status, ext),
         (status = "sent" /\ cloud[m] # <<>>) \/ status = "failed",
         cloud' = cloud
  PROVE  \A n \in Messages : \/ row'[n].status = row[n].status
                             \/ Earned(cloud'[n], row'[n].status)
  <1>1. row \in [Messages -> Row] /\ cloud[m] \in Seq(KnownStatuses)
    BY DEF TypeInv, TypeOK
  <1>2. \A n \in Messages \ {m} : row'[n] = row[n]
    BY <1>1 DEF Store
  <1>3. row'[m].status \in {row[m].status, status}
    BY <1>1 DEF Store, Flush
  <1>4. Earned(cloud'[m], status)
    BY <1>1, SentEarned DEF Earned
  <1> QED
    BY <1>2, <1>3, <1>4

LEMMA EarnedApi ==
  ASSUME TypeInv, TypeInv', EarnedInv, NEW m \in Messages, ApiStep(m)
  PROVE  EarnedInv'
  <1>1. UNCHANGED <<cloud, hooks, updates>>
    BY DEF ApiStep, AddMessage, StartDispatch, StartCommit, SendCommit,
           SendDispatch, Rollback, cloudVars
  <1>2. CloudGrows
    BY <1>1, SameGrows
  <1>3. \A n \in Messages : \/ row'[n].status = row[n].status
                            \/ Earned(cloud'[n], row'[n].status)
    <2>1. row \in [Messages -> Row]
      BY DEF TypeInv, TypeOK
    <2>2. \A n \in Messages : row'[n].status \in {row[n].status, "pending", "none"}
      BY <2>1 DEF ApiStep, AddMessage, StartDispatch, StartCommit, SendCommit,
                  SendDispatch, Rollback, NoRow
    <2> QED
      BY <2>2 DEF Earned
  <1>4. task' = task \/ Becomes(m, 1, "queued")
    BY DEF ApiStep, AddMessage, StartDispatch, StartCommit, SendCommit,
           SendDispatch, Rollback
  <1>5. \A n \in Messages, j \in Copies :
            task'[n][j].at = "succeeded" => task[n][j].at = "succeeded"
    BY <1>4, FirstCopy, BecomesNotSucceeded DEF TaskStates
  <1> QED
    BY <1>1, <1>2, <1>3, <1>5, EarnedAdded

(* A worker's step that leaves the rows and the Cloud API alone.            *)
LEMMA EarnedQuiet ==
  ASSUME TypeInv, TypeInv', EarnedInv, UNCHANGED <<row, updates, cloud, hooks>>,
         \A m \in Messages, k \in Copies :
            task'[m][k].at = "succeeded" => task[m][k].at = "succeeded"
  PROVE  EarnedInv'
  BY SameGrows, EarnedAdded

LEMMA EarnedWorker ==
  ASSUME TypeInv, TypeInv', EarnedInv, NEW m \in Messages, NEW k \in Copies,
         WorkerStep(m, k)
  PROVE  EarnedInv'
  <1>0. RetryOrGiveUp(m, k) \in TaskStates \ {"succeeded"}
    BY DEF RetryOrGiveUp, TaskStates
  <1> USE DEF TaskStates, Outcomes, cloudVars
  <1>1. CASE TaskUnconfigured(m, k)
    BY <1>1, BecomesNotSucceeded, EarnedQuiet DEF TaskUnconfigured
  <1>2. CASE TaskLoad(m, k)
    BY <1>0, <1>2, BecomesNotSucceeded, EarnedQuiet DEF TaskLoad
  <1>3. CASE CallAccepted(m, k)
    <2>1. /\ CloudGrows
          /\ cloud'[m] # <<>>
          /\ \A e \in hooks' \ hooks : e.msg = m /\ e.status = "sent"
      BY <1>3, AcceptGrows DEF CallAccepted
    <2>2. cloud'[m] \in Seq(KnownStatuses)
      BY DEF TypeInv, TypeOK
    <2>3. \A e \in hooks' \ hooks : Earned(cloud'[e.msg], ParseStatus(e.status))
      BY <2>1, <2>2, SentEarned DEF ParseStatus, KnownStatuses
    <2>4. \A n \in Messages \ {m} : task'[n] = task[n]
      BY <1>3 DEF CallAccepted, Put, TypeInv, TypeOK
    <2> QED
      BY <1>3, <2>1, <2>3, <2>4, EarnedAdded DEF CallAccepted
  <1>4. CASE CallRejected(m, k)
    BY <1>4, BecomesNotSucceeded, EarnedQuiet DEF CallRejected
  <1>5. CASE SelectRow(m, k)
    <2> DEFINE t == [task[m][k] EXCEPT !.old =
                       IF Visible(m) THEN row[m].status ELSE "none"]
    <2>1. t \in Task /\ t.at = task[m][k].at
      <3>1. task[m][k] \in Task /\ row[m].status \in RowStatuses /\ "none" \in RowStatuses
        BY DEF TypeInv, TypeOK, Row, RowStatuses
      <3> QED
        BY <3>1, OldIsTask
    <2>2. Put(m, k, t)
      BY <1>5 DEF SelectRow
    <2> HIDE DEF t
    <2> QED
      BY <1>5, <2>1, <2>2, PutNotSucceeded, EarnedQuiet DEF SelectRow
  <1>6. CASE PersistSent(m, k)
    <2>1. cloud[m] # <<>>
      BY <1>6 DEF PersistSent, Selected, EarnedInv
    <2>2. \A n \in Messages : \/ row'[n].status = row[n].status
                              \/ Earned(cloud'[n], row'[n].status)
      BY <1>6, <2>1, StoreEarned DEF PersistSent
    <2>3. \A n \in Messages, j \in Copies :
            task'[n][j].at = "succeeded" => task[n][j].at = "succeeded"
      BY <1>6, BecomesNotSucceeded DEF PersistSent
    <2> QED
      BY <1>6, <2>2, <2>3, SameGrows, EarnedAdded DEF PersistSent
  <1>7. CASE PersistFailed(m, k) \/ PersistUnconfigured(m, k)
    <2>1. \A n \in Messages : \/ row'[n].status = row[n].status
                              \/ Earned(cloud'[n], row'[n].status)
      BY <1>7, StoreEarned DEF PersistFailed, PersistUnconfigured
    <2>2. \A n \in Messages, j \in Copies :
            task'[n][j].at = "succeeded" => task[n][j].at = "succeeded"
      BY <1>0, <1>7, BecomesNotSucceeded DEF PersistFailed, PersistUnconfigured
    <2> QED
      BY <1>7, <2>1, <2>2, SameGrows, EarnedAdded
      DEF PersistFailed, PersistUnconfigured
  <1>8. CASE Retry(m, k)
    <2>1. task[m][k].tries + 1 \in 0..MaxRetries
      BY <1>8 DEF Retry, TypeInv, TypeOK, RetriesLeft, Task
    <2> QED
      BY <1>8, <2>1, QueuedIsTask, PutNotSucceeded, EarnedQuiet DEF Retry
  <1>9. CASE Ack(m, k)
    BY <1>9, BecomesNotSucceeded, EarnedQuiet DEF Ack
  <1> QED
    BY <1>1, <1>2, <1>3, <1>4, <1>5, <1>6, <1>7, <1>8, <1>9 DEF WorkerStep

LEMMA EarnedFault ==
  ASSUME TypeInv, TypeInv', EarnedInv, NEW m \in Messages, NEW k \in Copies,
         FaultStep(m, k)
  PROVE  EarnedInv'
  <1>0. /\ task \in [Messages -> [Copies -> Task]]
        /\ task[m][k].tries \in 0..MaxRetries
    BY DEF TypeInv, TypeOK, Task
  <1> USE DEF TaskStates, Outcomes, cloudVars
  <1>1. CASE CallTimedOut(m, k)
    <2>1. /\ CloudGrows
          /\ cloud'[m] # <<>>
          /\ \A e \in hooks' \ hooks : e.msg = m /\ e.status = "sent"
      BY <1>1, AcceptGrows DEF CallTimedOut
    <2>2. cloud'[m] \in Seq(KnownStatuses)
      BY DEF TypeInv, TypeOK
    <2>3. \A e \in hooks' \ hooks : Earned(cloud'[e.msg], ParseStatus(e.status))
      BY <2>1, <2>2, SentEarned DEF ParseStatus, KnownStatuses
    <2>4. \A n \in Messages, j \in Copies :
            task'[n][j].at = "succeeded" => task[n][j].at = "succeeded"
      BY <1>1, BecomesNotSucceeded DEF CallTimedOut
    <2> QED
      BY <1>1, <2>1, <2>3, <2>4, EarnedAdded DEF CallTimedOut
  <1>2. CASE WorkerLost(m, k)
    BY <1>0, <1>2, QueuedIsTask, PutNotSucceeded, EarnedQuiet DEF WorkerLost
  <1>3. CASE WorkerLostAfterRetry(m, k)
    <2> DEFINE q == Queued(task[m][k].tries)
               r == Queued(task[m][k].tries + 1)
    <2>1. PICK j \in Copies :
            task' = [task EXCEPT ![m] = [@ EXCEPT ![k] = q, ![j] = r]]
      BY <1>3 DEF WorkerLostAfterRetry
    <2>2. q.at = "queued" /\ r.at = "queued"
      BY DEF Queued, NoTask
    <2> HIDE DEF q, r
    <2>3. \A n \in Messages, i \in Copies : task'[n][i] \in {q, r, task[n][i]}
      BY <1>0, <2>1
    <2>4. \A n \in Messages, i \in Copies :
            task'[n][i].at = "succeeded" => task[n][i].at = "succeeded"
      BY <2>2, <2>3
    <2> QED
      BY <1>3, <2>4, EarnedQuiet DEF WorkerLostAfterRetry
  <1>4. CASE TransactionFails(m, k)
    <2>1. RetryOrGiveUp(m, k) \in TaskStates \ {"succeeded"}
      BY DEF RetryOrGiveUp
    <2> QED
      BY <1>4, <2>1, BecomesNotSucceeded, EarnedQuiet DEF TransactionFails
  <1> QED
    BY <1>1, <1>2, <1>3, <1>4 DEF FaultStep

LEMMA EarnedCloud ==
  ASSUME TypeInv, TypeInv', EarnedInv,
         \/ \E m \in Messages : CloudStep(m)
         \/ \E e \in hooks : StatusSelect(e)
         \/ \E u \in updates : StatusCommit(u)
         \/ SetConfigured
  PROVE  EarnedInv'
  <1>1. ASSUME NEW m \in Messages, CloudProgress(m) PROVE EarnedInv'
    <2>1. /\ CloudGrows
          /\ \A e \in hooks' \ hooks :
               /\ e.msg = m
               /\ e.status \in KnownStatuses
               /\ \E k \in 1..Len(cloud'[m]) : e.status = cloud'[m][k]
      BY <1>1, ProgressGrows
    <2>2. \A s \in KnownStatuses : Rank(s) <= Rank(s)
      BY Ranks
    <2>3. \A e \in hooks' \ hooks : Earned(cloud'[e.msg], ParseStatus(e.status))
      BY <2>1, <2>2 DEF Earned, ParseStatus
    <2> QED
      BY <1>1, <2>1, <2>3, EarnedAdded DEF CloudProgress
  <1>2. ASSUME NEW m \in Messages, CloudExtra(m) PROVE EarnedInv'
    <2>1. PICK k \in 1..Len(cloud[m]), s \in ExtraStatuses :
            hooks' = hooks \cup {[msg |-> m, id |-> k, status |-> s]}
      BY <1>2 DEF CloudExtra
    <2>2. cloud[m] \in Seq(KnownStatuses) /\ cloud[m] # <<>>
      BY <2>1 DEF TypeInv, TypeOK
    <2>3. ParseStatus(s) = "sent"
      BY <2>1 DEF ParseStatus, KnownStatuses
    <2>4. ASSUME NEW e \in hooks' \ hooks
          PROVE  Earned(cloud'[e.msg], ParseStatus(e.status))
      <3>1. e = [msg |-> m, id |-> k, status |-> s]
        BY <2>1, <2>4
      <3>2. e.msg = m /\ e.status = s
        BY <3>1
      <3> QED
        BY <1>2, <2>2, <2>3, <3>2, SentEarned DEF CloudExtra
    <2> QED
      BY <1>2, <2>4, SameGrows, EarnedAdded DEF CloudExtra
  <1>3. ASSUME NEW e \in hooks, StatusSelect(e) PROVE EarnedInv'
    <2>1. Earned(cloud[e.msg], ParseStatus(e.status))
      BY DEF EarnedInv
    <2>2. ASSUME NEW u \in updates' \ updates
          PROVE  Earned(cloud'[u.msg], u.status)
      <3>1. u = [msg |-> e.msg, status |-> ParseStatus(e.status)]
        BY <1>3, <2>2 DEF StatusSelect
      <3>2. u.msg = e.msg /\ u.status = ParseStatus(e.status)
        BY <3>1
      <3> QED
        BY <1>3, <2>1, <3>2 DEF StatusSelect
    <2>3. hooks' \subseteq hooks
      BY <1>3 DEF StatusSelect
    <2> QED
      BY <1>3, <2>2, <2>3, SameGrows, EarnedAdded DEF StatusSelect
  <1>4. ASSUME NEW u \in updates, StatusCommit(u) PROVE EarnedInv'
    <2>1. u.msg \in Messages /\ row \in [Messages -> Row]
      BY DEF TypeInv, TypeOK, Update
    <2>2. \A n \in Messages \ {u.msg} : row'[n] = row[n]
      BY <1>4, <2>1 DEF StatusCommit
    <2>3. row'[u.msg].status = u.status
      BY <1>4, <2>1 DEF StatusCommit, Row
    <2>4. Earned(cloud'[u.msg], row'[u.msg].status)
      BY <1>4, <2>3 DEF EarnedInv, StatusCommit, cloudVars
    <2> QED
      BY <1>4, <2>2, <2>4, SameGrows, EarnedAdded DEF StatusCommit, cloudVars
  <1>5. ASSUME SetConfigured PROVE EarnedInv'
    BY <1>5, EarnedQuiet DEF SetConfigured, cloudVars
  <1> QED
    BY <1>1, <1>2, <1>3, <1>4, <1>5 DEF CloudStep

LEMMA EarnedStep ==
  TypeInv /\ TypeInv' /\ EarnedInv /\ [Next]_vars => EarnedInv'
  <1> SUFFICES ASSUME TypeInv, TypeInv', EarnedInv, [Next]_vars PROVE EarnedInv'
    OBVIOUS
  <1>1. CASE Next
    BY <1>1, EarnedApi, EarnedWorker, EarnedFault, EarnedCloud DEF Next
  <1>2. CASE UNCHANGED vars
    BY <1>2, EarnedQuiet DEF vars
  <1> QED
    BY <1>1, <1>2

(* The inbox never shows a status that no copy of the message has earned,   *)
(* whatever the order of webhooks, retries and lost updates.                *)
THEOREM StatusEarned == Spec => []StatusNeverAhead
  <1>1. Init => TypeInv /\ EarnedInv
    BY TypeInit, EarnedInit
  <1>2. TypeInv /\ EarnedInv /\ [Next]_vars => (TypeInv /\ EarnedInv)'
    BY TypeStep, EarnedStep
  <1>3. EarnedInv => StatusNeverAhead
    BY DEF EarnedInv
  <1> QED
    BY <1>1, <1>2, <1>3, PTL DEF Spec

-----------------------------------------------------------------------------
(* Status moves forward *)

(* Where a message without a fault stands: its only task, its id, its row.  *)
Early == {"none", "pending", "failed"}
Alone(m) ==
    /\ \A k \in Copies \ {1} : task[m][k].at = "none"
    /\ cloud[m] = <<>> => task[m][1].at # "succeeded" /\ row[m].ext = 0
    /\ cloud[m] # <<>> => /\ Len(cloud[m]) = 1
                          /\ task[m][1].at \in {"succeeded", "acking", "finished"}
    /\ task[m][1].at = "succeeded" => task[m][1].id = 1 /\ row[m].ext = 0
    /\ row[m].ext = 0 => row[m].status \in Early
    /\ row[m].ext > 0 => Visible(m)
    /\ task[m][1].old \in Early \cup {"unread"}
    /\ task[m][1].old \in {"pending", "failed"} => Visible(m)

(* What is on its way to the row comes after what the row has, and what is  *)
(* still in flight after what a handler is about to write.                  *)
HooksOf(m) == {e \in hooks : e.msg = m}
UpdatesOf(m) == {u \in updates : u.msg = m}
InTurn(m) ==
    /\ HooksOf(m) # {} \/ UpdatesOf(m) # {} => cloud[m] # <<>>
    /\ cloud[m] # <<>> => Rank(row[m].status) <= Rank(cloud[m][1])
    /\ \A e \in HooksOf(m) :
          /\ e.id = 1 /\ e.status \in KnownStatuses
          /\ Rank(row[m].status) <= Rank(e.status) /\ Rank(e.status) <= Rank(cloud[m][1])
    /\ \A u \in UpdatesOf(m) :
          /\ row[m].ext > 0
          /\ Rank(row[m].status) <= Rank(u.status) /\ Rank(u.status) <= Rank(cloud[m][1])
          /\ \A e \in HooksOf(m) : Rank(u.status) <= Rank(e.status)
          /\ \A v \in UpdatesOf(m) : v = u

ForwardInv == \A m \in Ordered : faults[m] = 0 => Alone(m) /\ InTurn(m)

(* A step keeps the invariant of m and its status does not go back.         *)
Kept(m) ==
    /\ Alone(m)' /\ InTurn(m)'
    /\ row[m].ext > 0 => Rank(row'[m].status) >= Rank(row[m].status)

LEMMA MoreRanks ==
  /\ Rank("none") = 0 /\ Rank("pending") = 0
  /\ \A s \in RowStatuses : Rank(s) \in 0..3
  /\ \A s \in Early : s \in RowStatuses /\ Rank(s) <= 1
  <1>1. "none" \notin ExtraStatuses /\ "pending" \notin ExtraStatuses
    BY ExtraIsExtra
  <1>2. Rank("none") = 0 /\ Rank("pending") = 0
    BY <1>1 DEF Rank
  <1> QED
    BY <1>2, Ranks DEF RowStatuses, KnownStatuses, Early

LEMMA OrderedAre ==
  ASSUME TypeInv, NEW m \in Ordered
  PROVE  /\ m \in Messages /\ 1 \in Copies
         /\ task \in [Messages -> [Copies -> Task]] /\ task[m][1] \in Task
         /\ row[m] \in [status : RowStatuses, ext : Nat]
         /\ Rank(row[m].status) \in 0..3
         /\ cloud[m] \in Seq(KnownStatuses)
         /\ cloud[m] # <<>> => cloud[m][1] \in KnownStatuses /\ Rank(cloud[m][1]) \in 1..3
  <1>1. m \in Messages
    BY OrderedAreMessages DEF Messages
  <1>2. row[m] \in [status : RowStatuses, ext : Nat]
    BY <1>1 DEF TypeInv, TypeOK, Row
  <1>3. task \in [Messages -> [Copies -> Task]] /\ cloud[m] \in Seq(KnownStatuses)
    BY <1>1 DEF TypeInv, TypeOK
  <1>4. cloud[m] # <<>> => cloud[m][1] \in KnownStatuses
    BY <1>3
  <1> QED
    BY <1>1, <1>2, <1>3, <1>4, FirstCopy, MoreRanks, Ranks

(* Whoever runs a task of m runs its only one.                              *)
LEMMA OnlyTask ==
  ASSUME NEW m, Alone(m), NEW k \in Copies, task[m][k].at # "none"
  PROVE  k = 1
  BY DEF Alone

(* A step of other messages.                                                *)
LEMMA ForwardElsewhere ==
  ASSUME TypeInv, NEW m \in Ordered, Alone(m), InTurn(m),
         api'[m] = api[m], row'[m] = row[m], task'[m] = task[m], cloud'[m] = cloud[m],
         HooksOf(m)' = HooksOf(m), UpdatesOf(m)' = UpdatesOf(m)
  PROVE  Kept(m)
  <1>1. Alone(m)'
    BY DEF Alone, Visible
  <1>2. InTurn(m)'
    BY DEF InTurn
  <1>3. Rank(row'[m].status) >= Rank(row[m].status)
    BY OrderedAre
  <1> QED
    BY <1>1, <1>2, <1>3 DEF Kept

(* A step of the task, which may write a row that has no id yet.            *)
LEMMA ForwardTask ==
  ASSUME TypeInv, NEW m \in Ordered, Alone(m), InTurn(m), NEW t \in Task, Put(m, 1, t),
         api' = api, cloud' = cloud, hooks' = hooks, updates' = updates,
         t.at = "succeeded" => task[m][1].at = "succeeded" /\ t.id = task[m][1].id,
         cloud[m] # <<>> => t.at \in {"succeeded", "acking", "finished"},
         t.old \in Early \cup {"unread"},
         t.old \in {"pending", "failed"} => Visible(m),
         \/ row' = row
         \/ /\ row[m].ext = 0 /\ t.at # "succeeded"
            /\ row'[m].ext \in Nat /\ row'[m].status \in RowStatuses
            /\ Rank(row'[m].status) <= 1
            /\ row'[m].ext = 0 => row'[m].status \in Early
            /\ row'[m].ext > 0 => Visible(m) /\ cloud[m] # <<>>
  PROVE  Kept(m)
  <1>1. /\ task'[m][1] = t
        /\ \A k \in Copies \ {1} : task'[m][k] = task[m][k]
    BY OrderedAre, PutTask
  <1>2. Visible(m)' = Visible(m)
    BY DEF Visible
  <1>3. row[m].ext \in Nat /\ row'[m].ext \in Nat
    BY OrderedAre
  <1>4. Alone(m)'
    BY <1>1, <1>2, <1>3 DEF Alone
  <1>5. HooksOf(m)' = HooksOf(m) /\ UpdatesOf(m)' = UpdatesOf(m) /\ cloud'[m] = cloud[m]
    BY DEF HooksOf, UpdatesOf
  <1>6. CASE row'[m] = row[m]
    <2>1. InTurn(m)'
      BY <1>5, <1>6 DEF InTurn
    <2> QED
      BY <1>4, <1>6, <2>1, OrderedAre DEF Kept
  <1>7. CASE row[m].ext = 0 /\ row'[m].status \in RowStatuses /\ Rank(row'[m].status) <= 1
    <2>1. UpdatesOf(m) = {}
      BY <1>7 DEF InTurn
    <2>2. \A s \in KnownStatuses : Rank(row'[m].status) <= Rank(s)
      BY <1>7, Ranks, MoreRanks
    <2>3. InTurn(m)'
      BY <1>5, <2>1, <2>2, OrderedAre DEF InTurn
    <2> QED
      BY <1>4, <1>7, <2>3 DEF Kept
  <1> QED
    BY <1>6, <1>7

(* The handler of m.                                                        *)
LEMMA ForwardApi ==
  ASSUME TypeInv, Undispatched, NEW m \in Ordered, Alone(m), InTurn(m), ApiStep(m)
  PROVE  Kept(m)
  <1>0. m \in Messages /\ api \in [Messages -> ApiStates] /\ row \in [Messages -> Row]
    BY OrderedAre DEF TypeInv, TypeOK
  <1>1. /\ HooksOf(m)' = HooksOf(m) /\ UpdatesOf(m)' = UpdatesOf(m) /\ cloud'[m] = cloud[m]
    BY DEF HooksOf, UpdatesOf, ApiStep, AddMessage, StartDispatch, StartCommit, SendCommit,
           SendDispatch, Rollback, cloudVars
  <1>2. CASE AddMessage(m) \/ Rollback(m)
    <2>1. ~Visible(m) /\ ~Visible(m)'
      BY <1>0, <1>2 DEF Visible, AddMessage, Rollback
    <2>2. row[m].ext = 0
      BY <2>1, OrderedAre DEF Alone
    <2>3. row'[m].ext = 0 /\ row'[m].status \in {"pending", "none"} /\ task' = task
      BY <1>0, <1>2 DEF AddMessage, Rollback, NoRow
    <2>4. Alone(m)'
      BY <1>1, <2>1, <2>2, <2>3 DEF Alone, Early
    <2>5. UpdatesOf(m) = {}
      BY <2>2 DEF InTurn
    <2>6. Rank(row'[m].status) = 0
      BY <2>3, MoreRanks
    <2>7. InTurn(m)'
      BY <1>1, <2>5, <2>6, OrderedAre, Ranks DEF InTurn
    <2> QED
      BY <2>2, <2>4, <2>7 DEF Kept
  <1>3. CASE StartCommit(m) \/ SendCommit(m) \/ (SendDispatch(m) /\ task' = task)
    <2>1. row' = row /\ task' = task /\ (Visible(m) => Visible(m)')
      BY <1>0, <1>3 DEF StartCommit, SendCommit, SendDispatch, Visible
    <2>2. Alone(m)'
      BY <1>1, <2>1 DEF Alone
    <2>3. InTurn(m)'
      BY <1>1, <2>1 DEF InTurn
    <2> QED
      BY <2>1, <2>2, <2>3, OrderedAre DEF Kept
  <1>4. CASE StartDispatch(m) \/ (SendDispatch(m) /\ Becomes(m, 1, "queued"))
    <2>1. row' = row /\ (Visible(m) => Visible(m)') /\ Becomes(m, 1, "queued")
      BY <1>0, <1>4 DEF StartDispatch, SendDispatch, Visible
    <2>2. cloud[m] = <<>>
      BY <1>0, <1>4 DEF Undispatched, StartDispatch, SendDispatch
    <2>3. /\ task'[m][1] = [task[m][1] EXCEPT !.at = "queued"]
          /\ \A k \in Copies \ {1} : task'[m][k] = task[m][k]
      BY <2>1, OrderedAre DEF Becomes, Put
    <2>4. task'[m][1].at = "queued" /\ task'[m][1].old = task[m][1].old
      BY <2>3, OrderedAre DEF Task
    <2>5. Alone(m)'
      BY <1>1, <2>1, <2>2, <2>3, <2>4 DEF Alone
    <2>6. InTurn(m)'
      BY <1>1, <2>1 DEF InTurn
    <2> QED
      BY <2>1, <2>5, <2>6, OrderedAre DEF Kept
  <1> QED
    BY <1>2, <1>3, <1>4 DEF ApiStep, SendDispatch

(* The worker that runs the task of m.                                      *)
LEMMA ForwardWorker ==
  ASSUME TypeInv, NEW m \in Ordered, Alone(m), InTurn(m), NEW k \in Copies, WorkerStep(m, k)
  PROVE  Kept(m)
  <1>0. k = 1
    <2>1. task[m][k].at # "none"
      BY DEF WorkerStep, TaskUnconfigured, TaskLoad, CallAccepted, CallRejected, SelectRow,
             PersistSent, PersistFailed, PersistUnconfigured, Retry, Ack, Selected, Outcomes
    <2> QED
      BY <2>1, OnlyTask
  <1> DEFINE t == task[m][1]
  <1>1. t \in Task /\ row[m] \in [status : RowStatuses, ext : Nat] /\ m \in Messages
    BY OrderedAre
  <1>2. cloud[m] # <<>> => t.at \in {"succeeded", "acking", "finished"}
    BY DEF Alone
  <1>3. t.old \in Early \cup {"unread"} /\ (t.old \in {"pending", "failed"} => Visible(m))
    BY DEF Alone
  <1>4. ASSUME NEW s \in TaskStates \ {"succeeded"}, Becomes(m, 1, s), row' = row, api' = api,
               UNCHANGED cloudVars, updates' = updates,
               t.at \in {"queued", "sending"} \/ (s = "finished")
        PROVE  Kept(m)
    <2>1. PICK u : u = [t EXCEPT !.at = s]
      OBVIOUS
    <2>2. u \in Task /\ u.at = s /\ u.old = t.old
      BY <1>1, <2>1 DEF Task
    <2>3. Put(m, 1, u)
      BY <1>4, <2>1 DEF Becomes
    <2>4. cloud[m] # <<>> => s = "finished"
      BY <1>2, <1>4
    <2> HIDE DEF t
    <2> QED
      BY <1>3, <1>4, <2>2, <2>3, <2>4, ForwardTask DEF cloudVars
  <1>5. CASE TaskUnconfigured(m, 1)
    BY <1>4, <1>5 DEF TaskUnconfigured, TaskStates, Outcomes
  <1>6. CASE TaskLoad(m, 1)
    <2>1. PICK s \in {"sending", "retrying", "acking"} : Becomes(m, 1, s)
      BY <1>6 DEF TaskLoad, RetryOrGiveUp
    <2> QED
      BY <1>4, <1>6, <2>1 DEF TaskLoad, TaskStates
  <1>7. CASE CallRejected(m, 1)
    BY <1>4, <1>7 DEF CallRejected, TaskStates, Outcomes
  <1>8. CASE Ack(m, 1)
    BY <1>4, <1>8 DEF Ack, TaskStates
  <1>9. CASE SelectRow(m, 1)
    <2>1. row[m].ext = 0
      BY <1>1, <1>2, <1>9 DEF Alone, SelectRow, Outcomes
    <2>2. PICK o : o = IF Visible(m) THEN row[m].status ELSE "none"
      OBVIOUS
    <2>3. o \in Early /\ (o \in {"pending", "failed"} => Visible(m))
      BY <2>1, <2>2 DEF Alone, Early
    <2>4. PICK u : u = [t EXCEPT !.old = o]
      OBVIOUS
    <2>5. u \in Task /\ u.at = t.at /\ u.id = t.id /\ u.old = o
      BY <1>1, <2>3, <2>4, MoreRanks DEF Task
    <2>6. Put(m, 1, u)
      BY <1>9, <2>2, <2>4 DEF SelectRow
    <2> HIDE DEF t
    <2> QED
      BY <1>2, <1>9, <2>3, <2>5, <2>6, ForwardTask DEF SelectRow, cloudVars, t
  <1>10. CASE Retry(m, 1)
    <2>1. t.tries + 1 \in 0..MaxRetries
      <3>1. t.tries < MaxRetries
        BY <1>1, <1>10, OrderedAre DEF TypeInv, RetriesLeft, Retry
      <3>2. t.tries \in 0..MaxRetries
        BY <1>1 DEF Task
      <3> HIDE DEF t
      <3> QED
        BY <3>1, <3>2, BoundsAreNat
    <2>2. PICK u : u = Queued(t.tries + 1)
      OBVIOUS
    <2>3. u \in Task /\ u.at = "queued" /\ u.old = "unread"
      BY <2>1, <2>2, QueuedIsTask DEF Queued, NoTask
    <2>4. Put(m, 1, u)
      BY <1>10, <2>2 DEF Retry
    <2>5. cloud[m] = <<>>
      BY <1>2, <1>10 DEF Retry
    <2> QED
      BY <1>10, <2>3, <2>4, <2>5, ForwardTask DEF Retry, cloudVars
  <1>11. CASE PersistSent(m, 1) \/ PersistFailed(m, 1) \/ PersistUnconfigured(m, 1)
    <2>1. PICK s \in {"acking", "retrying"}, new \in {"sent", "failed"}, ext \in Nat :
            /\ Store(m, 1, new, ext) /\ Recorded(m, 1, s)
            /\ \/ t.at = "succeeded" /\ s = "acking" /\ new = "sent" /\ ext = t.id
               \/ t.at \in {"errored", "unconfigured"} /\ new = "failed" /\ ext = row[m].ext
      BY <1>1, <1>11 DEF PersistSent, PersistFailed, PersistUnconfigured, RetryOrGiveUp, Selected, Task
    <2>2. t.old \in Early /\ t.at \in Outcomes
      BY <1>3, <1>11 DEF PersistSent, PersistFailed, PersistUnconfigured, Selected, Early, Outcomes
    <2>3. row[m].ext = 0 /\ row[m].status \in Early /\ (t.at # "succeeded" => cloud[m] = <<>>)
      BY <1>1, <1>2, <2>1 DEF Alone
    <2>4. t.at = "succeeded" => t.id = 1 /\ cloud[m] # <<>>
      BY DEF Alone
    <2>5. row'[m] = IF t.old = "none" THEN row[m]
                    ELSE [status |-> Flush(row[m].status, t.old, new), ext |-> ext]
      <3>1. row \in [Messages -> Row]
        BY DEF TypeInv, TypeOK
      <3> QED
        BY <1>1, <2>1, <3>1 DEF Store
    <2>6. CASE t.old = "none"
      <3>1. row' = row
        <4>1. row \in [Messages -> Row]
          BY DEF TypeInv, TypeOK
        <4> QED
          BY <1>1, <2>1, <2>6, <4>1 DEF Store
      <3>2. PICK u : u = [t EXCEPT !.at = s, !.old = "unread"]
        OBVIOUS
      <3>3. u \in Task /\ u.at = s /\ u.old = "unread"
        BY <1>1, <3>2 DEF Task, TaskStates
      <3>4. Put(m, 1, u)
        BY <2>1, <3>2 DEF Recorded
      <3> HIDE DEF t
      <3> QED
        BY <1>11, <2>1, <2>3, <3>1, <3>3, <3>4, ForwardTask
           DEF PersistSent, PersistFailed, PersistUnconfigured, cloudVars
    <2>7. CASE t.old # "none"
      <3>1. row'[m].ext = ext /\ row'[m].status = Flush(row[m].status, t.old, new)
        BY <2>5, <2>7
      <3>2. Visible(m)
        BY <1>3, <2>2, <2>7 DEF Early
      <3>3. \/ new = "failed" /\ row'[m].status \in Early /\ row'[m].ext = 0
            \/ new = "sent" /\ row'[m].status = "sent" /\ row'[m].ext = 1 /\ cloud[m] # <<>>
        BY <2>1, <2>2, <2>3, <2>4, <3>1 DEF Flush, Early
      <3>4. PICK u : u = [t EXCEPT !.at = s, !.old = "unread"]
        OBVIOUS
      <3>5. u \in Task /\ u.at = s /\ u.old = "unread"
        BY <1>1, <3>4 DEF Task, TaskStates
      <3>6. Put(m, 1, u)
        BY <2>1, <3>4 DEF Recorded
      <3>7. /\ row'[m].status \in RowStatuses /\ Rank(row'[m].status) <= 1 /\ row'[m].ext \in Nat
            /\ row'[m].ext = 0 => row'[m].status \in Early
            /\ row'[m].ext > 0 => Visible(m) /\ cloud[m] # <<>>
        BY <3>2, <3>3, Ranks, MoreRanks DEF RowStatuses, KnownStatuses
      <3> HIDE DEF t
      <3>8. cloud[m] # <<>> => u.at \in {"succeeded", "acking", "finished"}
        BY <2>1, <2>3, <3>5
      <3> QED
        BY <1>11, <2>1, <2>3, <3>5, <3>6, <3>7, <3>8, ForwardTask
           DEF PersistSent, PersistFailed, PersistUnconfigured, cloudVars
    <2> QED
      BY <2>6, <2>7
  <1>12. CASE CallAccepted(m, 1)
    <2>1. cloud[m] = <<>>
      BY <1>2, <1>12 DEF CallAccepted
    <2>2. cloud'[m] = <<"sent">>
      <3>1. cloud \in [Messages -> Seq(KnownStatuses)]
        BY DEF TypeInv, TypeOK
      <3> QED
        BY <1>1, <1>12, <2>1, <3>1 DEF CallAccepted, Accept
    <2>3. HooksOf(m) = {} /\ UpdatesOf(m) = {}
      BY <2>1 DEF InTurn
    <2>4. PICK e : e = [msg |-> m, id |-> 1, status |-> "sent"]
      OBVIOUS
    <2>5. hooks' = hooks \cup {e} /\ e.msg = m /\ e.id = 1 /\ e.status = "sent"
      BY <1>12, <2>1, <2>4 DEF CallAccepted, Accept
    <2>6. HooksOf(m)' = {e} /\ UpdatesOf(m)' = {}
      BY <1>12, <2>3, <2>5 DEF HooksOf, UpdatesOf, CallAccepted
    <2>7. PICK u : u = [t EXCEPT !.at = "succeeded", !.id = 1]
      OBVIOUS
    <2>8. u \in Task /\ u.at = "succeeded" /\ u.id = 1 /\ u.old = t.old
      BY <1>1, <2>7 DEF Task, TaskStates, Outcomes
    <2>9. Put(m, 1, u)
      BY <1>12, <2>1, <2>7 DEF CallAccepted
    <2>10. task'[m][1] = u /\ \A j \in Copies \ {1} : task'[m][j] = task[m][j]
      BY <2>8, <2>9, OrderedAre, PutTask
    <2>11. row' = row /\ api' = api /\ row[m].ext = 0 /\ row[m].status \in Early
      BY <1>12, <2>1 DEF CallAccepted, Alone
    <2>12. cloud'[m] # <<>> /\ Len(cloud'[m]) = 1 /\ cloud'[m][1] = "sent"
      BY <2>2
    <2> HIDE DEF t
    <2>13. Alone(m)'
      BY <1>3, <2>8, <2>10, <2>11, <2>12 DEF Alone, Visible
    <2>14. Rank(row[m].status) <= 1
      BY <2>11, MoreRanks
    <2>15. InTurn(m)'
      BY <2>5, <2>6, <2>11, <2>12, <2>14, Ranks DEF InTurn, KnownStatuses
    <2> QED
      BY <2>11, <2>13, <2>15 DEF Kept
  <1> QED
    BY <1>0, <1>5, <1>6, <1>7, <1>8, <1>9, <1>10, <1>11, <1>12 DEF WorkerStep

(* Meta, which only reports of m what it knows.                             *)
LEMMA ForwardProgress ==
  ASSUME TypeInv, NEW m \in Ordered, Alone(m), InTurn(m), CloudProgress(m)
  PROVE  Kept(m)
  <1>1. PICK j \in 1..Len(cloud[m]) : \E s \in CloudNext(cloud[m][j]) :
          /\ cloud' = [cloud EXCEPT ![m][j] = s]
          /\ hooks' = hooks \cup {[msg |-> m, id |-> j, status |-> s]}
          /\ UNCHANGED <<api, row, configured, task, updates, faults>>
    BY DEF CloudProgress
  <1>2. cloud[m] \in Seq(KnownStatuses) /\ cloud[m] # <<>> /\ Len(cloud[m]) = 1 /\ j = 1
    BY <1>1, OrderedAre DEF Alone
  <1>3. PICK s \in CloudNext(cloud[m][1]) :
          /\ cloud' = [cloud EXCEPT ![m][1] = s]
          /\ hooks' = hooks \cup {[msg |-> m, id |-> 1, status |-> s]}
          /\ UNCHANGED <<api, row, configured, task, updates, faults>>
    BY <1>1, <1>2
  <1>4. cloud[m][1] \in KnownStatuses /\ s \in KnownStatuses /\ Rank(s) >= Rank(cloud[m][1])
    BY <1>2, <1>3, OrderedAre, Ranks DEF CloudNext, KnownStatuses
  <1>5. cloud'[m] # <<>> /\ Len(cloud'[m]) = 1 /\ cloud'[m][1] = s
    <2>1. cloud \in [Messages -> Seq(KnownStatuses)] /\ m \in Messages
      BY OrderedAre DEF TypeInv, TypeOK
    <2>2. cloud'[m] = [cloud[m] EXCEPT ![1] = s]
      BY <1>3, <2>1
    <2> QED
      BY <1>2, <1>4, <2>2
  <1>6. PICK e : e = [msg |-> m, id |-> 1, status |-> s]
    OBVIOUS
  <1>7. e.msg = m /\ e.id = 1 /\ e.status = s /\ hooks' = hooks \cup {e}
    BY <1>3, <1>6
  <1>8. HooksOf(m)' = HooksOf(m) \cup {e} /\ UpdatesOf(m)' = UpdatesOf(m)
    BY <1>3, <1>7 DEF HooksOf, UpdatesOf
  <1>9. Alone(m)'
    BY <1>2, <1>3, <1>5 DEF Alone, Visible
  <1>10. \A u \in UpdatesOf(m) : Rank(u.status) \in 1..3
    BY Ranks DEF UpdatesOf, TypeInv, TypeOK, Update
  <1>11. \A h \in HooksOf(m) : Rank(h.status) \in 1..3
    BY Ranks DEF InTurn
  <1>12. Rank(s) \in 1..3 /\ Rank(cloud[m][1]) \in 1..3 /\ Rank(row[m].status) \in 0..3
    BY <1>4, Ranks, OrderedAre
  <1>13. InTurn(m)'
    BY <1>2, <1>3, <1>4, <1>5, <1>7, <1>8, <1>10, <1>11, <1>12 DEF InTurn
  <1> QED
    BY <1>3, <1>9, <1>12, <1>13 DEF Kept

(* A handler takes the oldest report of m there is.                         *)
LEMMA ForwardSelect ==
  ASSUME TypeInv, NEW m \in Ordered, Alone(m), InTurn(m), NEW e \in hooks, e.msg = m,
         StatusSelect(e)
  PROVE  Kept(m)
  <1>1. e \in HooksOf(m) /\ e.id = 1 /\ e.status \in KnownStatuses /\ cloud[m] # <<>>
    BY DEF HooksOf, InTurn
  <1>2. /\ hooks' = hooks \ {e} /\ Oldest(e) /\ UpdatesOf(m) = {}
        /\ UNCHANGED <<api, row, configured, task, cloud, faults>>
    BY DEF StatusSelect, UpdatesOf
  <1>3. PICK u : u = [msg |-> m, status |-> ParseStatus(e.status)]
    OBVIOUS
  <1>4. u.msg = m /\ u.status = e.status
    BY <1>1, <1>3 DEF ParseStatus
  <1>5. UpdatesOf(m)' \subseteq {u} /\ (UpdatesOf(m)' # {} => row[m].ext = 1)
    <2>1. updates' \subseteq updates \cup {u} /\ (row[m].ext # 1 => updates' = updates)
      BY <1>1, <1>3 DEF StatusSelect
    <2> QED
      BY <1>2, <1>4, <2>1 DEF UpdatesOf
  <1>6. HooksOf(m)' = HooksOf(m) \ {e}
    BY <1>2 DEF HooksOf
  <1>7. ASSUME NEW f \in HooksOf(m) PROVE Rank(e.status) <= Rank(f.status)
    <2>1. f \in hooks /\ f.msg = m /\ f.id = 1 /\ f.status \in KnownStatuses
      BY DEF HooksOf, InTurn
    <2>2. Rank(f.status) \in 1..3 /\ Rank(e.status) \in 1..3 /\ Rank("sent") = 1
      BY <1>1, <2>1, Ranks
    <2>3. f.status = e.status \/ Rank(e.status) < Rank(f.status) \/ e.status = "sent"
      BY <1>1, <1>2, <2>1 DEF Oldest
    <2> QED
      BY <2>2, <2>3
  <1>8. Rank(row[m].status) <= Rank(e.status) /\ Rank(e.status) <= Rank(cloud[m][1])
    BY <1>1 DEF InTurn
  <1>9. Alone(m)'
    BY <1>2 DEF Alone, Visible
  <1>10. InTurn(m)'
    BY <1>1, <1>2, <1>4, <1>5, <1>6, <1>7, <1>8 DEF InTurn
  <1> QED
    BY <1>2, <1>9, <1>10, OrderedAre DEF Kept

LEMMA ForwardCommit ==
  ASSUME TypeInv, NEW m \in Ordered, Alone(m), InTurn(m), NEW u \in updates, u.msg = m,
         StatusCommit(u)
  PROVE  Kept(m)
  <1>1. u \in UpdatesOf(m) /\ u.status \in KnownStatuses
    BY DEF UpdatesOf, TypeInv, TypeOK, Update
  <1>2. /\ row[m].ext > 0 /\ cloud[m] # <<>> /\ UpdatesOf(m) = {u}
        /\ Rank(row[m].status) <= Rank(u.status) /\ Rank(u.status) <= Rank(cloud[m][1])
        /\ \A e \in HooksOf(m) : Rank(u.status) <= Rank(e.status)
    BY <1>1 DEF InTurn
  <1>3. /\ updates' = updates \ {u} /\ hooks' = hooks /\ cloud' = cloud /\ task' = task /\ api' = api
    BY DEF StatusCommit, cloudVars
  <1>4. row'[m].ext = row[m].ext /\ row'[m].status = u.status
    <2>1. row \in [Messages -> Row] /\ m \in Messages
      BY OrderedAre DEF TypeInv, TypeOK
    <2> QED
      BY <2>1 DEF StatusCommit, Row
  <1>5. UpdatesOf(m)' = {} /\ HooksOf(m)' = HooksOf(m)
    BY <1>2, <1>3 DEF UpdatesOf, HooksOf
  <1>6. Alone(m)'
    BY <1>2, <1>3, <1>4, OrderedAre DEF Alone, Visible
  <1>7. InTurn(m)'
    BY <1>2, <1>3, <1>4, <1>5 DEF InTurn
  <1>8. Rank(row'[m].status) >= Rank(row[m].status)
    BY <1>1, <1>2, <1>4, Ranks, OrderedAre
  <1> QED
    BY <1>6, <1>7, <1>8 DEF Kept

LEMMA ForwardInit == Init => ForwardInv
  <1> SUFFICES ASSUME Init, NEW m \in Ordered PROVE Alone(m) /\ InTurn(m)
    BY DEF ForwardInv
  <1>1. m \in Messages /\ 1 \in Copies
    BY FirstCopy, OrderedAreMessages DEF Messages
  <1>2. Alone(m)
    BY <1>1 DEF Init, Alone, NoRow, NoTask, Early
  <1>3. InTurn(m)
    BY <1>1 DEF Init, InTurn, HooksOf, UpdatesOf
  <1> QED
    BY <1>2, <1>3

(* What a step about message n leaves alone of m.                           *)
LEMMA OtherTask ==
  ASSUME TypeInv, NEW m \in Messages, NEW n \in Messages \ {m}, NEW k \in Copies,
         ApiStep(n) \/ WorkerStep(n, k) \/ FaultStep(n, k) \/ CloudStep(n)
  PROVE  /\ api'[m] = api[m] /\ row'[m] = row[m] /\ task'[m] = task[m] /\ cloud'[m] = cloud[m]
         /\ HooksOf(m)' = HooksOf(m) /\ UpdatesOf(m)' = UpdatesOf(m)
  <1>1. /\ api \in [Messages -> ApiStates] /\ row \in [Messages -> Row]
        /\ task \in [Messages -> [Copies -> Task]] /\ cloud \in [Messages -> Seq(KnownStatuses)]
    BY DEF TypeInv, TypeOK
  <1>2. api'[m] = api[m]
    BY <1>1 DEF ApiStep, AddMessage, StartDispatch, StartCommit, SendCommit, SendDispatch, Rollback,
       WorkerStep, TaskUnconfigured, TaskLoad, CallAccepted, CallRejected, SelectRow, PersistSent,
       PersistFailed, PersistUnconfigured, Retry, Ack, FaultStep, CallTimedOut, WorkerLost,
       WorkerLostAfterRetry, TransactionFails, CloudStep, CloudProgress, CloudExtra
  <1>3. row'[m] = row[m]
    BY <1>1 DEF ApiStep, AddMessage, StartDispatch, StartCommit, SendCommit, SendDispatch, Rollback,
       WorkerStep, TaskUnconfigured, TaskLoad, CallAccepted, CallRejected, SelectRow, PersistSent,
       PersistFailed, PersistUnconfigured, Retry, Ack, FaultStep, CallTimedOut, WorkerLost,
       WorkerLostAfterRetry, TransactionFails, CloudStep, CloudProgress, CloudExtra, Store
  <1>4. task'[m] = task[m]
    BY <1>1 DEF ApiStep, AddMessage, StartDispatch, StartCommit, SendCommit, SendDispatch, Rollback,
       WorkerStep, TaskUnconfigured, TaskLoad, CallAccepted, CallRejected, SelectRow, PersistSent,
       PersistFailed, PersistUnconfigured, Retry, Ack, FaultStep, CallTimedOut, WorkerLost,
       WorkerLostAfterRetry, TransactionFails, CloudStep, CloudProgress, CloudExtra, Becomes, Recorded, Put
  <1>5. cloud'[m] = cloud[m]
    BY <1>1 DEF ApiStep, AddMessage, StartDispatch, StartCommit, SendCommit, SendDispatch, Rollback,
       WorkerStep, TaskUnconfigured, TaskLoad, CallAccepted, CallRejected, SelectRow, PersistSent,
       PersistFailed, PersistUnconfigured, Retry, Ack, FaultStep, CallTimedOut, WorkerLost,
       WorkerLostAfterRetry, TransactionFails, CloudStep, CloudProgress, CloudExtra, Accept, cloudVars
  <1>6. updates' = updates
    BY DEF ApiStep, AddMessage, StartDispatch, StartCommit, SendCommit, SendDispatch, Rollback,
       WorkerStep, TaskUnconfigured, TaskLoad, CallAccepted, CallRejected, SelectRow, PersistSent,
       PersistFailed, PersistUnconfigured, Retry, Ack, FaultStep, CallTimedOut, WorkerLost,
       WorkerLostAfterRetry, TransactionFails, CloudStep, CloudProgress, CloudExtra
  <1>7. hooks' = hooks \/ \E i, s : hooks' = hooks \cup {[msg |-> n, id |-> i, status |-> s]}
    BY DEF ApiStep, AddMessage, StartDispatch, StartCommit, SendCommit, SendDispatch, Rollback,
       WorkerStep, TaskUnconfigured, TaskLoad, CallAccepted, CallRejected, SelectRow, PersistSent,
       PersistFailed, PersistUnconfigured, Retry, Ack, FaultStep, CallTimedOut, WorkerLost,
       WorkerLostAfterRetry, TransactionFails, CloudStep, CloudProgress, CloudExtra, Accept, cloudVars
  <1>8. HooksOf(m)' = HooksOf(m)
    BY <1>7 DEF HooksOf
  <1> QED
    BY <1>2, <1>3, <1>4, <1>5, <1>6, <1>8 DEF UpdatesOf

(* Every step, of m or of others, without a fault of m so far.              *)
LEMMA ForwardStep ==
  ASSUME TypeInv, DuplicatesInv, NEW m \in Ordered, Alone(m), InTurn(m), faults'[m] = 0,
         faults[m] = 0, Next
  PROVE  Kept(m)
  <1>0. m \in Messages /\ 1 \in Copies /\ Undispatched
    BY OrderedAre DEF DuplicatesInv
  <1>1. ASSUME NEW n \in Messages, ApiStep(n) \/ CloudStep(n) PROVE Kept(m)
    <2>1. CASE n # m
      BY <1>0, <1>1, <2>1, OtherTask, ForwardElsewhere
    <2>2. CASE n = m /\ ApiStep(m)
      BY <1>0, <2>2, ForwardApi
    <2>3. CASE n = m /\ CloudStep(m)
      BY <2>3, ForwardProgress DEF CloudStep, CloudExtra
    <2> QED
      BY <1>1, <2>1, <2>2, <2>3
  <1>2. ASSUME NEW n \in Messages, NEW k \in Copies, WorkerStep(n, k) \/ FaultStep(n, k)
        PROVE  Kept(m)
    <2>1. CASE n # m
      BY <1>0, <1>2, <2>1, OtherTask, ForwardElsewhere
    <2>2. CASE n = m /\ WorkerStep(m, k)
      BY <2>2, ForwardWorker
    <2>3. CASE n = m /\ FaultStep(m, k)
      <3>1. faults'[m] = 1
        BY <1>0, <2>3 DEF FaultStep, CallTimedOut, WorkerLost, WorkerLostAfterRetry,
                                TransactionFails, TypeInv, TypeOK
      <3> QED
        BY <3>1
    <2> QED
      BY <1>2, <2>1, <2>2, <2>3
  <1>3. CASE SetConfigured
    <2>1. HooksOf(m)' = HooksOf(m) /\ UpdatesOf(m)' = UpdatesOf(m)
      BY <1>3 DEF HooksOf, UpdatesOf, SetConfigured, cloudVars
    <2> QED
      BY <1>3, <2>1, ForwardElsewhere DEF SetConfigured, cloudVars
  <1>4. ASSUME NEW e \in hooks, StatusSelect(e) PROVE Kept(m)
    <2>1. CASE e.msg = m
      BY <1>4, <2>1, ForwardSelect
    <2>2. CASE e.msg # m
      <3>1. HooksOf(m)' = HooksOf(m)
        BY <1>4, <2>2 DEF HooksOf, StatusSelect
      <3>2. UpdatesOf(m)' = UpdatesOf(m)
        <4>1. PICK u : u = [msg |-> e.msg, status |-> ParseStatus(e.status)]
          OBVIOUS
        <4>2. u.msg # m /\ updates \subseteq updates' /\ updates' \subseteq updates \cup {u}
          BY <1>4, <2>2, <4>1 DEF StatusSelect
        <4> QED
          BY <4>2 DEF UpdatesOf
      <3> QED
        BY <1>4, <3>1, <3>2, ForwardElsewhere DEF StatusSelect
    <2> QED
      BY <2>1, <2>2
  <1>5. ASSUME NEW u \in updates, StatusCommit(u) PROVE Kept(m)
    <2>1. CASE u.msg = m
      BY <1>5, <2>1, ForwardCommit
    <2>2. CASE u.msg # m
      <3>1. HooksOf(m)' = HooksOf(m) /\ UpdatesOf(m)' = UpdatesOf(m)
        BY <1>5, <2>2 DEF HooksOf, UpdatesOf, StatusCommit, cloudVars
      <3>2. row'[m] = row[m]
        BY <1>0, <1>5, <2>2 DEF StatusCommit, TypeInv, TypeOK
      <3> QED
        BY <1>5, <3>1, <3>2, ForwardElsewhere DEF StatusCommit, cloudVars
    <2> QED
      BY <2>1, <2>2
  <1> QED
    BY <1>1, <1>2, <1>3, <1>4, <1>5 DEF Next

(* A fault, once counted, stays counted.                                    *)
LEMMA FaultsStay ==
  ASSUME TypeInv, Next, NEW m \in Messages, faults'[m] = 0
  PROVE  faults[m] = 0
  <1>1. faults \in [Messages -> 0..MaxFaults]
    BY DEF TypeInv, TypeOK
  <1>2. ASSUME NEW n \in Messages, ApiStep(n) \/ CloudStep(n) PROVE faults' = faults
    BY <1>2 DEF ApiStep, AddMessage, StartDispatch, StartCommit, SendCommit, SendDispatch, Rollback,
       CloudStep, CloudProgress, CloudExtra
  <1>3. ASSUME NEW n \in Messages, NEW k \in Copies, WorkerStep(n, k) PROVE faults' = faults
    BY <1>3 DEF WorkerStep, TaskUnconfigured, TaskLoad, CallAccepted, CallRejected, SelectRow,
       PersistSent, PersistFailed, PersistUnconfigured, Retry, Ack
  <1>4. ASSUME NEW n \in Messages, NEW k \in Copies, FaultStep(n, k)
        PROVE  faults' = [faults EXCEPT ![n] = @ + 1]
    BY <1>4 DEF FaultStep, CallTimedOut, WorkerLost, WorkerLostAfterRetry, TransactionFails
  <1>5. SetConfigured \/ (\E e \in hooks : StatusSelect(e)) \/ (\E u \in updates : StatusCommit(u))
           => faults' = faults
    BY DEF SetConfigured, StatusSelect, StatusCommit
  <1>6. faults' = faults \/ \E n \in Messages : faults' = [faults EXCEPT ![n] = @ + 1]
    BY <1>2, <1>3, <1>4, <1>5 DEF Next
  <1> QED
    BY <1>1, <1>6, BoundsAreNat

LEMMA ForwardKept ==
  TypeInv /\ DuplicatesInv /\ ForwardInv /\ [Next]_vars => ForwardInv' /\ [ForwardOnly]_vars
  <1> SUFFICES ASSUME TypeInv, DuplicatesInv, ForwardInv, [Next]_vars
               PROVE  ForwardInv' /\ [ForwardOnly]_vars
    OBVIOUS
  <1>1. CASE Next
    <2>1. ASSUME NEW m \in Ordered, faults'[m] = 0 PROVE Kept(m)
      <3>1. faults[m] = 0
        BY <1>1, <2>1, FaultsStay, OrderedAre
      <3> QED
        BY <1>1, <2>1, <3>1, ForwardStep DEF ForwardInv
    <2>2. ForwardInv'
      BY <2>1 DEF ForwardInv, Kept
    <2>3. ForwardOnly
      BY <2>1 DEF ForwardOnly, Kept
    <2> QED
      BY <2>2, <2>3
  <1>2. CASE UNCHANGED vars
    <2>1. ASSUME NEW m \in Ordered, faults[m] = 0 PROVE Kept(m)
      <3>1. HooksOf(m)' = HooksOf(m) /\ UpdatesOf(m)' = UpdatesOf(m)
        BY <1>2 DEF HooksOf, UpdatesOf, vars, cloudVars
      <3> QED
        BY <1>2, <2>1, <3>1, ForwardElsewhere DEF ForwardInv, vars, cloudVars
    <2> QED
      BY <1>2, <2>1 DEF ForwardInv, Kept, vars
  <1> QED
    BY <1>1, <1>2

(* For every message whose webhooks come in order and whose task met no     *)
(* fault, once its row has the id: no step takes its status back, however   *)
(* the task's own "sent" and the webhooks interleave.                       *)
THEOREM StatusForward == Spec => StatusMovesForward
  <1>1. Init => TypeInv /\ DuplicatesInv /\ ForwardInv
    BY TypeInit, DuplicatesInit, ForwardInit
  <1>2. TypeInv /\ DuplicatesInv /\ ForwardInv /\ [Next]_vars =>
          (TypeInv /\ DuplicatesInv /\ ForwardInv)' /\ [ForwardOnly]_vars
    BY TypeStep, DuplicatesStep, ForwardKept
  <1> QED
    BY <1>1, <1>2, PTL DEF Spec, StatusMovesForward
=============================================================================
