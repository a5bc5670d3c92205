--------------------------- MODULE PaymentsProofs ---------------------------
(***************************************************************************)
(* Proofs about Payments, for any invoices, charges, handlers and faults.   *)
(***************************************************************************)
EXTENDS Payments, TLAPS

USE NoChargeIsNone, MaxFaultsType

Hook == [charge : Charges \cup {NoCharge}, status : TapStatuses, seen : RowStatuses,
         done : BOOLEAN]

(* A webhook, waiting or being handled, is about a charge whose URL was     *)
(* answered and says what Tap did.                                          *)
Genuine(c, s) ==
    /\ c \in Charges /\ at[c] = "answered"
    /\ s = "CAPTURED" => c \in captured
    /\ s = "VOID" => c \in voided

(* A recorded charge is an answered one, and only answered ones move; a     *)
(* capture that is committed, and one Tap was answered of, is paid.         *)
HookInv ==
    /\ \A c \in Charges : at[c] = "answered" => payment[c] # "none"
    /\ \A p \in posts : Genuine(p[1], p[2])
    /\ \A h \in Handlers :
          hook[h].charge # NoCharge => Genuine(hook[h].charge, hook[h].status)
    /\ \A c \in captured : at[c] = "answered"
    /\ \A h \in Handlers : hook[h].done => hook[h].charge # NoCharge
    /\ \A h \in Handlers : hook[h].done /\ hook[h].status = "CAPTURED"
                            => invoice[of[hook[h].charge]] = "paid"

IInv == TypeOK /\ HookInv /\ PaidWasCaptured /\ PaymentsEarned /\ AnsweredIsPaid

-----------------------------------------------------------------------------
(* Type correctness *)

LEMMA MapTyped == \A s : StatusMap(s) \in RowStatuses
  BY DEF StatusMap, RowStatuses

(* The map says captured and refunded of these statuses only.               *)
LEMMA MapMeans ==
  ASSUME NEW s \in TapStatuses
  PROVE  /\ StatusMap(s) = "captured" => s = "CAPTURED"
         /\ StatusMap(s) = "refunded" => s = "VOID"
  BY DEF StatusMap, Known, TapStatuses, RowStatuses

LEMMA NextIsStatus == \A s : TapNext(s) \subseteq TapStatuses
  BY DEF TapNext, TapStatuses

(* What a commit of the webhook writes to the payments.                     *)
LEMMA StoredIs ==
  ASSUME TypeOK, HookInv, NEW h \in Handlers, hook[h].charge # NoCharge
  PROVE  /\ hook[h].charge \in Charges /\ hook[h].status \in TapStatuses
         /\ Stored(h) \in [Charges -> RowStatuses \cup {"none"}]
         /\ \A c \in Charges :
               \/ Stored(h)[c] = payment[c]
               \/ c = hook[h].charge /\ Stored(h)[c] = StatusMap(hook[h].status)
<1>1. hook[h] \in Hook
  BY DEF TypeOK, Hook
<1>2. hook[h].charge \in Charges /\ hook[h].status \in TapStatuses
  BY <1>1 DEF Hook
<1> QED
  BY <1>2, MapTyped DEF Stored, TypeOK

LEMMA TypeInit == Init => TypeOK
  BY DEF Init, TypeOK, Ats, IdleHook, TapStatuses, RowStatuses

LEMMA IdleIsHook == IdleHook \in Hook
  BY DEF IdleHook, Hook, TapStatuses, RowStatuses

LEMMA TypeNext == TypeOK /\ HookInv /\ [Next]_vars => TypeOK'
<1> SUFFICES ASSUME TypeOK, HookInv, [Next]_vars PROVE TypeOK'
  OBVIOUS
<1> USE DEF TypeOK
<1>1. ASSUME NEW c \in Charges, ChargeRead(c) \/ ChargeCall(c) \/ ChargeFail(c) \/ ChargeAnswer(c)
      PROVE  TypeOK'
  BY <1>1 DEF ChargeRead, ChargeCall, ChargeFail, ChargeAnswer, Ats, TapStatuses, RowStatuses
<1>2. ASSUME NEW c \in Charges, TapStep(c) PROVE TypeOK'
  <2>1. PICK s \in TapNext(tap[c]) :
           /\ tap' = [tap EXCEPT ![c] = s]
           /\ posts' \subseteq posts \cup {<<c, s>>}
           /\ captured' = captured \cup {x \in {c} : s = "CAPTURED"}
           /\ voided' = voided \cup {x \in {c} : s = "VOID"}
    BY <1>2 DEF TapStep
  <2>2. s \in TapStatuses
    BY NextIsStatus
  <2> QED
    BY <1>2, <2>1, <2>2 DEF TapStep
<1>3. ASSUME NEW h \in Handlers, HookFind(h) PROVE TypeOK'
  <2>1. PICK p \in posts :
           IF free /\ payment[p[1]] # "none"
           THEN hook' = [hook EXCEPT ![h] = Work(p[1], p[2])] /\ UNCHANGED <<posts, told>>
           ELSE Answer(p) /\ UNCHANGED hook
    BY <1>3 DEF HookFind
  <2>2. ASSUME payment[p[1]] # "none" PROVE Work(p[1], p[2]) \in Hook
    BY <2>2 DEF Work, Hook
  <2>3. hook \in [Handlers -> Hook]
    BY DEF Hook
  <2>4. /\ hook' \in [Handlers -> Hook] /\ posts' \subseteq Charges \X TapStatuses
        /\ told' \subseteq Charges
    BY <2>1, <2>2, <2>3 DEF Answer
  <2> QED
    BY <1>3, <2>4 DEF HookFind, Hook
<1>4. ASSUME NEW h \in Handlers, HookCommit(h) PROVE TypeOK'
  <2>1. payment' \in [Charges -> RowStatuses \cup {"none"}]
    BY <1>4, StoredIs DEF HookCommit
  <2>2. hook' \in [Handlers -> Hook]
    <3>1. hook \in [Handlers -> Hook] /\ hook' = [hook EXCEPT ![h].done = TRUE]
      BY <1>4 DEF HookCommit, Hook
    <3>2. [hook[h] EXCEPT !.done = TRUE] \in Hook
      BY <3>1 DEF Hook
    <3> QED
      BY <3>1, <3>2
  <2>3. invoice' \in [Invoices -> {"pending", "paid"}]
    BY <1>4, StoredIs DEF HookCommit, Paid
  <2> QED
    BY <1>4, <2>1, <2>2, <2>3 DEF HookCommit, Hook
<1>5. ASSUME NEW h \in Handlers, HookFail(h) PROVE TypeOK'
  <2>1. hook' \in [Handlers -> Hook]
    BY <1>5, IdleIsHook DEF HookFail, Hook
  <2> QED
    BY <1>5, <2>1 DEF HookFail, Hook
<1>6. ASSUME NEW h \in Handlers, HookAnswer(h) PROVE TypeOK'
  <2>1. hook' \in [Handlers -> Hook]
    BY <1>6, IdleIsHook DEF HookAnswer, Hook
  <2>2. posts' \subseteq Charges \X TapStatuses /\ told' \subseteq Charges
    BY <1>6, StoredIs DEF HookAnswer, Answer, HookInv
  <2> QED
    BY <1>6, <2>1, <2>2 DEF HookAnswer, Hook
<1>7. CASE UNCHANGED vars
  BY <1>7 DEF vars
<1> QED
  BY <1>1, <1>2, <1>3, <1>4, <1>5, <1>6, <1>7 DEF Next

-----------------------------------------------------------------------------
(* The induction *)

LEMMA InvInit == Init => IInv
<1> SUFFICES ASSUME Init PROVE IInv
  OBVIOUS
<1>1. TypeOK
  BY TypeInit
<1>2. \A h \in Handlers : hook[h].charge = NoCharge /\ ~hook[h].done
  BY DEF Init, IdleHook
<1>3. HookInv
  BY <1>2 DEF Init, HookInv
<1> QED
  BY <1>1, <1>3 DEF Init, IInv, PaidWasCaptured, PaymentsEarned, AnsweredIsPaid

(* A step of create_charge.                                                 *)
LEMMA ChargeNext ==
  ASSUME IInv, NEW c \in Charges,
         ChargeRead(c) \/ ChargeCall(c) \/ ChargeFail(c) \/ ChargeAnswer(c)
  PROVE  (HookInv /\ PaidWasCaptured /\ PaymentsEarned /\ AnsweredIsPaid)'
<1> USE DEF IInv
<1>1. UNCHANGED <<invoice, of, posts, hook, free, captured, voided, told>>
  BY DEF ChargeRead, ChargeCall, ChargeFail, ChargeAnswer
<1>2. at[c] # "answered"
  BY DEF ChargeRead, ChargeCall, ChargeFail, ChargeAnswer
<1>3. \A o \in Charges : at[o] = "answered" => at'[o] = "answered" /\ payment'[o] = payment[o]
  BY <1>2 DEF ChargeRead, ChargeCall, ChargeFail, ChargeAnswer, TypeOK
<1>4. \A o \in Charges : \/ payment'[o] = payment[o] /\ (at'[o] = "answered" => at[o] = "answered")
                         \/ payment'[o] = "pending"
  BY DEF ChargeRead, ChargeCall, ChargeFail, ChargeAnswer, TypeOK
<1>5. HookInv'
  BY <1>1, <1>3, <1>4 DEF HookInv, Genuine, TypeOK
<1>6. PaidWasCaptured'
  BY <1>1 DEF PaidWasCaptured
<1>7. PaymentsEarned'
  BY <1>1, <1>4 DEF PaymentsEarned
<1>8. AnsweredIsPaid'
  BY <1>1 DEF AnsweredIsPaid
<1> QED
  BY <1>5, <1>6, <1>7, <1>8

(* A step of Tap.                                                           *)
LEMMA TapNextInv ==
  ASSUME IInv, NEW c \in Charges, TapStep(c)
  PROVE  (HookInv /\ PaidWasCaptured /\ PaymentsEarned /\ AnsweredIsPaid)'
<1> USE DEF IInv
<1>1. PICK s \in TapNext(tap[c]) :
         /\ posts' \subseteq posts \cup {<<c, s>>}
         /\ captured' = captured \cup {x \in {c} : s = "CAPTURED"}
         /\ voided' = voided \cup {x \in {c} : s = "VOID"}
  BY DEF TapStep
<1>2. UNCHANGED <<invoice, payment, at, of, hook, free, told>> /\ at[c] = "answered"
  BY DEF TapStep
<1>3. captured \subseteq captured' /\ voided \subseteq voided' /\ captured' \subseteq captured \cup {c}
  BY <1>1
<1>4. HookInv'
  BY <1>1, <1>2, <1>3 DEF HookInv, Genuine
<1> QED
  BY <1>2, <1>3, <1>4 DEF PaidWasCaptured, PaymentsEarned, AnsweredIsPaid, TypeOK

(* A webhook is taken up, is answered, or fails.                            *)
LEMMA FindNext ==
  ASSUME IInv, NEW h \in Handlers, HookFind(h) \/ HookAnswer(h) \/ HookFail(h)
  PROVE  (HookInv /\ PaidWasCaptured /\ PaymentsEarned /\ AnsweredIsPaid)'
<1> USE DEF IInv
<1>1. UNCHANGED <<invoice, payment, at, of, free, captured, voided>>
  BY DEF HookFind, HookAnswer, HookFail
<1>2. posts' \subseteq posts
  BY DEF HookFind, HookAnswer, HookFail, Answer
<1>3. \A o \in Handlers :
         \/ hook'[o] = hook[o]
         \/ ~hook'[o].done /\ hook'[o].charge = NoCharge
         \/ ~hook'[o].done /\ \E p \in posts : hook'[o].charge = p[1] /\ hook'[o].status = p[2]
  BY DEF HookFind, HookAnswer, HookFail, TypeOK, Work, IdleHook
<1>4. HookInv'
  BY <1>1, <1>2, <1>3 DEF HookInv, Genuine
<1>5. AnsweredIsPaid'
  <2>1. CASE HookFind(h)
    <3>1. \A p \in posts : payment[p[1]] # "none"
      BY DEF HookInv, Genuine
    <3>2. free => told' = told
      BY <2>1, <3>1 DEF HookFind
    <3> QED
      BY <1>1, <3>2 DEF AnsweredIsPaid
  <2>2. CASE HookAnswer(h)
    <3>1. \A c \in told' : c \in told \/ (c = hook[h].charge /\ hook[h].status = "CAPTURED")
      BY <2>2 DEF HookAnswer, Answer
    <3>2. hook[h].done
      BY <2>2 DEF HookAnswer
    <3> QED
      BY <1>1, <3>1, <3>2 DEF AnsweredIsPaid, HookInv
  <2>3. CASE HookFail(h)
    BY <1>1, <2>3 DEF HookFail, AnsweredIsPaid
  <2> QED
    BY <2>1, <2>2, <2>3
<1> QED
  BY <1>1, <1>4, <1>5 DEF PaidWasCaptured, PaymentsEarned

(* A webhook commits.                                                       *)
LEMMA CommitNext ==
  ASSUME IInv, NEW h \in Handlers, HookCommit(h)
  PROVE  (HookInv /\ PaidWasCaptured /\ PaymentsEarned /\ AnsweredIsPaid)'
<1> USE DEF IInv
<1> DEFINE c == hook[h].charge
           s == hook[h].status
<1>1. c # NoCharge
  BY DEF HookCommit
<1>2. c \in Charges /\ s \in TapStatuses
  BY <1>1, StoredIs
<1>3. Genuine(c, s)
  BY <1>1 DEF HookInv
<1>4. UNCHANGED <<at, of, posts, free, captured, voided, told>>
  BY DEF HookCommit
<1>5. \A o \in Charges : payment'[o] = payment[o] \/ (o = c /\ payment'[o] = StatusMap(s))
  BY <1>1, StoredIs DEF HookCommit
<1>6. \A o \in Handlers : /\ hook'[o].charge = hook[o].charge
                          /\ hook'[o].status = hook[o].status
                          /\ o # h => hook'[o].done = hook[o].done
  BY DEF HookCommit, TypeOK
<1>7. \/ invoice' = invoice /\ StatusMap(s) # "captured"
      \/ StatusMap(s) = "captured" /\ invoice' = [invoice EXCEPT ![of[c]] = "paid"]
  BY DEF HookCommit, Paid
<1>8. of[c] \in Invoices
  BY <1>2 DEF TypeOK
<1>9. /\ \A i \in Invoices : invoice[i] = "paid" => invoice'[i] = "paid"
      /\ s = "CAPTURED" => invoice'[of[c]] = "paid"
  <2>1. StatusMap("CAPTURED") = "captured"
    BY DEF StatusMap, Known, RowStatuses
  <2> HIDE DEF c, s
  <2> QED
    BY <1>7, <1>8, <2>1 DEF TypeOK
<1>10. \A o \in Handlers : hook[o].charge # NoCharge => of[hook[o].charge] \in Invoices
  BY DEF TypeOK
<1>11. "none" \notin RowStatuses
  BY DEF RowStatuses
<1>12. HookInv'
  <2>1. \A o \in Handlers : hook'[o].done /\ hook'[o].status = "CAPTURED"
                            => invoice'[of'[hook'[o].charge]] = "paid"
    BY <1>4, <1>6, <1>9, <1>10 DEF HookInv
  <2>2. \A o \in Handlers : hook'[o].done => hook'[o].charge # NoCharge
    BY <1>1, <1>6 DEF HookInv
  <2> HIDE DEF c, s
  <2> QED
    BY <1>4, <1>5, <1>6, <1>11, <2>1, <2>2, MapTyped DEF HookInv, Genuine
<1> HIDE DEF c, s
<1>13. PaymentsEarned'
  BY <1>2, <1>3, <1>4, <1>5, MapMeans DEF PaymentsEarned, Genuine
<1>14. StatusMap(s) = "captured" => c \in captured
  BY <1>2, <1>3, MapMeans DEF Genuine
<1>15. PaidWasCaptured'
  BY <1>2, <1>4, <1>7, <1>14 DEF PaidWasCaptured, TypeOK
<1>16. AnsweredIsPaid'
  BY <1>4, <1>9 DEF AnsweredIsPaid, TypeOK
<1> QED
  BY <1>12, <1>13, <1>15, <1>16

LEMMA InvNext == IInv /\ [Next]_vars => IInv'
<1> SUFFICES ASSUME IInv, [Next]_vars PROVE IInv'
  OBVIOUS
<1>1. TypeOK'
  BY TypeNext DEF IInv
<1>2. CASE UNCHANGED vars
  BY <1>2 DEF vars, IInv, HookInv, Genuine, PaidWasCaptured, PaymentsEarned,
              AnsweredIsPaid, TypeOK
<1> QED
  BY <1>1, <1>2, ChargeNext, TapNextInv, FindNext, CommitNext DEF Next, IInv

LEMMA Inductive == Spec => []IInv
  BY InvInit, InvNext, PTL DEF Spec

(* Every reachable state of invoices, payments and webhooks is well typed.  *)
THEOREM TypeCorrect == Spec => []TypeOK
<1>1. IInv => TypeOK
  BY DEF IInv
<1> QED
  BY <1>1, Inductive, PTL

(* An invoice is paid only if Tap captured a charge for it.                 *)
THEOREM InvoicesEarned == Spec => []PaidWasCaptured
<1>1. IInv => PaidWasCaptured
  BY DEF IInv
<1> QED
  BY <1>1, Inductive, PTL

(* A payment never says captured or refunded of a charge that was not.      *)
THEOREM RowsEarned == Spec => []PaymentsEarned
<1>1. IInv => PaymentsEarned
  BY DEF IInv
<1> QED
  BY <1>1, Inductive, PTL

(* No captured charge lacks its payment row, though the charge is made by a *)
(* call in the middle of the transaction.                                   *)
THEOREM CapturedRecorded == Spec => []PaidChargesRecorded
<1>1. IInv => PaidChargesRecorded
  BY DEF IInv, HookInv, PaidChargesRecorded, TypeOK
<1> QED
  BY <1>1, Inductive, PTL

(* A capture whose webhook was answered by a handler that sees the payments *)
(* is paid.                                                                 *)
THEOREM AnswersCorrect == Spec => []AnsweredIsPaid
<1>1. IInv => AnsweredIsPaid
  BY DEF IInv
<1> QED
  BY <1>1, Inductive, PTL

(* Invoices and payments say what Tap did, and no captured charge is        *)
(* missing.                                                                 *)
THEOREM PaymentsCorrect == Spec => []PaymentsSound
<1>1. PaidWasCaptured /\ PaymentsEarned /\ PaidChargesRecorded => PaymentsSound
  BY DEF PaymentsSound
<1> QED
  BY <1>1, InvoicesEarned, RowsEarned, CapturedRecorded, PTL

-----------------------------------------------------------------------------
(* Charges whose webhooks come in order *)

(* What is waiting for such a charge, and the one handler that may have     *)
(* taken it, carry its status at Tap; with nothing waiting the payment has  *)
(* that status.                                                             *)
Agrees(c) ==
    /\ at[c] = "called" => tap[c] = "INITIATED"
    /\ \A p \in posts : p[1] = c => p = <<c, tap[c]>>
    /\ \A h \in Handlers : hook[h].charge = c =>
          /\ <<c, tap[c]>> \in posts
          /\ hook[h].status = tap[c]
          /\ ~hook[h].done => hook[h].seen = payment[c]
          /\ hook[h].done => payment[c] = StatusMap(tap[c])
    /\ \A g, h \in Handlers : hook[g].charge = c /\ hook[h].charge = c => g = h
    /\ at[c] = "answered" /\ <<c, tap[c]>> \notin posts => payment[c] = StatusMap(tap[c])

AgreeInv == \A c \in Charges \cap Ordered : Agrees(c)

LEMMA AgreeInit == Init => AgreeInv
<1> SUFFICES ASSUME Init PROVE AgreeInv
  OBVIOUS
<1>1. \A h \in Handlers : hook[h].charge = NoCharge
  BY DEF Init, IdleHook
<1> QED
  BY <1>1 DEF Init, AgreeInv, Agrees

(* Nothing waits for a charge that was not answered, and nobody has it.     *)
LEMMA Unanswered ==
  ASSUME IInv, NEW c \in Charges, at[c] # "answered"
  PROVE  /\ \A p \in posts : p[1] # c
         /\ \A h \in Handlers : hook[h].charge # c
  BY DEF IInv, HookInv, Genuine

LEMMA ChargeAgrees ==
  ASSUME IInv, AgreeInv, NEW c \in Charges,
         ChargeRead(c) \/ ChargeCall(c) \/ ChargeFail(c) \/ ChargeAnswer(c)
  PROVE  AgreeInv'
<1> SUFFICES ASSUME NEW o \in Charges \cap Ordered PROVE Agrees(o)'
  BY DEF AgreeInv
<1>1. Agrees(o)
  BY DEF AgreeInv
<1>2. UNCHANGED <<posts, hook>> /\ at[c] # "answered"
  BY DEF ChargeRead, ChargeCall, ChargeFail, ChargeAnswer
<1>3. CASE o # c
  <2>1. at'[o] = at[o] /\ tap'[o] = tap[o] /\ payment'[o] = payment[o]
    BY <1>3 DEF ChargeRead, ChargeCall, ChargeFail, ChargeAnswer, IInv, TypeOK
  <2> QED
    BY <1>1, <1>2, <2>1 DEF Agrees
<1>4. CASE o = c
  <2>1. /\ \A p \in posts : p[1] # c
        /\ \A h \in Handlers : hook[h].charge # c
    BY <1>2, Unanswered
  <2>2. at'[c] = "called" => tap'[c] = "INITIATED"
    BY DEF ChargeRead, ChargeCall, ChargeFail, ChargeAnswer, IInv, TypeOK
  <2>3. at'[c] = "answered" => payment'[c] = "pending" /\ tap'[c] = "INITIATED"
    BY <1>1, <1>4 DEF ChargeRead, ChargeCall, ChargeFail, ChargeAnswer, Agrees, IInv, TypeOK
  <2>4. StatusMap("INITIATED") = "pending"
    BY DEF StatusMap, Known, RowStatuses
  <2> QED
    BY <1>2, <1>4, <2>1, <2>2, <2>3, <2>4 DEF Agrees
<1> QED
  BY <1>3, <1>4

LEMMA TapAgrees == ASSUME IInv, AgreeInv, NEW c \in Charges, TapStep(c) PROVE AgreeInv'
<1> SUFFICES ASSUME NEW o \in Charges \cap Ordered PROVE Agrees(o)'
  BY DEF AgreeInv
<1>1. Agrees(o)
  BY DEF AgreeInv
<1>2. PICK s : /\ tap' = [tap EXCEPT ![c] = s]
               /\ posts' \subseteq posts \cup {<<c, s>>}
               /\ c \in Ordered => <<c, s>> \in posts'
               /\ posts \subseteq posts'
  BY DEF TapStep
<1>3. UNCHANGED <<payment, at, hook>> /\ at[c] = "answered"
  BY DEF TapStep
<1>4. CASE o # c
  <2>1. tap'[o] = tap[o]
    BY <1>2, <1>4 DEF IInv, TypeOK
  <2>2. \A p \in posts' : p[1] = o => p \in posts
    BY <1>2, <1>4
  <2> QED
    BY <1>1, <1>2, <1>3, <2>1, <2>2 DEF Agrees
<1>5. CASE o = c
  <2>1. \A p \in posts : p[1] # c
    <3>1. \A t \in TapStatuses : <<c, t>> \notin posts
      BY <1>5 DEF TapStep
    <3> QED
      BY <3>1 DEF IInv, TypeOK
  <2>2. \A h \in Handlers : hook[h].charge # c
    BY <1>1, <1>5, <2>1 DEF Agrees
  <2>3. tap'[c] = s
    BY <1>2 DEF IInv, TypeOK
  <2> QED
    BY <1>2, <1>3, <1>5, <2>1, <2>2, <2>3 DEF Agrees
<1> QED
  BY <1>4, <1>5

LEMMA FindAgrees ==
  ASSUME IInv, free, AgreeInv, NEW h \in Handlers, HookFind(h)
  PROVE  AgreeInv'
<1> SUFFICES ASSUME NEW o \in Charges \cap Ordered PROVE Agrees(o)'
  BY DEF AgreeInv
<1>1. Agrees(o)
  BY DEF AgreeInv
<1>2. UNCHANGED <<payment, at, tap>>
  BY DEF HookFind
<1>3. PICK p \in posts :
         /\ p[1] \in Ordered => \A g \in Handlers : hook[g].charge # p[1]
         /\ IF free /\ payment[p[1]] # "none"
            THEN hook' = [hook EXCEPT ![h] = Work(p[1], p[2])] /\ UNCHANGED <<posts, told>>
            ELSE Answer(p) /\ UNCHANGED hook
  BY DEF HookFind
<1>4. payment[p[1]] # "none"
  BY DEF IInv, HookInv, Genuine
<1>5. /\ posts' = posts
      /\ hook'[h].charge = p[1] /\ hook'[h].status = p[2] /\ hook'[h].seen = payment[p[1]]
      /\ ~hook'[h].done
      /\ \A g \in Handlers \ {h} : hook'[g] = hook[g]
  BY <1>3, <1>4 DEF Work, IInv, TypeOK
<1>6. CASE p[1] # o
  BY <1>1, <1>2, <1>5, <1>6 DEF Agrees
<1>7. CASE p[1] = o
  <2>1. p = <<o, tap[o]>>
    BY <1>1, <1>7 DEF Agrees
  <2>2. \A g \in Handlers : hook[g].charge # o
    BY <1>3, <1>7
  <2> QED
    BY <1>1, <1>2, <1>3, <1>5, <1>7, <2>1, <2>2 DEF Agrees
<1> QED
  BY <1>6, <1>7

LEMMA CommitAgrees ==
  ASSUME IInv, AgreeInv, NEW h \in Handlers, HookCommit(h)
  PROVE  AgreeInv'
<1> SUFFICES ASSUME NEW o \in Charges \cap Ordered PROVE Agrees(o)'
  BY DEF AgreeInv
<1> DEFINE c == hook[h].charge
           s == hook[h].status
<1>1. Agrees(o)
  BY DEF AgreeInv
<1>2. c # NoCharge /\ c \in Charges /\ ~hook[h].done
  BY StoredIs DEF HookCommit, IInv
<1>3. UNCHANGED <<at, tap, posts>>
  BY DEF HookCommit
<1>4. /\ hook'[h].charge = c /\ hook'[h].status = s /\ hook'[h].done
      /\ \A g \in Handlers \ {h} : hook'[g] = hook[g]
  BY DEF HookCommit, IInv, TypeOK
<1>5. CASE c # o
  <2>1. payment'[o] = payment[o]
    BY <1>2, <1>5, StoredIs DEF HookCommit, IInv
  <2> HIDE DEF c, s
  <2> QED
    BY <1>1, <1>3, <1>4, <1>5, <2>1 DEF Agrees, c
<1>6. CASE c = o
  <2>1. s = tap[o] /\ hook[h].seen = payment[o] /\ <<o, tap[o]>> \in posts
    BY <1>1, <1>2, <1>6 DEF Agrees
  <2>2. payment'[o] = StatusMap(tap[o])
    BY <1>6, <2>1 DEF HookCommit, Stored, IInv, TypeOK
  <2>3. \A g \in Handlers \ {h} : hook[g].charge # o
    BY <1>1, <1>6 DEF Agrees
  <2>4. at'[o] # "called"
    BY <1>2, <1>3, <1>6 DEF IInv, HookInv, Genuine
  <2>5. \A g \in Handlers : hook'[g].charge = o => g = h
    BY <1>4, <2>3
  <2> HIDE DEF c, s
  <2> QED
    BY <1>1, <1>3, <1>4, <1>6, <2>1, <2>2, <2>4, <2>5 DEF Agrees
<1> QED
  BY <1>5, <1>6

LEMMA AnswerAgrees ==
  ASSUME IInv, AgreeInv, NEW h \in Handlers, HookAnswer(h)
  PROVE  AgreeInv'
<1> SUFFICES ASSUME NEW o \in Charges \cap Ordered PROVE Agrees(o)'
  BY DEF AgreeInv
<1> DEFINE c == hook[h].charge
           s == hook[h].status
<1>1. Agrees(o)
  BY DEF AgreeInv
<1>2. hook[h].done /\ c \in Charges /\ posts' = posts \ {<<c, s>>}
  BY StoredIs DEF HookAnswer, Answer, IInv, HookInv
<1>3. UNCHANGED <<payment, at, tap>>
  BY DEF HookAnswer
<1>4. hook'[h].charge = NoCharge /\ \A g \in Handlers \ {h} : hook'[g] = hook[g]
  BY DEF HookAnswer, IdleHook, IInv, TypeOK
<1>5. CASE c # o
  <2>1. \A p \in posts : p[1] = o => p \in posts'
    BY <1>2, <1>5
  <2>2. posts' \subseteq posts
    BY <1>2
  <2>3. <<o, tap[o]>> \in posts => <<o, tap[o]>> \in posts'
    BY <2>1
  <2> HIDE DEF c, s
  <2> QED
    BY <1>1, <1>3, <1>4, <2>2, <2>3 DEF Agrees
<1>6. CASE c = o
  <2>1. s = tap[o] /\ payment[o] = StatusMap(tap[o])
    BY <1>1, <1>2, <1>6 DEF Agrees
  <2>2. \A g \in Handlers \ {h} : hook[g].charge # o
    BY <1>1, <1>6 DEF Agrees
  <2>3. \A p \in posts' : p[1] # o
    BY <1>1, <1>2, <1>6, <2>1 DEF Agrees
  <2>4. \A g \in Handlers : hook'[g].charge # o
    BY <1>4, <2>2
  <2>5. at'[o] # "called"
    BY <1>2, <1>3, <1>6 DEF IInv, HookInv, Genuine
  <2> HIDE DEF c, s
  <2> QED
    BY <1>3, <2>1, <2>3, <2>4, <2>5 DEF Agrees
<1> QED
  BY <1>5, <1>6

LEMMA AgreeNext == IInv /\ (free => AgreeInv) /\ [Next]_vars => (free => AgreeInv)'
<1> SUFFICES ASSUME IInv, free => AgreeInv, [Next]_vars, free' PROVE AgreeInv'
  OBVIOUS
<1>1. free /\ AgreeInv
  BY DEF Next, vars, ChargeRead, ChargeCall, ChargeFail, ChargeAnswer, TapStep,
         HookFind, HookCommit, HookAnswer, HookFail
<1>2. ASSUME NEW h \in Handlers, HookFail(h) PROVE AgreeInv'
  <2>1. UNCHANGED <<payment, at, tap, posts>>
    BY <1>2 DEF HookFail
  <2>2. hook'[h].charge = NoCharge /\ \A g \in Handlers \ {h} : hook'[g] = hook[g]
    BY <1>2 DEF HookFail, IdleHook, IInv, TypeOK
  <2> QED
    BY <1>1, <2>1, <2>2 DEF AgreeInv, Agrees
<1>3. CASE UNCHANGED vars
  BY <1>1, <1>3 DEF vars, AgreeInv, Agrees
<1> QED
  BY <1>1, <1>2, <1>3, ChargeAgrees, TapAgrees, FindAgrees, CommitAgrees, AnswerAgrees DEF Next

(* Once the webhooks of a charge whose every step comes, one at a time, are *)
(* handled, its payment has the status Tap gave it last, however often      *)
(* handlers failed and answers were lost.                                   *)
THEOREM LastStatusKept == Spec => []PaymentAgrees
<1>1. IInv /\ (free => AgreeInv) => PaymentAgrees
  <2> SUFFICES ASSUME IInv, AgreeInv, free, NEW c \in Charges \cap Ordered,
                      at[c] = "answered", Quiet(c)
               PROVE  payment[c] = StatusMap(tap[c])
    BY DEF PaymentAgrees
  <2>1. <<c, tap[c]>> \notin posts
    BY DEF Quiet, IInv, TypeOK
  <2> QED
    BY <2>1 DEF AgreeInv, Agrees
<1>2. Init => IInv /\ (free => AgreeInv)
  BY InvInit, AgreeInit
<1>3. IInv /\ (free => AgreeInv) /\ [Next]_vars => (IInv /\ (free => AgreeInv))'
  BY InvNext, AgreeNext
<1> QED
  BY <1>1, <1>2, <1>3, PTL DEF Spec
=============================================================================
