------------------------ MODULE SubscriptionsProofs ------------------------
(***************************************************************************)
(* Proofs about Subscriptions, for every set of requests, every mix of      *)
(* their kinds and every number of months.                                  *)
(***************************************************************************)
EXTENDS Subscriptions, FiniteSetTheorems, TLAPS

USE ReqsFinite, KindType, LastMonthType

Row == [status : Statuses, current : BOOLEAN, cancelAtEnd : BOOLEAN]
Invoice == [number : Numbers, sub : Reqs]

-----------------------------------------------------------------------------
(* Type correctness *)

LEMMA NewSubIsRow == NewSub \in Row
  BY DEF NewSub, Row, Statuses

(* The place a request has in the order of created_at is a number.          *)
LEMMA BornIsNat == Cardinality({o \in Reqs : born[o] > 0}) + 1 \in Nat
<1>1. IsFiniteSet({o \in Reqs : born[o] > 0})
  BY FS_Subset
<1> QED
  BY <1>1, FS_CardinalityType

LEMMA LatestCommitted == \A statuses : Latest(statuses) \subseteq Committed
  BY DEF Latest

LEMMA TypeInit == Init => TypeOK
<1> SUFFICES ASSUME Init PROVE TypeOK
  OBVIOUS
<1>1. Committed = {}
  BY DEF Init, Committed
<1>2. subs \in [Committed -> Row]
  BY <1>1 DEF Init, Committed
<1>3. 1 \in Months /\ [month |-> 1, seq |-> 1] \in Numbers
  BY DEF Months, Numbers
<1> QED
  BY <1>1, <1>2, <1>3 DEF Init, TypeOK, Row, Ats

LEMMA TypeNext == TypeOK /\ [Next]_vars => TypeOK'
<1> SUFFICES ASSUME TypeOK, [Next]_vars PROVE TypeOK'
  OBVIOUS
<1> USE DEF TypeOK
<1>1. ASSUME NEW r \in Reqs, InsertRow(r) PROVE TypeOK'
  <2>1. born' \in [Reqs -> Nat]
    BY <1>1, BornIsNat DEF InsertRow
  <2> QED
    BY <1>1, <2>1 DEF InsertRow, Ats, Committed
<1>2. ASSUME NEW r \in Reqs, ChangePick(r) PROVE TypeOK'
  <2>1. PICK s \in Latest(Live) : row' = [row EXCEPT ![r] = s]
    BY <1>2 DEF ChangePick
  <2>2. s \in Reqs
    BY LatestCommitted
  <2> QED
    BY <1>2, <2>1, <2>2 DEF ChangePick, Ats, Committed
<1>3. ASSUME NEW r \in Reqs, Count(r) PROVE TypeOK'
  <2>1. [month |-> month, seq |-> Len(invoices) + 1] \in Numbers
    BY DEF Numbers
  <2> QED
    BY <1>3, <2>1 DEF Count, Ats, Committed
<1>4. ASSUME NEW r \in Reqs, InsertInvoice(r) PROVE TypeOK'
  BY <1>4 DEF InsertInvoice, Ats, Committed
<1>5. ASSUME NEW r \in Reqs, Commit(r) PROVE TypeOK'
  <2>1. Committed' = Committed \cup {row[r]}
    BY <1>5 DEF Commit, Committed
  <2>2. \A s \in Committed : subs[s] \in Row /\ [subs[s] EXCEPT !.current = TRUE] \in Row
    BY DEF Row
  <2>3. subs' \in [Committed' -> Row]
    BY <1>5, <2>1, <2>2, NewSubIsRow DEF Commit
  <2>4. [number |-> number[r], sub |-> row[r]] \in Invoice
    BY DEF Invoice
  <2>5. invoices' \in Seq(Invoice)
    BY <1>5, <2>4 DEF Commit, Invoice
  <2> QED
    BY <1>5, <2>1, <2>3, <2>5 DEF Commit, Ats, Row, Invoice
<1>6. ASSUME NEW r \in Reqs, CancelPick(r) PROVE TypeOK'
  <2>1. row' \in [Reqs -> Reqs]
    <3>1. row' = row \/ \E s \in Latest({"active"}) : row' = [row EXCEPT ![r] = s]
      BY <1>6 DEF CancelPick
    <3>2. Latest({"active"}) \subseteq Reqs
      BY LatestCommitted
    <3>3. row \in [Reqs -> Reqs]
      OBVIOUS
    <3> QED
      BY <3>1, <3>2, <3>3
  <2>2. at' \in [Reqs -> Ats]
    BY <1>6 DEF CancelPick, Ats
  <2> QED
    BY <1>6, <2>1, <2>2 DEF CancelPick, Committed
<1>7. ASSUME NEW r \in Reqs, CancelCommit(r) PROVE TypeOK'
  <2>1. Committed' = Committed
    BY <1>7 DEF CancelCommit, Committed
  <2>2. subs \in [Committed -> Row]
    BY DEF Row
  <2>3. \A w \in Row : /\ [w EXCEPT !.cancelAtEnd = TRUE] \in Row
                       /\ [w EXCEPT !.status = "cancelled"] \in Row
    BY DEF Row, Statuses
  <2>4. subs' \in [Committed' -> Row]
    BY <1>7, <2>1, <2>2, <2>3 DEF CancelCommit
  <2> QED
    BY <1>7, <2>1, <2>4 DEF CancelCommit, Ats, Row
<1>8. ASSUME NEW r \in Reqs, Abort(r) PROVE TypeOK'
  BY <1>8 DEF Abort, Ats, Committed
<1>9. CASE CheckRead
  BY <1>9 DEF CheckRead, DueNow, Committed
<1>10. CASE CheckCommit
  <2>1. Committed' = Committed
    BY <1>10 DEF CheckCommit, Committed
  <2>2. \A s \in Committed : subs[s] \in Row /\ [subs[s] EXCEPT !.status = "past_due"] \in Row
    BY DEF Row, Statuses
  <2>3. subs' \in [Committed' -> Row]
    BY <1>10, <2>1, <2>2 DEF CheckCommit
  <2> QED
    BY <1>10, <2>1, <2>3 DEF CheckCommit, Row
<1>11. CASE CheckAbort
  BY <1>11 DEF CheckAbort, Committed
<1>12. ASSUME NEW s \in Reqs, Expire(s) PROVE TypeOK'
  <2>1. Committed' = Committed
    BY <1>12 DEF Expire, Committed
  <2>2. subs \in [Committed -> Row]
    BY DEF Row
  <2>3. subs' \in [Committed' -> Row]
    BY <1>12, <2>1, <2>2 DEF Expire, Row
  <2> QED
    BY <1>12, <2>1, <2>3 DEF Expire, Row
<1>13. CASE TurnMonth
  BY <1>13 DEF TurnMonth, Months, Committed, Numbers
<1>14. CASE UNCHANGED vars
  BY <1>14 DEF vars, Committed
<1> QED
  BY <1>1, <1>2, <1>3, <1>4, <1>5, <1>6, <1>7, <1>8, <1>9, <1>10, <1>11, <1>12,
     <1>13, <1>14 DEF Next, Handle

(* Every reachable state of rows, numbers and requests is well typed.       *)
THEOREM TypeCorrect == Spec => []TypeOK
  BY TypeInit, TypeNext, PTL DEF Spec

-----------------------------------------------------------------------------
(* Invoice numbers *)

(* An inserted invoice has a number no committed and no other inserted one  *)
(* has: what the unique key and its waiting guarantee.                      *)
KeyInv ==
    /\ \A r, o \in Reqs :
          at[r] = "invoiced" /\ at[o] = "invoiced" /\ number[r] = number[o] => r = o
    /\ \A r \in Reqs : at[r] = "invoiced" => number[r] \notin Taken

LEMMA KeyInit == Init => KeyInv /\ NumbersDistinct
  BY DEF Init, KeyInv, NumbersDistinct

(* A step that inserts and commits no invoice keeps the key.                *)
LEMMA KeyKept ==
  ASSUME TypeOK, KeyInv, NumbersDistinct, invoices' = invoices,
         \A r \in Reqs : at'[r] = "invoiced" => at[r] = "invoiced" /\ number'[r] = number[r]
  PROVE  KeyInv' /\ NumbersDistinct'
  BY DEF KeyInv, NumbersDistinct, Taken

(* The commit of an inserted invoice appends it to the committed ones.      *)
LEMMA Appended ==
  ASSUME TypeOK, NEW r \in Reqs, Commit(r)
  PROVE  /\ Len(invoices) \in Nat
         /\ Len(invoices') = Len(invoices) + 1
         /\ DOMAIN invoices = 1..Len(invoices)
         /\ DOMAIN invoices' = DOMAIN invoices \cup {Len(invoices) + 1}
         /\ \A i \in DOMAIN invoices : invoices'[i] = invoices[i]
         /\ invoices'[Len(invoices) + 1].number = number[r]
         /\ invoices'[Len(invoices) + 1].sub = row[r]
<1>1. invoices \in Seq(Invoice) /\ [number |-> number[r], sub |-> row[r]] \in Invoice
  BY DEF TypeOK, Invoice
<1>2. invoices' = Append(invoices, [number |-> number[r], sub |-> row[r]])
  BY DEF Commit
<1>3. Len(invoices) \in Nat /\ DOMAIN invoices = 1..Len(invoices)
  BY <1>1
<1>4. Len(invoices') = Len(invoices) + 1 /\ DOMAIN invoices' = 1..(Len(invoices) + 1)
  BY <1>1, <1>2
<1>5. \A i \in DOMAIN invoices : invoices'[i] = invoices[i]
  BY <1>1, <1>2
<1>6. invoices'[Len(invoices) + 1] = [number |-> number[r], sub |-> row[r]]
  BY <1>1, <1>2
<1> QED
  BY <1>3, <1>4, <1>5, <1>6

LEMMA KeyCommit ==
  ASSUME TypeOK, KeyInv, NumbersDistinct, NEW r \in Reqs, Commit(r)
  PROVE  KeyInv' /\ NumbersDistinct'
<1> DEFINE n == Len(invoices)
<1>1. /\ DOMAIN invoices' = DOMAIN invoices \cup {n + 1}
      /\ \A i \in DOMAIN invoices : invoices'[i] = invoices[i]
      /\ invoices'[n + 1].number = number[r]
  BY Appended
<1> HIDE DEF n
<1>2. number[r] \notin Taken
  BY DEF Commit, KeyInv
<1>3. \A i \in DOMAIN invoices : invoices'[i].number # number[r]
  BY <1>1, <1>2 DEF Taken
<1>4. NumbersDistinct'
  BY <1>1, <1>3 DEF NumbersDistinct
<1>5. Taken' = Taken \cup {number[r]}
  BY <1>1 DEF Taken
<1>6. at' = [at EXCEPT ![r] = "done"] /\ number' = number /\ at[r] = "invoiced"
  BY DEF Commit
<1>7. \A o \in Reqs : at'[o] = "invoiced" => o # r /\ at[o] = "invoiced"
  BY <1>6 DEF TypeOK
<1>8. KeyInv'
  BY <1>5, <1>6, <1>7 DEF KeyInv
<1> QED
  BY <1>4, <1>8

LEMMA KeyInsert ==
  ASSUME TypeOK, KeyInv, NumbersDistinct, NEW r \in Reqs, InsertInvoice(r)
  PROVE  KeyInv' /\ NumbersDistinct'
<1>1. Taken' = Taken /\ number' = number /\ invoices' = invoices
  BY DEF InsertInvoice, Taken
<1>2. \A o \in Reqs : at'[o] = "invoiced" =>
         \/ o # r /\ at[o] = "invoiced"
         \/ o = r /\ number[r] \notin Taken
  BY DEF InsertInvoice, TypeOK
<1>3. \A o \in Reqs : at[o] = "invoiced" => number[o] # number[r]
  BY DEF InsertInvoice
<1>4. KeyInv'
  BY <1>1, <1>2, <1>3 DEF KeyInv
<1> QED
  BY <1>1, <1>4 DEF NumbersDistinct

LEMMA KeyNext ==
  TypeOK /\ KeyInv /\ NumbersDistinct /\ [Next]_vars => KeyInv' /\ NumbersDistinct'
<1> SUFFICES ASSUME TypeOK, KeyInv, NumbersDistinct, [Next]_vars
             PROVE  KeyInv' /\ NumbersDistinct'
  OBVIOUS
<1>1. ASSUME NEW r \in Reqs,
             InsertRow(r) \/ ChangePick(r) \/ Count(r) \/ CancelPick(r)
                 \/ CancelCommit(r) \/ Abort(r)
      PROVE  KeyInv' /\ NumbersDistinct'
  <2>1. invoices' = invoices
    BY <1>1 DEF InsertRow, ChangePick, Count, CancelPick, CancelCommit, Abort
  <2>2. \A o \in Reqs : at'[o] = "invoiced" => at[o] = "invoiced" /\ number'[o] = number[o]
    BY <1>1 DEF InsertRow, ChangePick, Count, CancelPick, CancelCommit, Abort, TypeOK
  <2> QED
    BY <2>1, <2>2, KeyKept
<1>2. CASE \/ CheckRead \/ CheckCommit \/ CheckAbort \/ TurnMonth
           \/ UNCHANGED vars \/ \E s \in Reqs : Expire(s)
  <2>1. UNCHANGED <<invoices, at, number>>
    BY <1>2 DEF CheckRead, CheckCommit, CheckAbort, TurnMonth, Expire, vars
  <2> QED
    BY <2>1, KeyKept
<1> QED
  BY <1>1, <1>2, KeyCommit, KeyInsert DEF Next, Handle

(* The number key: no two committed invoices share a number, however many   *)
(* requests count at the same time and however the months turn.             *)
THEOREM DistinctNumbers == Spec => []NumbersDistinct
  BY TypeInit, TypeNext, KeyInit, KeyNext, PTL DEF Spec

(* Within a month a computed number is at most one ahead of the committed   *)
(* ones; in the first month every number is of that month.                  *)
Ahead ==
    \A r \in Reqs : at[r] \in {"counted", "invoiced"} => number[r].seq <= Len(invoices) + 1
Early ==
    /\ \A r \in Reqs : number[r].month = 1
    /\ \A i \in DOMAIN invoices : invoices[i].number.month = 1
FirstMonth == Ahead /\ Early /\ Numbered
SeqInv == month = 1 => FirstMonth

LEMMA SeqInit == Init => SeqInv
  BY DEF Init, SeqInv, FirstMonth, Ahead, Early, Numbered

(* In the first month an inserted invoice has exactly the next number: it   *)
(* is at most the next one, and all smaller ones are taken.                 *)
LEMMA NextNumber ==
  ASSUME TypeOK, KeyInv, FirstMonth, NEW r \in Reqs, at[r] = "invoiced"
  PROVE  number[r].seq = Len(invoices) + 1
<1>1. /\ Len(invoices) \in Nat /\ DOMAIN invoices = 1..Len(invoices)
      /\ \A i \in DOMAIN invoices : invoices[i].number \in Numbers
  <2>1. invoices \in Seq(Invoice)
    BY DEF TypeOK, Invoice
  <2>2. Len(invoices) \in Nat /\ DOMAIN invoices = 1..Len(invoices)
    BY <2>1
  <2>3. \A i \in DOMAIN invoices : invoices[i] \in Invoice
    BY <2>1, <2>2
  <2> QED
    BY <2>2, <2>3 DEF Invoice
<1>2. number[r] \in Numbers /\ number[r].seq \in Nat \ {0}
  BY DEF TypeOK, Numbers
<1>3. ASSUME number[r].seq <= Len(invoices) PROVE FALSE
  <2>1. number[r].seq \in DOMAIN invoices
    BY <1>1, <1>2, <1>3
  <2>2. invoices[number[r].seq].number.seq = number[r].seq
    BY <2>1 DEF FirstMonth, Numbered
  <2>3. invoices[number[r].seq].number.month = number[r].month
    BY <2>1 DEF FirstMonth, Early
  <2>4. invoices[number[r].seq].number = number[r]
    BY <1>1, <1>2, <2>1, <2>2, <2>3 DEF Numbers
  <2>5. number[r] \in Taken
    BY <2>1, <2>4 DEF Taken
  <2> QED
    BY <2>5 DEF KeyInv
<1>4. number[r].seq <= Len(invoices) + 1
  BY DEF FirstMonth, Ahead
<1> QED
  BY <1>1, <1>2, <1>3, <1>4

LEMMA SeqNext == TypeOK /\ KeyInv /\ SeqInv /\ [Next]_vars => SeqInv'
<1> SUFFICES ASSUME TypeOK, KeyInv, SeqInv, [Next]_vars, month' = 1
             PROVE  FirstMonth'
  BY DEF SeqInv
<1>0. month = 1 /\ FirstMonth
  <2>1. \/ month' = month
        \/ month' = month + 1
    BY DEF Next, Handle, InsertRow, ChangePick, Count, InsertInvoice, Commit, CancelPick,
           CancelCommit, Abort, CheckRead, CheckCommit, CheckAbort, Expire, TurnMonth, vars
  <2>2. month \in Nat /\ month >= 1
    BY DEF TypeOK, Months
  <2> QED
    BY <2>1, <2>2 DEF SeqInv
<1>1. Len(invoices) \in Nat /\ \A r \in Reqs : number[r].seq \in Nat
  <2>1. Len(invoices) \in Nat
    BY DEF TypeOK
  <2>2. \A r \in Reqs : number[r] \in Numbers
    BY DEF TypeOK
  <2>3. \A r \in Reqs : number[r].seq \in Nat
    BY <2>2 DEF Numbers
  <2> QED
    BY <2>1, <2>3
<1>2. ASSUME invoices' = invoices, number' = number,
             \A r \in Reqs : at'[r] \in {"counted", "invoiced"} =>
                 at[r] \in {"counted", "invoiced"}
      PROVE  FirstMonth'
  BY <1>0, <1>2 DEF FirstMonth, Ahead, Early, Numbered
<1>3. ASSUME NEW r \in Reqs,
             InsertRow(r) \/ ChangePick(r) \/ InsertInvoice(r) \/ CancelPick(r)
                 \/ CancelCommit(r) \/ Abort(r)
      PROVE  FirstMonth'
  <2>1. invoices' = invoices /\ number' = number
    BY <1>3 DEF InsertRow, ChangePick, InsertInvoice, CancelPick, CancelCommit, Abort
  <2>2. \A o \in Reqs : at'[o] \in {"counted", "invoiced"} => at[o] \in {"counted", "invoiced"}
    BY <1>3 DEF InsertRow, ChangePick, InsertInvoice, CancelPick, CancelCommit, Abort, TypeOK
  <2> QED
    BY <1>2, <2>1, <2>2
<1>4. ASSUME NEW r \in Reqs, Count(r) PROVE FirstMonth'
  <2>1. invoices' = invoices
    BY <1>4 DEF Count
  <2>2. number'[r].seq = Len(invoices) + 1 /\ number'[r].month = 1
    BY <1>0, <1>4 DEF Count, TypeOK
  <2>3. \A o \in Reqs \ {r} : at'[o] = at[o] /\ number'[o] = number[o]
    BY <1>4 DEF Count, TypeOK
  <2>4. Ahead'
    BY <1>0, <1>1, <2>1, <2>2, <2>3 DEF FirstMonth, Ahead
  <2>5. Early' /\ Numbered'
    BY <1>0, <2>1, <2>2, <2>3 DEF FirstMonth, Early, Numbered
  <2> QED
    BY <2>4, <2>5 DEF FirstMonth
<1>5. ASSUME NEW r \in Reqs, Commit(r) PROVE FirstMonth'
  <2>1. number[r].seq = Len(invoices) + 1
    BY <1>0, <1>5, NextNumber DEF Commit
  <2>2. number' = number /\ at' = [at EXCEPT ![r] = "done"]
    BY <1>5 DEF Commit
  <2>3. /\ Len(invoices') = Len(invoices) + 1
        /\ DOMAIN invoices' = DOMAIN invoices \cup {Len(invoices) + 1}
        /\ \A i \in DOMAIN invoices : invoices'[i] = invoices[i]
        /\ invoices'[Len(invoices) + 1].number = number[r]
    BY <1>5, Appended
  <2>4. Numbered'
    BY <1>0, <2>1, <2>3 DEF FirstMonth, Numbered
  <2>5. Early'
    BY <1>0, <2>2, <2>3 DEF FirstMonth, Early
  <2>6. \A o \in Reqs : at'[o] \in {"counted", "invoiced"} => at[o] \in {"counted", "invoiced"}
    BY <2>2 DEF TypeOK
  <2>7. Ahead'
    BY <1>0, <1>1, <2>2, <2>3, <2>6 DEF FirstMonth, Ahead
  <2> QED
    BY <2>4, <2>5, <2>7 DEF FirstMonth
<1>6. CASE \/ CheckRead \/ CheckCommit \/ CheckAbort \/ TurnMonth
           \/ UNCHANGED vars \/ \E s \in Reqs : Expire(s)
  <2>1. UNCHANGED <<invoices, at, number>>
    BY <1>6 DEF CheckRead, CheckCommit, CheckAbort, TurnMonth, Expire, vars
  <2> QED
    BY <1>2, <2>1
<1> QED
  BY <1>3, <1>4, <1>5, <1>6 DEF Next, Handle

(* Until the month turns, invoices are numbered 1, 2, 3, ... without a gap, *)
(* for any number of concurrent requests.                                   *)
THEOREM SequentialInAMonth == Spec => []NumbersSequential
<1>1. Init => TypeOK /\ KeyInv /\ NumbersDistinct /\ SeqInv
  BY TypeInit, KeyInit, SeqInit
<1>2. TypeOK /\ KeyInv /\ NumbersDistinct /\ SeqInv /\ [Next]_vars
          => (TypeOK /\ KeyInv /\ NumbersDistinct /\ SeqInv)'
  BY TypeNext, KeyNext, SeqNext
<1>3. SeqInv => NumbersSequential
  BY DEF SeqInv, FirstMonth, NumbersSequential
<1> QED
  BY <1>1, <1>2, <1>3, PTL DEF Spec

-----------------------------------------------------------------------------
(* Subscriptions and their invoices *)

LEMMA InvoicedInit == Init => SubsInvoiced
  BY DEF Init, SubsInvoiced, Committed

LEMMA InvoicedNext == TypeOK /\ SubsInvoiced /\ [Next]_vars => SubsInvoiced'
<1> SUFFICES ASSUME TypeOK, SubsInvoiced, [Next]_vars PROVE SubsInvoiced'
  OBVIOUS
<1>1. ASSUME invoices' = invoices, Committed' = Committed PROVE SubsInvoiced'
  BY <1>1 DEF SubsInvoiced
<1>2. ASSUME NEW r \in Reqs, Commit(r) PROVE SubsInvoiced'
  <2>1. Committed' = Committed \cup {row[r]}
    BY <1>2 DEF Commit, Committed
  <2>2. /\ DOMAIN invoices' = DOMAIN invoices \cup {Len(invoices) + 1}
        /\ \A i \in DOMAIN invoices : invoices'[i] = invoices[i]
        /\ invoices'[Len(invoices) + 1].sub = row[r]
    BY <1>2, Appended
  <2> QED
    BY <2>1, <2>2 DEF SubsInvoiced
<1>3. ASSUME NEW r \in Reqs,
             InsertRow(r) \/ ChangePick(r) \/ Count(r) \/ InsertInvoice(r)
                 \/ CancelPick(r) \/ CancelCommit(r) \/ Abort(r)
      PROVE  SubsInvoiced'
  BY <1>1, <1>3 DEF InsertRow, ChangePick, Count, InsertInvoice, CancelPick,
                    CancelCommit, Abort, Committed
<1>4. CASE \/ CheckRead \/ CheckCommit \/ CheckAbort \/ TurnMonth
           \/ UNCHANGED vars \/ \E s \in Reqs : Expire(s)
  BY <1>1, <1>4 DEF CheckRead, CheckCommit, CheckAbort, TurnMonth, Expire, vars, Committed
<1> QED
  BY <1>2, <1>3, <1>4 DEF Next, Handle

(* No subscription is ever seen without an invoice.                         *)
THEOREM InvoiceWithSubscription == Spec => []SubsInvoiced
  BY TypeInit, TypeNext, InvoicedInit, InvoicedNext, PTL DEF Spec

(* The invoices are sound: sequential in a month, distinct, none missing.   *)
THEOREM InvoicesCorrect == Spec => []InvoicesSound
<1>1. NumbersSequential /\ NumbersDistinct /\ SubsInvoiced => InvoicesSound
  BY DEF InvoicesSound
<1> QED
  BY <1>1, SequentialInAMonth, DistinctNumbers, InvoiceWithSubscription, PTL

-----------------------------------------------------------------------------
(* Requests and checks that are handled one at a time *)

Working(r) == at[r] \in {"open", "counted", "invoiced"}

(* A request works on its own new row or on a committed one.                *)
RowInv ==
    \A r \in Reqs : /\ row[r] = r \/ row[r] \in Committed
                    /\ at[r] = "idle" => row[r] = r /\ r \notin Committed

(* What was read as active is active until the reader is done with it: no   *)
(* request and no check comes in between.                                   *)
AloneInv ==
    serial =>
        /\ \A r, o \in Reqs : Working(r) /\ Working(o) => r = o
        /\ \A r \in Reqs : Working(r) =>
              due = {} /\ (row[r] \in Committed => subs[row[r]].status = "active")
        /\ \A s \in due : subs[s].status = "active" /\ ~subs[s].current

StatusInv == TypeOK /\ RowInv /\ AloneInv /\ PastDueIsExpired

(* What an action may do to the next status of a row.                       *)
CancelledStay ==
    serial => \A s \in Committed :
        subs[s].status = "cancelled" => subs'[s].status = "cancelled"

LEMMA StatusInit == Init => StatusInv
<1> SUFFICES ASSUME Init PROVE StatusInv
  OBVIOUS
<1>1. Committed = {} /\ due = {} /\ \A r \in Reqs : ~Working(r) /\ row[r] = r
  BY DEF Init, Committed, Working
<1> QED
  BY <1>1, TypeInit DEF StatusInv, RowInv, AloneInv, PastDueIsExpired

(* A step of one request that leaves the subscriptions as they are.         *)
LEMMA RequestStep ==
  ASSUME StatusInv, NEW r \in Reqs, UNCHANGED <<subs, due, serial>>,
         at' \in [Reqs -> Ats], row' \in [Reqs -> Reqs], at'[r] # "idle",
         \A o \in Reqs \ {r} : at'[o] = at[o] /\ row'[o] = row[o],
         \/ row'[r] = row[r] /\ (Working(r) \/ at'[r] = "rejected")
         \/ /\ serial => ~Busy
            /\ \/ row'[r] \in Committed /\ subs[row'[r]].status = "active"
               \/ row'[r] = r /\ r \notin Committed
  PROVE  (RowInv /\ AloneInv /\ PastDueIsExpired)' /\ CancelledStay
<1>1. Committed' = Committed
  BY DEF Committed
<1>2. RowInv'
  BY <1>1 DEF StatusInv, RowInv
<1>3. AloneInv'
  <2> SUFFICES ASSUME serial PROVE AloneInv'
    BY DEF AloneInv
  <2>1. CASE row'[r] = row[r] /\ (Working(r) \/ at'[r] = "rejected")
    BY <1>1, <2>1 DEF StatusInv, AloneInv, Working
  <2>2. CASE /\ ~Busy
             /\ \/ row'[r] \in Committed /\ subs[row'[r]].status = "active"
                \/ row'[r] = r /\ r \notin Committed
    <3>1. due = {} /\ \A o \in Reqs : ~Working(o)
      BY <2>2 DEF Busy, Working
    <3> QED
      BY <1>1, <2>2, <3>1 DEF AloneInv, Working
  <2> QED
    BY <2>1, <2>2
<1>4. PastDueIsExpired' /\ CancelledStay
  BY <1>1 DEF StatusInv, PastDueIsExpired, CancelledStay
<1> QED
  BY <1>2, <1>3, <1>4

(* The requests begin, count, insert, and give up.                          *)
LEMMA OpenSteps ==
  ASSUME StatusInv, NEW r \in Reqs,
         \/ InsertRow(r) \/ ChangePick(r) \/ Count(r) \/ InsertInvoice(r)
         \/ CancelPick(r) \/ Abort(r)
  PROVE  (RowInv /\ AloneInv /\ PastDueIsExpired)' /\ CancelledStay
<1>1. TypeOK'
  BY TypeNext DEF StatusInv, Next, Handle
<1>2. at' \in [Reqs -> Ats] /\ row' \in [Reqs -> Reqs]
  BY <1>1 DEF TypeOK
<1>3. at \in [Reqs -> Ats] /\ row \in [Reqs -> Reqs]
  BY DEF StatusInv, TypeOK
<1>4. CASE InsertRow(r)
  BY <1>2, <1>3, <1>4, RequestStep DEF InsertRow, Begins, StatusInv, RowInv
<1>5. CASE ChangePick(r)
  <2>1. PICK s \in Latest(Live) : row' = [row EXCEPT ![r] = s]
    BY <1>5 DEF ChangePick
  <2>2. s \in Committed /\ subs[s].status = "active"
    BY DEF Latest, Live, StatusInv, TypeOK, Statuses
  <2> QED
    BY <1>2, <1>3, <1>5, <2>1, <2>2, RequestStep DEF ChangePick, Begins
<1>6. CASE Count(r) \/ InsertInvoice(r) \/ Abort(r)
  BY <1>2, <1>3, <1>6, RequestStep DEF Count, InsertInvoice, Abort, Working
<1>7. CASE CancelPick(r)
  <2>1. CASE Latest({"active"}) = {}
    <3>1. UNCHANGED <<subs, due, serial, row>> /\ at' = [at EXCEPT ![r] = "rejected"]
      BY <1>7, <2>1 DEF CancelPick
    <3> QED
      BY <1>2, <1>3, <3>1, RequestStep
  <2>2. ASSUME NEW s \in Latest({"active"}),
               row' = [row EXCEPT ![r] = s], at' = [at EXCEPT ![r] = "open"]
        PROVE  (RowInv /\ AloneInv /\ PastDueIsExpired)' /\ CancelledStay
    <3>1. s \in Committed /\ subs[s].status = "active"
      BY DEF Latest
    <3>2. UNCHANGED <<subs, due, serial>> /\ (serial => ~Busy)
      BY <1>7 DEF CancelPick, Begins
    <3> QED
      BY <1>2, <1>3, <2>2, <3>1, <3>2, RequestStep
  <2> QED
    BY <1>7, <2>1, <2>2 DEF CancelPick
<1> QED
  BY <1>4, <1>5, <1>6, <1>7

LEMMA CommitSteps ==
  ASSUME StatusInv, NEW r \in Reqs, Commit(r) \/ CancelCommit(r)
  PROVE  (RowInv /\ AloneInv /\ PastDueIsExpired)' /\ CancelledStay
<1>1. /\ UNCHANGED <<due, serial, row>> /\ Working(r)
      /\ at' = [at EXCEPT ![r] = "done"] /\ at \in [Reqs -> Ats]
  BY DEF Commit, CancelCommit, Working, StatusInv, TypeOK
<1>2. /\ Committed' = Committed \cup {row[r]} \/ Committed' = Committed
      /\ \A s \in Committed \ {row[r]} : subs'[s] = subs[s]
      /\ \A s \in Committed : subs[s].status = "cancelled" => subs'[s].status = "cancelled"
      /\ \A s \in Committed' : s \notin Committed => subs'[s] = NewSub
      /\ row[r] \in Committed => \/ subs'[row[r]].status = subs[row[r]].status
                                 \/ subs'[row[r]].status = "cancelled"
  <2>1. subs \in [Committed -> Row]
    BY DEF StatusInv, TypeOK, Row
  <2>2. CASE Commit(r)
    BY <2>1, <2>2 DEF Commit, Committed, Row
  <2>3. CASE CancelCommit(r)
    BY <2>1, <2>3 DEF CancelCommit, Committed, Row
  <2> QED
    BY <2>2, <2>3
<1>3. RowInv'
  BY <1>1, <1>2 DEF StatusInv, RowInv, Working
<1>4. serial => /\ due = {} /\ \A o \in Reqs : ~Working(o)'
                /\ row[r] \in Committed => subs[row[r]].status = "active"
  BY <1>1 DEF StatusInv, AloneInv, Working
<1>5. AloneInv'
  BY <1>1, <1>4 DEF AloneInv
<1>6. PastDueIsExpired'
  BY <1>1, <1>2, <1>4 DEF StatusInv, PastDueIsExpired, NewSub
<1>7. CancelledStay
  BY <1>2 DEF CancelledStay
<1> QED
  BY <1>3, <1>5, <1>6, <1>7

(* The check of renewals and the clock.                                     *)
LEMMA CheckSteps ==
  ASSUME StatusInv,
         \/ CheckRead \/ CheckCommit \/ CheckAbort \/ TurnMonth
         \/ \E s \in Reqs : Expire(s)
  PROVE  (RowInv /\ AloneInv /\ PastDueIsExpired)' /\ CancelledStay
<1>1. UNCHANGED <<at, row, serial>> /\ Committed' = Committed
  BY DEF CheckRead, CheckCommit, CheckAbort, TurnMonth, Expire, Committed
<1>2. RowInv'
  BY <1>1 DEF StatusInv, RowInv
<1>3. subs \in [Committed -> Row] /\ due \subseteq Committed
  BY DEF StatusInv, TypeOK, Row
<1>4. CASE CheckRead
  <2>1. due' = DueNow /\ subs' = subs /\ (serial => \A r \in Reqs : ~Working(r))
    BY <1>4 DEF CheckRead, Busy, Working
  <2>2. AloneInv'
    BY <1>1, <2>1 DEF AloneInv, Working, DueNow, Committed
  <2> QED
    BY <1>1, <1>2, <2>1, <2>2 DEF StatusInv, PastDueIsExpired, CancelledStay
<1>5. CASE CheckCommit
  <2>1. /\ due # {} /\ due' = {}
        /\ \A s \in Committed :
              subs'[s] = IF s \in due THEN [subs[s] EXCEPT !.status = "past_due"] ELSE subs[s]
    BY <1>5 DEF CheckCommit
  <2>2. \A s \in due : subs'[s].current = subs[s].current
    BY <1>3, <2>1 DEF Row
  <2>3. AloneInv'
    BY <1>1, <2>1 DEF StatusInv, AloneInv, Working
  <2> QED
    BY <1>1, <1>2, <1>3, <2>1, <2>2, <2>3
       DEF StatusInv, AloneInv, PastDueIsExpired, CancelledStay
<1>6. CASE CheckAbort \/ TurnMonth
  <2>1. subs' = subs /\ (due' = due \/ due' = {})
    BY <1>6 DEF CheckAbort, TurnMonth
  <2> QED
    BY <1>1, <1>2, <2>1
       DEF StatusInv, AloneInv, Working, PastDueIsExpired, CancelledStay
<1>7. ASSUME NEW s \in Reqs, Expire(s)
      PROVE  (AloneInv /\ PastDueIsExpired)' /\ CancelledStay
  <2>1. due' = due
    BY <1>7 DEF Expire
  <2>2. \A o \in Committed : /\ subs'[o].status = subs[o].status
                             /\ subs'[o].current => subs[o].current
    BY <1>3, <1>7 DEF Expire, Row
  <2>3. \A o \in Committed : ~subs[o].current => ~subs'[o].current
    BY <2>2
  <2> QED
    BY <1>1, <1>3, <2>1, <2>2, <2>3
       DEF StatusInv, AloneInv, Working, PastDueIsExpired, CancelledStay
<1> QED
  BY <1>2, <1>4, <1>5, <1>6, <1>7

LEMMA StatusNext == StatusInv /\ [Next]_vars => StatusInv' /\ CancelledStay
<1> SUFFICES ASSUME StatusInv, [Next]_vars PROVE StatusInv' /\ CancelledStay
  OBVIOUS
<1>1. TypeOK'
  BY TypeNext DEF StatusInv
<1>2. CASE UNCHANGED vars
  BY <1>1, <1>2 DEF vars, StatusInv, RowInv, AloneInv, Working, PastDueIsExpired,
                    CancelledStay, Committed
<1> QED
  BY <1>1, <1>2, OpenSteps, CommitSteps, CheckSteps DEF Next, Handle, StatusInv

(* One at a time, the check marks past due only what has expired and was    *)
(* not extended, and what is cancelled stays so, for any requests, months   *)
(* and failures.                                                            *)
THEOREM StatusesCorrect == Spec => StatusSound
<1>1. Init => StatusInv
  BY StatusInit
<1>2. StatusInv /\ [Next]_vars => StatusInv'
  BY StatusNext
<1>3. StatusInv /\ [Next]_vars =>
        [serial => \A s \in Committed :
            subs[s].status = "cancelled" => subs'[s].status = "cancelled"]_vars
  BY StatusNext DEF CancelledStay
<1>4. StatusInv => PastDueIsExpired
  BY DEF StatusInv
<1> QED
  BY <1>1, <1>2, <1>3, <1>4, PTL DEF Spec, StatusSound, CancelledStays
=============================================================================
