--------------------------- MODULE Subscriptions ---------------------------
(***************************************************************************)
(* The subscriptions of one company and the invoices that come with them:   *)
(* requests that create, change and cancel, each one transaction of several *)
(* statements under READ COMMITTED, and the hourly check of renewals.       *)
(*                                                                          *)
(* An invoice number is the month and the number of the company's invoices  *)
(* plus one, counted before the row is inserted; a unique key decides       *)
(* between two requests that counted the same.  A change holds the row lock *)
(* of its subscription from the count, which flushes its UPDATE.            *)
(***************************************************************************)
EXTENDS Naturals, Sequences, FiniteSets

CONSTANTS
    Reqs,        \* requests; one that inserts a subscription gives it its name
    Kind,        \* what each of them asks for
    LastMonth    \* bound: the clock turns the month LastMonth - 1 times

Kinds == {"create", "change", "cancel", "cancel_now"}

ASSUME ReqsFinite == IsFiniteSet(Reqs)
ASSUME KindType == Kind \in [Reqs -> Kinds]
ASSUME LastMonthType == LastMonth \in Nat \ {0}

VARIABLES
    subs,        \* the committed subscriptions
    invoices,    \* the committed invoices, in the order of their commits
    at,          \* where each request stands
    row,         \* the subscription it works on
    number,      \* the invoice number it has computed
    born,        \* created_at of the subscription it has inserted; 0: none
    due,         \* the rows the check of renewals has read and will write
    month,
    serial       \* requests and checks happen to be handled one at a time

vars == <<subs, invoices, at, row, number, born, due, month, serial>>

Ats == {"idle", "open", "counted", "invoiced", "done", "rejected"}
Statuses == {"active", "past_due", "cancelled"}
Live == {"active", "trialing"}
Months == 1..LastMonth

NewSub == [status |-> "active", current |-> TRUE, cancelAtEnd |-> FALSE]

Committed == DOMAIN subs
Taken == {invoices[i].number : i \in DOMAIN invoices}

(* ORDER BY created_at DESC LIMIT 1 of the rows with one of these statuses. *)
Latest(statuses) ==
    LET found == {s \in Committed : subs[s].status \in statuses}
    IN  {s \in found : \A o \in found : born[o] <= born[s]}

(* Nobody but r has written the row and not yet committed.                  *)
Unlocked(r, s) ==
    \A o \in Reqs \ {r} : row[o] = s => at[o] \notin {"counted", "invoiced"}

Busy == due # {} \/ \E r \in Reqs : at[r] \in {"open", "counted", "invoiced"}

Init ==
    /\ subs = [s \in {} |-> NewSub]
    /\ invoices = <<>>
    /\ at = [r \in Reqs |-> "idle"]
    /\ row = [r \in Reqs |-> r]
    /\ number = [r \in Reqs |-> [month |-> 1, seq |-> 1]]
    /\ born = [r \in Reqs |-> 0]
    /\ due = {}
    /\ month = 1
    /\ serial \in BOOLEAN

-----------------------------------------------------------------------------
(* Requests *)

Begins(r) == at[r] = "idle" /\ (serial => ~Busy)

(* create_subscription flushes its row; so does a change that finds none.   *)
InsertRow(r) ==
    /\ Begins(r)
    /\ \/ Kind[r] = "create"
       \/ Kind[r] = "change" /\ Latest(Live) = {}
    /\ born' = [born EXCEPT ![r] = Cardinality({o \in Reqs : born[o] > 0}) + 1]
    /\ at' = [at EXCEPT ![r] = "open"]
    /\ UNCHANGED <<subs, invoices, row, number, due, month, serial>>

(* change_plan reads the latest live row.                                   *)
ChangePick(r) ==
    /\ Begins(r)
    /\ Kind[r] = "change"
    /\ \E s \in Latest(Live) : row' = [row EXCEPT ![r] = s]
    /\ at' = [at EXCEPT ![r] = "open"]
    /\ UNCHANGED <<subs, invoices, number, born, due, month, serial>>

(* Mutant: the count is taken for the number, without the one more.         *)
CountFromZero(r) ==
    /\ at[r] = "open"
    /\ Kind[r] \in {"create", "change"}
    /\ Unlocked(r, row[r])
    /\ number' = [number EXCEPT ![r] = [month |-> month, seq |-> Len(invoices)]]
    /\ at' = [at EXCEPT ![r] = "counted"]
    /\ UNCHANGED <<subs, invoices, row, born, due, month, serial>>

(* _create_invoice counts; in a change the count flushes the UPDATE first,  *)
(* which waits for the row lock.                                            *)
Count(r) ==
    /\ at[r] = "open"
    /\ Kind[r] \in {"create", "change"}
    /\ Unlocked(r, row[r])
    /\ number' = [number EXCEPT ![r] = [month |-> month, seq |-> Len(invoices) + 1]]
    /\ at' = [at EXCEPT ![r] = "counted"]
    /\ UNCHANGED <<subs, invoices, row, born, due, month, serial>>

(* Mutant: no unique key on the number.                                     *)
InsertInvoiceAnyway(r) ==
    /\ at[r] = "counted"
    /\ at' = [at EXCEPT ![r] = "invoiced"]
    /\ UNCHANGED <<subs, invoices, row, number, born, due, month, serial>>

(* Mutant: the insert that loses waits for ever.                            *)
InsertInvoiceWaits(r) ==
    /\ at[r] = "counted"
    /\ \A o \in Reqs : at[o] = "invoiced" => number[o] # number[r]
    /\ number[r] \notin Taken
    /\ at' = [at EXCEPT ![r] = "invoiced"]
    /\ UNCHANGED <<subs, invoices, row, number, born, due, month, serial>>

(* The insert waits for an uncommitted row with the same number and fails   *)
(* on a committed one, which undoes the request.                            *)
InsertInvoice(r) ==
    /\ at[r] = "counted"
    /\ \A o \in Reqs : at[o] = "invoiced" => number[o] # number[r]
    /\ at' = [at EXCEPT ![r] = IF number[r] \in Taken THEN "rejected" ELSE "invoiced"]
    /\ UNCHANGED <<subs, invoices, row, number, born, due, month, serial>>

(* The commit shows the subscription and its invoice together.  A change    *)
(* writes the plan and a new period, no status and no flag.                 *)
Commit(r) ==
    /\ at[r] = "invoiced"
    /\ subs' = [s \in Committed \cup {row[r]} |->
                   IF s # row[r] THEN subs[s]
                   ELSE IF s \in Committed THEN [subs[s] EXCEPT !.current = TRUE]
                   ELSE NewSub]
    /\ invoices' = Append(invoices, [number |-> number[r], sub |-> row[r]])
    /\ at' = [at EXCEPT ![r] = "done"]
    /\ UNCHANGED <<row, number, born, due, month, serial>>

(* cancel_subscription reads the latest active row; without one it is 404.  *)
CancelPick(r) ==
    /\ Begins(r)
    /\ Kind[r] \in {"cancel", "cancel_now"}
    /\ \/ \E s \in Latest({"active"}) :
             /\ row' = [row EXCEPT ![r] = s]
             /\ at' = [at EXCEPT ![r] = "open"]
       \/ /\ Latest({"active"}) = {}
          /\ at' = [at EXCEPT ![r] = "rejected"]
          /\ UNCHANGED row
    /\ UNCHANGED <<subs, invoices, number, born, due, month, serial>>

(* Its UPDATE waits for the row lock and names the row, not its status.     *)
CancelCommit(r) ==
    /\ at[r] = "open"
    /\ Kind[r] \in {"cancel", "cancel_now"}
    /\ Unlocked(r, row[r])
    /\ subs' = [subs EXCEPT ![row[r]] =
                   IF Kind[r] = "cancel" THEN [@ EXCEPT !.cancelAtEnd = TRUE]
                   ELSE [@ EXCEPT !.status = "cancelled"]]
    /\ at' = [at EXCEPT ![r] = "done"]
    /\ UNCHANGED <<invoices, row, number, born, due, month, serial>>

(* An error or a lost process undoes an open request.                       *)
Abort(r) ==
    /\ at[r] \in {"open", "counted", "invoiced"}
    /\ at' = [at EXCEPT ![r] = "rejected"]
    /\ UNCHANGED <<subs, invoices, row, number, born, due, month, serial>>

-----------------------------------------------------------------------------
(* The check of renewals and the clock *)

(* Mutant: the check does not look at the status.                           *)
DueWhateverStatus == {s \in Committed : ~subs[s].current /\ ~subs[s].cancelAtEnd}

DueNow == {s \in Committed : /\ subs[s].status = "active"
                             /\ ~subs[s].current
                             /\ ~subs[s].cancelAtEnd}

CheckRead ==
    /\ due = {}
    /\ serial => ~Busy
    /\ DueNow # {}
    /\ due' = DueNow
    /\ UNCHANGED <<subs, invoices, at, row, number, born, month, serial>>

(* The UPDATEs are flushed by the commit and name the rows only.            *)
CheckCommit ==
    /\ due # {}
    /\ \A r \in Reqs, s \in due : row[r] = s => at[r] \notin {"counted", "invoiced"}
    /\ subs' = [s \in Committed |->
                   IF s \in due THEN [subs[s] EXCEPT !.status = "past_due"] ELSE subs[s]]
    /\ due' = {}
    /\ UNCHANGED <<invoices, at, row, number, born, month, serial>>

(* A failure of the check is logged and leaves the rows to the next hour.   *)
CheckAbort ==
    /\ due # {}
    /\ due' = {}
    /\ UNCHANGED <<subs, invoices, at, row, number, born, month, serial>>

(* The end of a paid period passes.                                         *)
Expire(s) ==
    /\ s \in Committed
    /\ subs[s].current
    /\ subs' = [subs EXCEPT ![s].current = FALSE]
    /\ UNCHANGED <<invoices, at, row, number, born, due, month, serial>>

TurnMonth ==
    /\ month < LastMonth
    /\ month' = month + 1
    /\ UNCHANGED <<subs, invoices, at, row, number, born, due, serial>>

Handle(r) ==
    \/ InsertRow(r) \/ ChangePick(r) \/ Count(r) \/ InsertInvoice(r) \/ Commit(r)
    \/ CancelPick(r) \/ CancelCommit(r)

Next ==
    \/ \E r \in Reqs : Handle(r) \/ Abort(r)
    \/ CheckRead \/ CheckCommit \/ CheckAbort
    \/ \E s \in Reqs : Expire(s)
    \/ TurnMonth

Spec == Init /\ [][Next]_vars

(* A request that has begun goes on; the beat runs the check every hour,    *)
(* and it does not fail every time.                                         *)
FairSpec ==
    /\ Spec
    /\ \A r \in Reqs : WF_vars(at[r] # "idle" /\ Handle(r))
    /\ WF_vars(CheckRead) /\ SF_vars(CheckCommit)

-----------------------------------------------------------------------------
(* Properties *)

Numbers == [month : Months, seq : Nat \ {0}]

TypeOK ==
    /\ Committed \subseteq Reqs
    /\ subs \in [Committed -> [status : Statuses, current : BOOLEAN, cancelAtEnd : BOOLEAN]]
    /\ invoices \in Seq([number : Numbers, sub : Reqs])
    /\ at \in [Reqs -> Ats]
    /\ row \in [Reqs -> Reqs]
    /\ number \in [Reqs -> Numbers]
    /\ born \in [Reqs -> Nat]
    /\ due \subseteq Committed
    /\ month \in Months
    /\ serial \in BOOLEAN

(* "Sequential numbering": until the month turns, the committed invoices    *)
(* are numbered 1, 2, 3, ... without a gap and without a repetition.         *)
Numbered == \A i \in DOMAIN invoices : invoices[i].number.seq = i
NumbersSequential == month = 1 => Numbered

(* No two committed invoices have the same number.                          *)
NumbersDistinct ==
    \A i, j \in DOMAIN invoices : invoices[i].number = invoices[j].number => i = j

(* No subscription is ever seen without an invoice, though they are two     *)
(* inserts and the second may fail.                                         *)
SubsInvoiced == \A s \in Committed : \E i \in DOMAIN invoices : invoices[i].sub = s

(* The invoices: numbered in sequence within a month, never with the same   *)
(* number twice, and none missing.                                          *)
InvoicesSound == NumbersSequential /\ NumbersDistinct /\ SubsInvoiced

(* "Check expired subscriptions": what the check marks past due has expired *)
(* and was not extended, when no change comes between its read and its      *)
(* commit.                                                                  *)
PastDueIsExpired ==
    serial => \A s \in Committed : subs[s].status = "past_due" => ~subs[s].current

(* One at a time, nothing brings a cancelled subscription back.             *)
CancelledStays ==
    [][serial => \A s \in Committed :
          subs[s].status = "cancelled" => subs'[s].status = "cancelled"]_vars

(* What the hourly check and the requests do to each other's statuses, when *)
(* they happen to come one at a time.                                       *)
StatusSound == []PastDueIsExpired /\ CancelledStays

(* Active after the end of the period at which they cancel.                 *)
Flagged == {s \in Committed : /\ subs[s].status = "active"
                              /\ ~subs[s].current
                              /\ subs[s].cancelAtEnd}

(* "Cancels at end of period": it does not stay active after it.            *)
CancelTakesEffect ==
    \A s \in Reqs : (s \in Flagged) ~> (s \notin Flagged)

(* An expired subscription nobody cancelled does not stay active: the check *)
(* gets to it, or a change extends it, or it is cancelled.                  *)
ExpiredIsHandled == \A s \in Reqs : (s \in DueNow) ~> (s \notin DueNow)

(* Every request that has begun is answered: the waits for row locks and    *)
(* numbers end.                                                             *)
RequestsAnswered ==
    \A r \in Reqs : (at[r] # "idle") ~> (at[r] \in {"done", "rejected"})

(* Nobody waits for ever: neither a request nor an expired subscription.    *)
Progress == RequestsAnswered /\ ExpiredIsHandled
=============================================================================
