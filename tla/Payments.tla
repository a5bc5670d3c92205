------------------------------ MODULE Payments ------------------------------
(***************************************************************************)
(* Paying an invoice: create_charge, which calls Tap between two statements *)
(* of its transaction, and the webhook that records what became of the      *)
(* charge.  create_charge gives Tap no address to post to and nothing asks  *)
(* Tap for a status, so a webhook may never come; one that comes is         *)
(* repeated until it is answered, and webhooks of one charge may overtake   *)
(* each other.  The webhook's session has no tenant, so it finds payments   *)
(* only where the database role is free of row level security (TenantContext *)
(* has the policies): the model has both deployments.                       *)
(***************************************************************************)
EXTENDS Naturals

CONSTANTS
    Invoices,
    Charges,     \* requests of create_charge, each with the charge it makes
    Handlers,    \* webhook handlers that run at the same time
    NoCharge,    \* the handler is idle
    MaxFaults,   \* bound: webhooks that fail, or whose answer is lost
    Ordered      \* charges Tap posts every step of, one webhook at a time

ASSUME NoChargeIsNone == NoCharge \notin Charges
ASSUME MaxFaultsType == MaxFaults \in Nat

VARIABLES
    invoice,     \* status of each invoice
    payment,     \* status of the payment row of each charge
    at,          \* where each create_charge stands
    of,          \* the invoice each charge is for
    tap,         \* status of each charge at Tap
    posts,       \* the webhooks Tap has to deliver: <<charge, status>>
    hook,        \* the webhook each handler works on
    free,        \* whether the database role is free of the policies
    faults,
    captured,    \* history: charges that have been captured
    voided,      \* history: charges that have been voided
    told         \* history: charges whose capture was answered ok

vars == <<invoice, payment, at, of, tap, posts, hook, free, faults, captured, voided, told>>

Ats == {"idle", "read", "called", "answered", "failed"}
RowStatuses == {"pending", "authorized", "captured", "failed", "refunded"}
TapStatuses == {"INITIATED", "AUTHORIZED", "CAPTURED", "FAILED", "DECLINED", "CANCELLED", "VOID"}

IdleHook == [charge |-> NoCharge, status |-> "INITIATED", seen |-> "pending",
             done |-> FALSE]

(* The status map without its default.                                      *)
Known(s) ==
    CASE s = "CAPTURED" -> "captured"
      [] s = "AUTHORIZED" -> "authorized"
      [] s \in {"FAILED", "DECLINED"} -> "failed"
      [] s = "VOID" -> "refunded"
      [] OTHER -> s

(* Mutant: unknown statuses are stored as they come.                        *)
StatusMapRaw(s) == Known(s)

(* The webhook's status_map; what it does not know is pending.              *)
StatusMap(s) == IF Known(s) \in RowStatuses THEN Known(s) ELSE "pending"

Init ==
    /\ invoice = [i \in Invoices |-> "pending"]
    /\ payment = [c \in Charges |-> "none"]
    /\ at = [c \in Charges |-> "idle"]
    /\ of \in [Charges -> Invoices]
    /\ tap = [c \in Charges |-> "none"]
    /\ posts = {}
    /\ hook = [h \in Handlers |-> IdleHook]
    /\ free \in BOOLEAN
    /\ faults = 0
    /\ captured = {}
    /\ voided = {}
    /\ told = {}

-----------------------------------------------------------------------------
(* create_charge *)

(* It reads the invoice, whatever its status.                               *)
ChargeRead(c) ==
    /\ at[c] = "idle"
    /\ at' = [at EXCEPT ![c] = "read"]
    /\ UNCHANGED <<invoice, payment, of, tap, posts, hook, free, faults, captured, voided, told>>

(* Tap makes the charge.                                                    *)
ChargeCall(c) ==
    /\ at[c] = "read"
    /\ tap' = [tap EXCEPT ![c] = "INITIATED"]
    /\ at' = [at EXCEPT ![c] = "called"]
    /\ UNCHANGED <<invoice, payment, of, posts, hook, free, faults, captured, voided, told>>

(* The call fails, before or after Tap made the charge, or the process is   *)
(* lost: nothing is recorded and nobody gets the payment URL.               *)
ChargeFail(c) ==
    /\ at[c] \in {"read", "called"}
    /\ at' = [at EXCEPT ![c] = "failed"]
    /\ UNCHANGED <<invoice, payment, of, tap, posts, hook, free, faults, captured, voided, told>>

(* record_payment and the commit; then the URL goes to the customer.        *)
ChargeAnswer(c) ==
    /\ at[c] = "called"
    /\ payment' = [payment EXCEPT ![c] = "pending"]
    /\ at' = [at EXCEPT ![c] = "answered"]
    /\ UNCHANGED <<invoice, of, tap, posts, hook, free, faults, captured, voided, told>>

-----------------------------------------------------------------------------
(* Tap and the customer *)

TapNext(s) ==
    CASE s = "INITIATED" -> {"AUTHORIZED", "CAPTURED", "FAILED", "DECLINED", "CANCELLED"}
      [] s = "AUTHORIZED" -> {"CAPTURED", "VOID"}
      [] s = "CAPTURED" -> {"VOID"}
      [] OTHER -> {}

(* The customer has the URL and pays, fails to, or the charge goes on; Tap  *)
(* posts that, or does not.                                                 *)
TapStep(c) ==
    /\ at[c] = "answered"
    /\ c \in Ordered => \A s \in TapStatuses : <<c, s>> \notin posts
    /\ \E s \in TapNext(tap[c]) :
          /\ tap' = [tap EXCEPT ![c] = s]
          /\ \/ posts' = posts \cup {<<c, s>>}
             \/ c \notin Ordered /\ UNCHANGED posts
          /\ captured' = captured \cup {x \in {c} : s = "CAPTURED"}
          /\ voided' = voided \cup {x \in {c} : s = "VOID"}
    /\ UNCHANGED <<invoice, payment, at, of, hook, free, faults, told>>

-----------------------------------------------------------------------------
(* The webhook *)

Work(c, s) == [charge |-> c, status |-> s, seen |-> payment[c], done |-> FALSE]

(* The answer ok ends Tap's repetitions of the webhook.                     *)
Answer(p) ==
    /\ posts' = posts \ {p}
    /\ told' = told \cup {c \in {p[1]} : p[2] = "CAPTURED"}

(* A handler selects the payment of the charge; without a row it can see it *)
(* has nothing to do and answers ok.  The post stays until it is answered,  *)
(* so that another handler may get it too.                                  *)
HookFind(h) ==
    /\ hook[h].charge = NoCharge
    /\ \E p \in posts :
          /\ p[1] \in Ordered => \A o \in Handlers : hook[o].charge # p[1]
          /\ IF free /\ payment[p[1]] # "none"
             THEN hook' = [hook EXCEPT ![h] = Work(p[1], p[2])] /\ UNCHANGED <<posts, told>>
             ELSE Answer(p) /\ UNCHANGED hook
    /\ UNCHANGED <<invoice, payment, at, of, tap, free, faults, captured, voided>>

(* Mutant: a payment that is not pending any more is left alone.            *)
StoredOnce(h) == LET w == hook[h] IN
    IF w.seen # "pending" THEN payment
    ELSE [payment EXCEPT ![w.charge] = StatusMap(w.status)]

(* The ORM writes a column only if its value differs from the one read.     *)
Stored(h) == LET w == hook[h] IN
    IF StatusMap(w.status) = w.seen THEN payment
    ELSE [payment EXCEPT ![w.charge] = StatusMap(w.status)]

(* Mutant: the invoice is paid when an open payment changes.                *)
PaidByAny(h) == [invoice EXCEPT ![of[hook[h].charge]] = "paid"]

(* Mutant: only a payment that was still pending pays its invoice.          *)
PaidFromPending(h) ==
    IF StatusMap(hook[h].status) = "captured" /\ hook[h].seen = "pending"
    THEN [invoice EXCEPT ![of[hook[h].charge]] = "paid"] ELSE invoice

(* A capture pays the payment's invoice.                                    *)
Paid(h) ==
    IF StatusMap(hook[h].status) = "captured"
    THEN [invoice EXCEPT ![of[hook[h].charge]] = "paid"] ELSE invoice

(* The commit writes the payment and the invoice.                           *)
HookCommit(h) ==
    /\ hook[h].charge # NoCharge /\ ~hook[h].done
    /\ payment' = Stored(h)
    /\ invoice' = Paid(h)
    /\ hook' = [hook EXCEPT ![h].done = TRUE]
    /\ UNCHANGED <<at, of, tap, posts, free, faults, captured, voided, told>>

(* The webhook is answered after its commit.                                *)
HookAnswer(h) ==
    /\ hook[h].done
    /\ Answer(<<hook[h].charge, hook[h].status>>)
    /\ hook' = [hook EXCEPT ![h] = IdleHook]
    /\ UNCHANGED <<invoice, payment, at, of, tap, free, faults, captured, voided>>

(* The handler fails before its commit, or its answer is lost after it: Tap *)
(* delivers again.                                                          *)
HookFail(h) ==
    /\ hook[h].charge # NoCharge
    /\ faults < MaxFaults
    /\ faults' = faults + 1
    /\ hook' = [hook EXCEPT ![h] = IdleHook]
    /\ UNCHANGED <<invoice, payment, at, of, tap, posts, free, captured, voided, told>>

Next ==
    \/ \E c \in Charges : \/ ChargeRead(c) \/ ChargeCall(c) \/ ChargeFail(c)
                          \/ ChargeAnswer(c) \/ TapStep(c)
    \/ \E h \in Handlers : HookFind(h) \/ HookCommit(h) \/ HookAnswer(h) \/ HookFail(h)

Spec == Init /\ [][Next]_vars

-----------------------------------------------------------------------------
(* Properties *)

TypeOK ==
    /\ invoice \in [Invoices -> {"pending", "paid"}]
    /\ payment \in [Charges -> RowStatuses \cup {"none"}]
    /\ at \in [Charges -> Ats]
    /\ of \in [Charges -> Invoices]
    /\ tap \in [Charges -> TapStatuses \cup {"none"}]
    /\ posts \subseteq Charges \X TapStatuses
    /\ hook \in [Handlers -> [charge : Charges \cup {NoCharge}, status : TapStatuses,
                              seen : RowStatuses, done : BOOLEAN]]
    /\ free \in BOOLEAN
    /\ faults \in 0..MaxFaults
    /\ captured \subseteq Charges
    /\ voided \subseteq Charges
    /\ told \subseteq Charges

(* An invoice is paid only if Tap captured a charge for it, in whatever     *)
(* order, however often and by however many handlers webhooks are handled.  *)
PaidWasCaptured ==
    \A i \in Invoices : invoice[i] = "paid" => \E c \in captured : of[c] = i

(* A payment says captured or refunded only if Tap captured or voided it.   *)
PaymentsEarned ==
    \A c \in Charges : /\ payment[c] = "captured" => c \in captured
                       /\ payment[c] = "refunded" => c \in voided

(* A charge the customer can pay has its row, so no webhook about money     *)
(* finds nothing: the call to Tap is outside the transaction's reach, the   *)
(* URL is not.                                                              *)
PaidChargesRecorded == \A c \in captured : payment[c] # "none"

(* What the two tables say is what Tap did.                                 *)
PaymentsSound == PaidWasCaptured /\ PaymentsEarned /\ PaidChargesRecorded

(* Nothing about the charge is waiting or being handled.                    *)
Quiet(c) ==
    /\ \A s \in TapStatuses : <<c, s>> \notin posts
    /\ \A h \in Handlers : hook[h].charge # c

(* "CAPTURED: Payment successful": where the webhook sees the payments and  *)
(* Tap posts every step of a charge, one at a time, its payment has, once   *)
(* they are handled, the status Tap gave the charge last.                   *)
PaymentAgrees ==
    free => \A c \in Charges \cap Ordered :
                at[c] = "answered" /\ Quiet(c) => payment[c] = StatusMap(tap[c])

(* What ends Tap's repetitions of a capture is an answer given after the    *)
(* invoice was paid, however often handlers fail, answers are lost and      *)
(* webhooks overtake each other: where the webhook sees the payments, no    *)
(* capture it was told of is lost.                                          *)
AnsweredIsPaid == free => \A c \in told : invoice[of[c]] = "paid"
=============================================================================
