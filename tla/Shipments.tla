----------------------------- MODULE Shipments -----------------------------
(***************************************************************************)
(* One shipment with its tracking events, changed by staff and by refreshes *)
(* that poll the carrier, and the notices of its status.  get_carrier makes *)
(* a carrier without credentials, which answers every poll with the same    *)
(* two events, the oldest first.  Addresses, providers and amounts are left *)
(* out.                                                                     *)
(***************************************************************************)
EXTENDS Naturals, FiniteSets, Sequences

CONSTANTS
    Handlers,
    Statuses,     \* those staff use here, beside "created" and "picked_up"
    MaxRequests,  \* bound: requests
    MaxLost       \* bound: workers lost

VARIABLES
    booked,       \* numbers the carrier has issued
    ship,         \* the row of the shipment
    events,       \* table shipment_tracking_events, oldest first
    busy,         \* the handlers between their SELECT and their commit
    asks,
    notices,      \* send_tracking_notification tasks that were dispatched
    told,         \* messages the tasks stored, all of them pending for ever
    losses,
    overlapped,   \* history: two refreshes have overlapped
    undone        \* history: updates rolled back after their notice had left

vars == <<booked, ship, events, busy, asks, notices, told, losses, overlapped, undone>>

AllStatuses == Statuses \cup {"created", "picked_up"}
Event == [status : AllStatuses, by : {"staff", "carrier"}]

NoShip == [status |-> "none", delivered |-> FALSE, contact |-> FALSE, notified |-> "none"]
Ship == [status : AllStatuses, delivered : BOOLEAN, contact : BOOLEAN,
         notified : AllStatuses \cup {"none"}]
Free == [op |-> "none"]

(* _mock_tracking.                                                          *)
Tracking == <<[status |-> "created", by |-> "carrier"], [status |-> "picked_up", by |-> "carrier"]>>

Init ==
    /\ booked = 0
    /\ ship = NoShip
    /\ events = <<>>
    /\ busy = [h \in Handlers |-> Free]
    /\ asks = 0
    /\ notices = <<>> /\ told = <<>>
    /\ losses = 0
    /\ overlapped = FALSE
    /\ undone = 0

(* A request, through any of the endpoints.                                *)
Ask == asks < MaxRequests /\ asks' = asks + 1

(* create_shipment: the carrier books it before there is a row.             *)
Book(h) ==
    /\ Ask
    /\ busy[h] = Free
    /\ ship = NoShip
    /\ booked' = booked + 1
    /\ busy' = [busy EXCEPT ![h] = [op |-> "create"]]
    /\ UNCHANGED <<ship, events, notices, told, losses, overlapped, undone>>

(* Its first event has the words of the carrier's first one.                *)
CreateCommit(h, contact) ==
    /\ busy[h].op = "create"
    /\ ship = NoShip
    /\ ship' = [status |-> "created", delivered |-> FALSE, contact |-> contact, notified |-> "none"]
    /\ events' = <<Tracking[1]>>
    /\ busy' = [busy EXCEPT ![h] = Free]
    /\ UNCHANGED <<booked, asks, notices, told, losses, overlapped, undone>>

(* update_shipment with a new status: the notice is dispatched at once, and *)
(* what the row says of the last one is written with the rest.              *)
UpdateCheck(h, s) ==
    LET tell == ship.contact /\ s # ship.notified IN
        /\ Ask
        /\ busy[h] = Free
        /\ ship # NoShip /\ s # ship.status
        /\ notices' = IF tell THEN Append(notices, s) ELSE notices
        /\ busy' = [busy EXCEPT ![h] = [op |-> "update", status |-> s, tell |-> tell]]
        /\ UNCHANGED <<booked, ship, events, told, losses, overlapped, undone>>

UpdateCommit(h) ==
    LET b == busy[h] IN
        /\ b.op = "update"
        /\ ship' = [ship EXCEPT !.status = b.status,
                                !.delivered = @ \/ b.status = "delivered",
                                !.notified = IF b.tell THEN b.status ELSE @]
        /\ events' = Append(events, [status |-> b.status, by |-> "staff"])
        /\ busy' = [busy EXCEPT ![h] = Free]
        /\ UNCHANGED <<booked, asks, notices, told, losses, overlapped, undone>>

(* refresh_tracking selects each event of the carrier; one found twice      *)
(* fails it (scalar_one_or_none).                                           *)
Times(e) == Cardinality({k \in DOMAIN events : events[k] = e})
Refreshing(h) == busy[h].op = "refresh"

RefreshCheck(h) ==
    /\ Ask
    /\ busy[h] = Free
    /\ ship # NoShip
    /\ \A k \in DOMAIN Tracking : Times(Tracking[k]) <= 1
    /\ busy' = [busy EXCEPT ![h] =
                   [op |-> "refresh", changed |-> ship.status # Tracking[1].status,
                    missing |-> {k \in DOMAIN Tracking : Times(Tracking[k]) = 0}]]
    /\ overlapped' = (overlapped \/ \E g \in Handlers : Refreshing(g))
    /\ UNCHANGED <<booked, ship, events, notices, told, losses, undone>>

(* Mutant: adds what the carrier lists.                                     *)
AddedAll(h) == Tracking

(* The events it has not found are added.                                   *)
OneOf(ks, k) == IF k \in ks THEN <<Tracking[k]>> ELSE <<>>
Added(h) == OneOf(busy[h].missing, 1) \o OneOf(busy[h].missing, 2)

(* Whatever the carrier lists first is the status, without a delivery date  *)
(* or a notice.                                                             *)
RefreshCommit(h) ==
    /\ Refreshing(h)
    /\ events' = events \o Added(h)
    /\ ship' = IF busy[h].changed THEN [ship EXCEPT !.status = Tracking[1].status] ELSE ship
    /\ busy' = [busy EXCEPT ![h] = Free]
    /\ UNCHANGED <<booked, asks, notices, told, losses, overlapped, undone>>

(* A carrier that cannot be reached, or any other exception.                *)
Abort(h) ==
    /\ busy[h] # Free
    /\ busy' = [busy EXCEPT ![h] = Free]
    /\ undone' = undone + Cardinality({g \in {h} : busy[g].op = "update" /\ busy[g].tell})
    /\ UNCHANGED <<booked, ship, events, asks, notices, told, losses, overlapped>>

(* send_tracking_notification stores a pending message about the status it  *)
(* was given, unless no contact has the recipient's phone or its retries    *)
(* are used up; a worker lost before it acknowledges runs it again.         *)
Notify(again, found) ==
    /\ notices # <<>>
    /\ told' = IF found THEN Append(told, Head(notices)) ELSE told
    /\ notices' = IF again THEN notices ELSE Tail(notices)
    /\ again => losses < MaxLost
    /\ losses' = IF again THEN losses + 1 ELSE losses
    /\ UNCHANGED <<booked, ship, events, busy, asks, overlapped, undone>>

Next ==
    \/ \E h \in Handlers :
        \/ Book(h) \/ RefreshCheck(h)
        \/ \E c \in BOOLEAN : CreateCommit(h, c)
        \/ \E s \in AllStatuses : UpdateCheck(h, s)
        \/ UpdateCommit(h) \/ RefreshCommit(h) \/ Abort(h)
    \/ \E again, found \in BOOLEAN : Notify(again, found)

Spec == Init /\ [][Next]_vars

-----------------------------------------------------------------------------
(* Properties *)

TypeOK == ship \in Ship \cup {NoShip} /\ events \in Seq(Event)

(* The status of a shipment is in its tracking history, whoever wrote it    *)
(* and in whatever order; and unless two refreshes overlapped no event of   *)
(* the carrier is there twice, which would fail every refresh from then on. *)
HistoryComplete ==
    ship # NoShip =>
        /\ \E k \in DOMAIN events : events[k].status = ship.status
        /\ ~overlapped => \A k \in DOMAIN Tracking : Times(Tracking[k]) <= 1

(* A customer is told of a status as often as staff set it, plus the        *)
(* workers lost and the updates undone after their notice had left: what a  *)
(* refresh writes is never told, and no retry tells again.                  *)
ToldWasAsked ==
    Len(told) + Len(notices) <=
        losses + undone + Cardinality({h \in Handlers : busy[h].op = "update" /\ busy[h].tell})
            + Cardinality({k \in DOMAIN events : events[k].by = "staff"})

ShipmentsSound == HistoryComplete /\ ToldWasAsked
=============================================================================
