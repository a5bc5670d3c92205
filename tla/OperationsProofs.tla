-------------------------- MODULE OperationsProofs --------------------------
(***************************************************************************)
(* Of shipments: for any number of workers, statuses, requests and lost     *)
(* workers.                                                                 *)
(***************************************************************************)
EXTENDS Operations, FiniteSetTheorems, WellFoundedInduction, TLAPS

-----------------------------------------------------------------------------
(* Shipments.  What a status in the row, an event in the table and a notice *)
(* owe each other, whoever is between SELECT and commit.                    *)

Doing == [op : {"none"}] \cup [op : {"create"}]
             \cup [op : {"update"}, status : S!AllStatuses, tell : BOOLEAN]
             \cup [op : {"refresh"}, changed : BOOLEAN, missing : SUBSET {1, 2}]

Telling == {h \in Workers : busy[h].op = "update" /\ busy[h].tell}
ByStaff(s) == {k \in DOMAIN s : s[k].by = "staff"}
Same(s, e) == {k \in DOMAIN s : s[k] = e}

ShipTypes ==
    /\ S!TypeOK
    /\ busy \in [Workers -> Doing]
    /\ losses \in Nat /\ undone \in Nat
    /\ notices \in Seq(S!AllStatuses) /\ told \in Seq(S!AllStatuses)
    /\ overlapped \in BOOLEAN

(* The first event is the carrier's; only a shipment that is there is       *)
(* updated or refreshed.                                                    *)
FirstIsCreated ==
    /\ ship = S!NoShip => /\ events = <<>>
                        /\ \A h \in Workers : busy[h].op \in {"none", "create"}
    /\ ship # S!NoShip => events # <<>> /\ events[1] = S!Tracking[1]

StatusListed == ship # S!NoShip => \E k \in DOMAIN events : events[k].status = ship.status

(* A refresh that runs alone finds missing what is missing.                 *)
RefreshAlone ==
    ~overlapped =>
        /\ \A g, h \in Workers : S!Refreshing(g) /\ S!Refreshing(h) => g = h
        /\ \A h \in Workers : S!Refreshing(h) =>
              \A k \in busy[h].missing : S!Times(S!Tracking[k]) = 0
        /\ \A k \in {1, 2} : S!Times(S!Tracking[k]) <= 1

ShipInv == ShipTypes /\ FirstIsCreated /\ StatusListed /\ RefreshAlone /\ S!ToldWasAsked

LEMMA ShipCounts == \A X : S!Cardinality(X) = Cardinality(X)
  BY DEF S!Cardinality, Cardinality

(* The two events of the carrier.                                           *)
LEMMA CarrierEvents ==
  /\ DOMAIN S!Tracking = {1, 2}
  /\ S!Tracking[1] = [status |-> "created", by |-> "carrier"]
  /\ S!Tracking[2] = [status |-> "picked_up", by |-> "carrier"]
  /\ S!Tracking[1] \in S!Event /\ S!Tracking[2] \in S!Event /\ S!Tracking[1] # S!Tracking[2]
  /\ S!Tracking[1].by = "carrier" /\ S!Tracking[2].by = "carrier"
  /\ S!Tracking[1].status = "created"
<1>1. /\ DOMAIN S!Tracking = {1, 2}
      /\ S!Tracking[1] = [status |-> "created", by |-> "carrier"]
      /\ S!Tracking[2] = [status |-> "picked_up", by |-> "carrier"]
  BY DEF S!Tracking
<1>2. S!Tracking[1] \in S!Event /\ S!Tracking[2] \in S!Event
  BY <1>1 DEF S!Event, S!AllStatuses
<1>3. S!Tracking[1].status = "created" /\ S!Tracking[2].status = "picked_up"
  BY <1>1
<1> QED
  BY <1>1, <1>2, <1>3

LEMMA WithOneMore ==
  ASSUME NEW X, IsFiniteSet(X), NEW x, x \notin X
  PROVE  /\ IsFiniteSet(X \cup {x}) /\ Cardinality(X) \in Nat
         /\ Cardinality(X \cup {x}) = Cardinality(X) + 1
  BY FS_AddElement, FS_CardinalityType

(* Appending an event adds it to those of its kind.                         *)
LEMMA OneMore ==
  ASSUME NEW s \in Seq(S!Event), NEW e \in S!Event, NEW x
  PROVE  /\ Append(s, e) \in Seq(S!Event) /\ Len(Append(s, e)) = Len(s) + 1
         /\ DOMAIN Append(s, e) = DOMAIN s \cup {Len(s) + 1}
         /\ Append(s, e)[Len(s) + 1] = e
         /\ \A k \in DOMAIN s : Append(s, e)[k] = s[k]
         /\ IsFiniteSet(ByStaff(s)) /\ IsFiniteSet(Same(s, x))
         /\ Cardinality(ByStaff(s)) \in Nat /\ Cardinality(Same(s, x)) \in Nat
         /\ Cardinality(ByStaff(Append(s, e))) =
               Cardinality(ByStaff(s)) + (IF e.by = "staff" THEN 1 ELSE 0)
         /\ Cardinality(Same(Append(s, e), x)) = Cardinality(Same(s, x)) + (IF e = x THEN 1 ELSE 0)
<1> DEFINE t == Append(s, e)
           n == Len(s)
<1>1. /\ t \in Seq(S!Event) /\ Len(t) = n + 1 /\ n \in Nat /\ DOMAIN s = 1..n
      /\ DOMAIN t = DOMAIN s \cup {n + 1} /\ t[n + 1] = e /\ n + 1 \notin DOMAIN s
      /\ \A k \in DOMAIN s : t[k] = s[k]
  OBVIOUS
<1>2. IsFiniteSet(DOMAIN s)
  BY <1>1, FS_Interval
<1>3. /\ IsFiniteSet(ByStaff(s)) /\ IsFiniteSet(Same(s, x))
      /\ Cardinality(ByStaff(s)) \in Nat /\ Cardinality(Same(s, x)) \in Nat
  BY <1>2, FS_Subset, FS_CardinalityType DEF ByStaff, Same
<1> HIDE DEF t, n
<1>4. ByStaff(t) = IF e.by = "staff" THEN ByStaff(s) \cup {n + 1} ELSE ByStaff(s)
  BY <1>1 DEF ByStaff
<1>5. Same(t, x) = IF e = x THEN Same(s, x) \cup {n + 1} ELSE Same(s, x)
  BY <1>1 DEF Same
<1>6. n + 1 \notin ByStaff(s) /\ n + 1 \notin Same(s, x)
  BY <1>1 DEF ByStaff, Same
<1>7. Cardinality(ByStaff(t)) = Cardinality(ByStaff(s)) + (IF e.by = "staff" THEN 1 ELSE 0)
  <2>1. CASE e.by = "staff"
    <3>1. Cardinality(ByStaff(s) \cup {n + 1}) = Cardinality(ByStaff(s)) + 1
      BY <1>3, <1>6, WithOneMore
    <3> QED
      BY <1>4, <2>1, <3>1
  <2>2. CASE e.by # "staff"
    BY <1>3, <1>4, <2>2
  <2> QED
    BY <2>1, <2>2
<1>8. Cardinality(Same(t, x)) = Cardinality(Same(s, x)) + (IF e = x THEN 1 ELSE 0)
  <2>1. CASE e = x
    <3>1. Cardinality(Same(s, x) \cup {n + 1}) = Cardinality(Same(s, x)) + 1
      BY <1>3, <1>6, WithOneMore
    <3> QED
      BY <1>5, <2>1, <3>1
  <2>2. CASE e # x
    BY <1>3, <1>5, <2>2
  <2> QED
    BY <2>1, <2>2
<1> QED
  BY <1>1, <1>3, <1>7, <1>8 DEF t, n

LEMMA ShipInit == S!Init => ShipInv
<1> SUFFICES ASSUME S!Init PROVE ShipInv
  OBVIOUS
<1>1. ship = S!NoShip /\ events = <<>> /\ DOMAIN events = {} /\ \A h \in Workers : busy[h] = S!Free
  BY DEF S!Init
<1>2. S!Free \in Doing /\ S!Free.op = "none"
  BY DEF S!Free, Doing
<1>3. ShipTypes
  <2>1. S!TypeOK
    BY <1>1 DEF S!TypeOK
  <2>2. busy \in [Workers -> Doing]
    BY <1>2 DEF S!Init
  <2>3. losses \in Nat /\ undone \in Nat /\ overlapped \in BOOLEAN
    BY DEF S!Init
  <2>4. notices = <<>> /\ told = <<>>
    BY DEF S!Init
  <2> QED
    BY <2>1, <2>2, <2>3, <2>4 DEF ShipTypes
<1>4. FirstIsCreated /\ StatusListed
  BY <1>1, <1>2 DEF FirstIsCreated, StatusListed
<1>5. RefreshAlone
  <2>1. \A e : S!Times(e) = 0
    BY <1>1, FS_EmptySet, ShipCounts DEF S!Times
  <2> QED
    BY <1>1, <1>2, <2>1 DEF RefreshAlone, S!Refreshing
<1>6. S!ToldWasAsked
  <2>1. Telling = {} /\ ByStaff(events) = {}
    BY <1>1, <1>2 DEF Telling, ByStaff
  <2>2. Cardinality(Telling) = 0 /\ Cardinality(ByStaff(events)) = 0
    BY <2>1, FS_EmptySet
  <2>3. Len(told) = 0 /\ Len(notices) = 0 /\ losses = 0 /\ undone = 0
    BY DEF S!Init
  <2> QED
    BY <2>2, <2>3, ShipCounts DEF S!ToldWasAsked, Telling, ByStaff
<1> QED
  BY <1>3, <1>4, <1>5, <1>6 DEF ShipInv

-----------------------------------------------------------------------------

(* A handler that is at work on a shipment has one.                         *)
LEMMA BusyHere ==
  ASSUME ShipInv, NEW h \in Workers
  PROVE  /\ busy[h] \in Doing
         /\ busy[h].op \in {"update", "refresh"} => ship # S!NoShip
         /\ busy[h].op = "update" => busy[h].status \in S!AllStatuses /\ busy[h].tell \in BOOLEAN
         /\ busy[h].op = "refresh" => busy[h].changed \in BOOLEAN /\ busy[h].missing \subseteq {1, 2}
<1>1. busy[h] \in Doing
  BY DEF ShipInv, ShipTypes
<1> QED
  BY <1>1 DEF ShipInv, FirstIsCreated, Doing

(* Of a shipment that is there.                                             *)
LEMMA ShipHere ==
  ASSUME ShipTypes, ship # S!NoShip
  PROVE  ship \in S!Ship /\ ship.status \in S!AllStatuses
  BY DEF ShipTypes, S!TypeOK, S!Ship

LEMMA TellingFinite ==
  IsFiniteSet(Telling) /\ Cardinality(Telling) \in Nat
  BY FewWorkers, FS_Subset, FS_CardinalityType DEF Telling

(* A handler that leaves its work leaves the others as they are.            *)
LEMMA Leaves ==
  ASSUME ShipTypes, NEW h \in Workers, busy' = [busy EXCEPT ![h] = S!Free]
  PROVE  /\ busy' \in [Workers -> Doing]
         /\ \A g \in Workers : IF g = h THEN busy'[g].op = "none" ELSE busy'[g] = busy[g]
         /\ Telling' = Telling \ {h}
         /\ Cardinality(Telling') = IF busy[h].op = "update" /\ busy[h].tell
                                    THEN Cardinality(Telling) - 1 ELSE Cardinality(Telling)
<1>1. S!Free \in Doing /\ S!Free.op = "none"
  BY DEF S!Free, Doing
<1>2. /\ busy' \in [Workers -> Doing]
      /\ \A g \in Workers : IF g = h THEN busy'[g].op = "none" ELSE busy'[g] = busy[g]
  BY <1>1 DEF ShipTypes
<1>3. Telling' = Telling \ {h}
  BY <1>2 DEF Telling
<1>4. Cardinality(Telling \ {h}) = IF h \in Telling THEN Cardinality(Telling) - 1
                                   ELSE Cardinality(Telling)
  BY TellingFinite, FS_RemoveElement
<1>5. h \in Telling <=> busy[h].op = "update" /\ busy[h].tell
  BY DEF Telling
<1> QED
  BY <1>2, <1>3, <1>4, <1>5

(* What a handler that takes up work changes.                               *)
LEMMA Takes ==
  ASSUME ShipTypes, NEW h \in Workers, busy[h] = S!Free, NEW b \in Doing,
         busy' = [busy EXCEPT ![h] = b]
  PROVE  /\ busy' \in [Workers -> Doing] /\ busy'[h] = b
         /\ \A g \in Workers \ {h} : busy'[g] = busy[g]
         /\ Cardinality(Telling') = IF b.op = "update" /\ b.tell
                                    THEN Cardinality(Telling) + 1 ELSE Cardinality(Telling)
<1>1. S!Free.op = "none"
  BY DEF S!Free
<1>2. /\ busy' \in [Workers -> Doing] /\ busy'[h] = b
      /\ \A g \in Workers \ {h} : busy'[g] = busy[g]
  BY DEF ShipTypes
<1>3. h \notin Telling
  BY <1>1 DEF Telling
<1>4. Telling' = IF b.op = "update" /\ b.tell THEN Telling \cup {h} ELSE Telling
  BY <1>1, <1>2 DEF Telling
<1>5. Cardinality(Telling \cup {h}) = Cardinality(Telling) + 1
  BY <1>3, TellingFinite, WithOneMore
<1> QED
  BY <1>2, <1>4, <1>5

LEMMA Tolds ==
  S!ToldWasAsked <=> Len(told) + Len(notices) <= losses + undone + Cardinality(Telling)
                                                  + Cardinality(ByStaff(events))
  BY ShipCounts DEF S!ToldWasAsked, Telling, ByStaff

LEMMA Counts ==
  ASSUME ShipTypes
  PROVE  /\ Len(told) \in Nat /\ Len(notices) \in Nat /\ losses \in Nat /\ undone \in Nat
         /\ Cardinality(Telling) \in Nat
         /\ IsFiniteSet(ByStaff(events)) /\ Cardinality(ByStaff(events)) \in Nat
<1>1. events \in Seq(S!Event)
  BY DEF ShipTypes, S!TypeOK
<1>2. IsFiniteSet(DOMAIN events)
  BY <1>1, FS_Interval
<1>3. IsFiniteSet(ByStaff(events)) /\ Cardinality(ByStaff(events)) \in Nat
  BY <1>2, FS_Subset, FS_CardinalityType DEF ByStaff
<1> QED
  BY <1>3, TellingFinite DEF ShipTypes

LEMMA BookInv == ASSUME ShipInv, NEW h \in Workers, S!Book(h) PROVE ShipInv'
<1> DEFINE b == [op |-> "create"]
<1>1. b \in Doing /\ b.op = "create"
  BY DEF Doing
<1>2. /\ busy' = [busy EXCEPT ![h] = b] /\ busy[h] = S!Free
      /\ UNCHANGED <<ship, events, notices, told, losses, overlapped, undone>>
  BY DEF S!Book
<1> HIDE DEF b
<1>3. /\ busy' \in [Workers -> Doing] /\ busy'[h] = b
      /\ \A g \in Workers \ {h} : busy'[g] = busy[g]
      /\ Cardinality(Telling') = Cardinality(Telling)
  BY <1>1, <1>2, Takes DEF ShipInv
<1>4. ShipTypes'
  BY <1>2, <1>3 DEF ShipInv, ShipTypes, S!TypeOK
<1>5. FirstIsCreated' /\ StatusListed'
  BY <1>1, <1>2, <1>3 DEF ShipInv, FirstIsCreated, StatusListed
<1>6. RefreshAlone'
  BY <1>1, <1>2, <1>3, ShipCounts DEF ShipInv, RefreshAlone, S!Refreshing, S!Times
<1>7. S!ToldWasAsked'
  BY <1>2, <1>3, Tolds, ShipCounts DEF ShipInv, S!ToldWasAsked, ByStaff, Telling
<1> QED
  BY <1>4, <1>5, <1>6, <1>7 DEF ShipInv

LEMMA CreateInv ==
  ASSUME ShipInv, NEW h \in Workers, NEW c \in BOOLEAN, S!CreateCommit(h, c) PROVE ShipInv'
<1>1. /\ ship = S!NoShip /\ events' = <<S!Tracking[1]>> /\ busy' = [busy EXCEPT ![h] = S!Free]
      /\ UNCHANGED <<notices, told, losses, overlapped, undone>> /\ busy[h].op = "create"
      /\ ship' = [status |-> "created", delivered |-> FALSE, contact |-> c, notified |-> "none"]
  BY DEF S!CreateCommit
<1>2. /\ events = <<>> /\ \A g \in Workers : busy[g].op \in {"none", "create"}
  BY <1>1 DEF ShipInv, FirstIsCreated
<1>3. /\ busy' \in [Workers -> Doing]
      /\ \A g \in Workers : IF g = h THEN busy'[g].op = "none" ELSE busy'[g] = busy[g]
      /\ Cardinality(Telling') = Cardinality(Telling)
  BY <1>1, Leaves DEF ShipInv
<1>4. /\ ship' \in S!Ship /\ ship' # S!NoShip /\ ship'.status = "created"
  <2>1. S!NoShip.status = "none"
    BY DEF S!NoShip
  <2> QED
    BY <1>1, <2>1 DEF S!Ship, S!AllStatuses
<1>5. /\ events' \in Seq(S!Event) /\ DOMAIN events' = {1} /\ events'[1] = S!Tracking[1]
      /\ events' # <<>>
  BY <1>1, CarrierEvents
<1>6. ShipTypes'
  BY <1>1, <1>3, <1>4, <1>5 DEF ShipInv, ShipTypes, S!TypeOK
<1>7. FirstIsCreated' /\ StatusListed'
  BY <1>4, <1>5, CarrierEvents DEF FirstIsCreated, StatusListed
<1>8. RefreshAlone'
  <2>1. \A g \in Workers : busy'[g].op # "refresh"
    BY <1>2, <1>3
  <2>2. \A e : S!Times(e)' <= 1
    <3> SUFFICES ASSUME NEW e PROVE S!Times(e)' <= 1
      OBVIOUS
    <3>1. {k \in DOMAIN events' : events'[k] = e} \subseteq {1} /\ IsFiniteSet({1})
          /\ Cardinality({1}) = 1
      BY <1>5, FS_Singleton
    <3>2. Cardinality({k \in DOMAIN events' : events'[k] = e}) <= Cardinality({1})
      BY <3>1, FS_Subset
    <3> QED
      BY <3>1, <3>2, ShipCounts DEF S!Times
  <2> QED
    BY <2>1, <2>2 DEF RefreshAlone, S!Refreshing
<1>9. S!ToldWasAsked'
  <2>1. ByStaff(events) = {} /\ ByStaff(events') = {}
    BY <1>2, <1>5, CarrierEvents DEF ByStaff
  <2>2. Cardinality(ByStaff(events')) = Cardinality(ByStaff(events))
    BY <2>1
  <2> QED
    BY <1>1, <1>3, <2>2, Tolds, ShipCounts DEF ShipInv, S!ToldWasAsked, ByStaff, Telling
<1> QED
  BY <1>6, <1>7, <1>8, <1>9 DEF ShipInv

LEMMA UpdateCheckInv ==
  ASSUME ShipInv, NEW h \in Workers, NEW s \in S!AllStatuses, S!UpdateCheck(h, s) PROVE ShipInv'
<1> DEFINE tell == ship.contact /\ s # ship.notified
           b == [op |-> "update", status |-> s, tell |-> tell]
<1>1. /\ busy[h] = S!Free /\ ship # S!NoShip /\ busy' = [busy EXCEPT ![h] = b]
      /\ notices' = IF tell THEN Append(notices, s) ELSE notices
      /\ UNCHANGED <<ship, events, told, losses, overlapped, undone>>
  BY DEF S!UpdateCheck
<1>2. tell \in BOOLEAN
  OBVIOUS
<1> HIDE DEF tell
<1>3. b \in Doing /\ b.op = "update" /\ b.tell = tell
  BY <1>2 DEF Doing
<1> HIDE DEF b
<1>4. /\ busy' \in [Workers -> Doing] /\ busy'[h] = b
      /\ \A g \in Workers \ {h} : busy'[g] = busy[g]
      /\ Cardinality(Telling') = IF tell THEN Cardinality(Telling) + 1 ELSE Cardinality(Telling)
  BY <1>1, <1>3, Takes DEF ShipInv
<1>5. /\ notices' \in Seq(S!AllStatuses)
      /\ Len(notices') = IF tell THEN Len(notices) + 1 ELSE Len(notices)
  BY <1>1 DEF ShipInv, ShipTypes
<1>6. ShipTypes'
  BY <1>1, <1>4, <1>5 DEF ShipInv, ShipTypes, S!TypeOK
<1>7. FirstIsCreated' /\ StatusListed'
  BY <1>1 DEF ShipInv, FirstIsCreated, StatusListed
<1>8. RefreshAlone'
  <2>1. \A g \in Workers : busy'[g].op = "refresh" => g # h /\ busy'[g] = busy[g]
    BY <1>3, <1>4
  <2>2. \A x : S!Times(x)' = S!Times(x)
    BY <1>1, ShipCounts DEF S!Times
  <2> QED
    BY <1>1, <2>1, <2>2 DEF ShipInv, RefreshAlone, S!Refreshing
<1>9. S!ToldWasAsked'
  <2>1. Len(told) + Len(notices) <= losses + undone + Cardinality(Telling)
                                     + Cardinality(ByStaff(events))
    BY Tolds DEF ShipInv
  <2>2. Len(told) + Len(notices') <= losses + undone + Cardinality(Telling')
                                      + Cardinality(ByStaff(events))
    <3>1. /\ Len(told) \in Nat /\ Len(notices) \in Nat /\ losses \in Nat /\ undone \in Nat
          /\ Cardinality(Telling) \in Nat /\ Cardinality(ByStaff(events)) \in Nat
      BY Counts DEF ShipInv
    <3>2. \/ Len(notices') = Len(notices) + 1 /\ Cardinality(Telling') = Cardinality(Telling) + 1
          \/ Len(notices') = Len(notices) /\ Cardinality(Telling') = Cardinality(Telling)
      BY <1>2, <1>4, <1>5
    <3> QED
      BY <2>1, <3>1, <3>2
  <2> QED
    BY <1>1, <2>2, ShipCounts DEF S!ToldWasAsked, ByStaff, Telling
<1> QED
  BY <1>6, <1>7, <1>8, <1>9 DEF ShipInv

LEMMA UpdateCommitInv ==
  ASSUME ShipInv, NEW h \in Workers, S!UpdateCommit(h) PROVE ShipInv'
<1> DEFINE b == busy[h]
           e == [status |-> b.status, by |-> "staff"]
<1>1. /\ b.op = "update" /\ busy' = [busy EXCEPT ![h] = S!Free] /\ events' = Append(events, e)
      /\ UNCHANGED <<notices, told, losses, overlapped, undone>>
      /\ ship' = [ship EXCEPT !.status = b.status,
                              !.delivered = @ \/ b.status = "delivered",
                              !.notified = IF b.tell THEN b.status ELSE @]
  BY DEF S!UpdateCommit
<1>2. ship # S!NoShip /\ ship \in S!Ship /\ b.status \in S!AllStatuses /\ b.tell \in BOOLEAN
  BY <1>1, BusyHere, ShipHere DEF ShipInv
<1>3. ship' \in S!Ship /\ ship'.status = b.status /\ ship' # S!NoShip
  <2>1. ship' \in S!Ship /\ ship'.status = b.status
    <3> DEFINE x == b.status
               d == ship.delivered \/ x = "delivered"
               n == IF b.tell THEN x ELSE ship.notified
    <3>1. x \in S!AllStatuses /\ d \in BOOLEAN /\ n \in S!AllStatuses \cup {"none"}
      BY <1>2 DEF S!Ship
    <3>2. ship' = [ship EXCEPT !.status = x, !.delivered = d, !.notified = n]
      BY <1>1
    <3> HIDE DEF x, d, n
    <3>3. ship' \in S!Ship /\ ship'.status = x
      BY <1>2, <3>1, <3>2 DEF S!Ship
    <3> QED
      BY <3>3 DEF x
  <2>2. ship' # S!NoShip
    <3>1. "none" \notin S!AllStatuses
      BY StatusesReal DEF S!AllStatuses
    <3> QED
      BY <1>2, <2>1, <3>1 DEF S!NoShip
  <2> QED
    BY <2>1, <2>2
<1>4. e \in S!Event /\ e.by = "staff" /\ e.status = b.status
  BY <1>2 DEF S!Event
<1> HIDE DEF e, b
<1>5. /\ busy' \in [Workers -> Doing]
      /\ \A g \in Workers : IF g = h THEN busy'[g].op = "none" ELSE busy'[g] = busy[g]
      /\ Cardinality(Telling') = IF b.op = "update" /\ b.tell
                                 THEN Cardinality(Telling) - 1 ELSE Cardinality(Telling)
  BY <1>1, Leaves DEF ShipInv, b
<1>6. /\ events \in Seq(S!Event) /\ events' \in Seq(S!Event)
      /\ DOMAIN events' = DOMAIN events \cup {Len(events) + 1} /\ events'[Len(events) + 1] = e
      /\ \A k \in DOMAIN events : events'[k] = events[k]
      /\ Cardinality(ByStaff(events')) = Cardinality(ByStaff(events)) + 1
      /\ \A x : /\ Cardinality(Same(events, x)) \in Nat
                /\ Cardinality(Same(events', x)) =
                       Cardinality(Same(events, x)) + (IF e = x THEN 1 ELSE 0)
  <2>1. events \in Seq(S!Event)
    BY DEF ShipInv, ShipTypes, S!TypeOK
  <2> QED
    BY <1>1, <1>4, <2>1, OneMore
<1>7. ShipTypes'
  BY <1>1, <1>3, <1>5, <1>6 DEF ShipInv, ShipTypes, S!TypeOK
<1>8. FirstIsCreated' /\ StatusListed'
  <2>1. events # <<>> /\ events[1] = S!Tracking[1]
    BY <1>2 DEF ShipInv, FirstIsCreated
  <2>2. 1 \in DOMAIN events
    BY <1>6, <2>1
  <2>3. events' # <<>> /\ events'[1] = S!Tracking[1]
    BY <1>6, <2>1, <2>2
  <2>4. \E k \in DOMAIN events' : events'[k].status = ship'.status
    BY <1>3, <1>4, <1>6
  <2> QED
    BY <1>3, <2>3, <2>4 DEF FirstIsCreated, StatusListed
<1>9. RefreshAlone'
  <2>1. \A k \in {1, 2} : e # S!Tracking[k]
    BY <1>4, CarrierEvents
  <2>2. \A k \in {1, 2} : S!Times(S!Tracking[k])' = S!Times(S!Tracking[k])
    BY <1>6, <2>1, ShipCounts DEF S!Times, Same
  <2>3. \A g \in Workers : busy[g].op = "refresh" => busy[g].missing \subseteq {1, 2}
    BY BusyHere
  <2>4. \A g \in Workers : busy'[g].op = "refresh" => busy'[g] = busy[g]
    BY <1>5
  <2> QED
    BY <1>1, <2>2, <2>3, <2>4 DEF ShipInv, RefreshAlone, S!Refreshing
<1>10. S!ToldWasAsked'
  <2>1. Len(told) + Len(notices) <= losses + undone + Cardinality(Telling)
                                     + Cardinality(ByStaff(events))
    BY Tolds DEF ShipInv
  <2>2. Len(told) + Len(notices) <= losses + undone + Cardinality(Telling')
                                     + Cardinality(ByStaff(events'))
    <3>1. /\ Len(told) \in Nat /\ Len(notices) \in Nat /\ losses \in Nat /\ undone \in Nat
          /\ Cardinality(Telling) \in Nat /\ Cardinality(ByStaff(events)) \in Nat
      BY Counts DEF ShipInv
    <3>2. /\ Cardinality(ByStaff(events')) = Cardinality(ByStaff(events)) + 1
          /\ \/ Cardinality(Telling') = Cardinality(Telling) - 1
             \/ Cardinality(Telling') = Cardinality(Telling)
      BY <1>5, <1>6
    <3> QED
      BY <2>1, <3>1, <3>2
  <2> QED
    BY <1>1, <2>2, ShipCounts DEF S!ToldWasAsked, ByStaff, Telling
<1> QED
  BY <1>7, <1>8, <1>9, <1>10 DEF ShipInv

LEMMA RefreshCheckInv ==
  ASSUME ShipInv, NEW h \in Workers, S!RefreshCheck(h) PROVE ShipInv'
<1> DEFINE ks == {k \in DOMAIN S!Tracking : S!Times(S!Tracking[k]) = 0}
           d == ship.status # S!Tracking[1].status
           b == [op |-> "refresh", changed |-> d, missing |-> ks]
<1>1. /\ busy[h] = S!Free /\ ship # S!NoShip /\ busy' = [busy EXCEPT ![h] = b]
      /\ \A k \in DOMAIN S!Tracking : S!Times(S!Tracking[k]) <= 1
      /\ overlapped' = (overlapped \/ \E g \in Workers : S!Refreshing(g))
      /\ UNCHANGED <<ship, events, notices, told, losses, undone>>
  BY DEF S!RefreshCheck
<1>2. ks \in SUBSET {1, 2} /\ d \in BOOLEAN /\ \A k \in ks : S!Times(S!Tracking[k]) = 0
  BY CarrierEvents
<1> HIDE DEF ks, d
<1>3. b \in Doing /\ b.op = "refresh" /\ b.missing = ks
  BY <1>2 DEF Doing
<1> HIDE DEF b
<1>4. /\ busy' \in [Workers -> Doing] /\ busy'[h] = b
      /\ \A g \in Workers \ {h} : busy'[g] = busy[g]
      /\ Cardinality(Telling') = Cardinality(Telling)
  BY <1>1, <1>3, Takes DEF ShipInv
<1>5. ShipTypes'
  BY <1>1, <1>4 DEF ShipInv, ShipTypes, S!TypeOK
<1>6. FirstIsCreated' /\ StatusListed'
  BY <1>1 DEF ShipInv, FirstIsCreated, StatusListed
<1>7. RefreshAlone'
  <2>1. \A x : S!Times(x)' = S!Times(x)
    BY <1>1, ShipCounts DEF S!Times
  <2>2. ~overlapped' => \A g \in Workers : busy'[g].op = "refresh" => g = h
    BY <1>1, <1>4 DEF S!Refreshing
  <2>3. \A k \in {1, 2} : S!Times(S!Tracking[k]) <= 1
    BY <1>1, CarrierEvents
  <2>4. ~overlapped' => \A g \in Workers : busy'[g].op = "refresh" => busy'[g].missing = ks
    BY <1>3, <1>4, <2>2
  <2> QED
    BY <1>2, <2>1, <2>2, <2>3, <2>4 DEF RefreshAlone, S!Refreshing
<1>8. S!ToldWasAsked'
  BY <1>1, <1>4, Tolds, ShipCounts DEF ShipInv, S!ToldWasAsked, ByStaff, Telling
<1> QED
  BY <1>5, <1>6, <1>7, <1>8 DEF ShipInv

(* What one of the carrier's events adds when it was missing.               *)
Grown(s, t, ks, k) ==
    /\ t \in Seq(S!Event) /\ Len(t) >= Len(s)
    /\ \A j \in DOMAIN s : j \in DOMAIN t /\ t[j] = s[j]
    /\ Cardinality(ByStaff(t)) = Cardinality(ByStaff(s))
    /\ \A x : Cardinality(Same(t, x)) = Cardinality(Same(s, x))
                  + (IF k \in ks /\ S!Tracking[k] = x THEN 1 ELSE 0)

LEMMA AddsOne ==
  ASSUME NEW s \in Seq(S!Event), NEW ks \in SUBSET {1, 2}, NEW k \in {1, 2}
  PROVE  Grown(s, s \o S!OneOf(ks, k), ks, k)
<1> DEFINE e == S!Tracking[k]
<1>1. e \in S!Event /\ e.by # "staff"
  BY CarrierEvents
<1>2. CASE k \in ks
  <2>1. s \o S!OneOf(ks, k) = Append(s, e)
    BY <1>1, <1>2 DEF S!OneOf
  <2> DEFINE t == Append(s, e)
  <2> HIDE DEF e
  <2>2. Len(s) \in Nat
    OBVIOUS
  <2>3. Grown(s, t, ks, k)
    BY <1>1, <1>2, <2>2, OneMore DEF e, Grown
  <2> QED
    BY <2>1, <2>3
<1>3. CASE k \notin ks
  <2>1. s \o S!OneOf(ks, k) = s
    BY <1>3 DEF S!OneOf
  <2>2. \A x : Cardinality(Same(s, x)) \in Nat
    BY <1>1, OneMore
  <2>3. Grown(s, s, ks, k)
    BY <1>3, <2>2 DEF Grown
  <2> QED
    BY <2>1, <2>3
<1> QED
  BY <1>2, <1>3

LEMMA Regrouped ==
  ASSUME NEW X, NEW s \in Seq(X), NEW t \in Seq(X), NEW u \in Seq(X)
  PROVE  (s \o t) \o u = s \o (t \o u)
  OBVIOUS

LEMMA RefreshCommitInv ==
  ASSUME ShipInv, NEW h \in Workers, S!RefreshCommit(h) PROVE ShipInv'
<1> DEFINE ks == busy[h].missing
           mid == events \o S!OneOf(ks, 1)
<1>1. /\ S!Refreshing(h) /\ busy[h].op = "refresh" /\ busy' = [busy EXCEPT ![h] = S!Free]
      /\ events' = events \o (S!OneOf(ks, 1) \o S!OneOf(ks, 2))
      /\ ship' = IF busy[h].changed THEN [ship EXCEPT !.status = S!Tracking[1].status] ELSE ship
      /\ UNCHANGED <<notices, told, losses, overlapped, undone>>
  BY DEF S!RefreshCommit, S!Refreshing, S!Added
<1>2. ship # S!NoShip /\ ship \in S!Ship /\ ks \in SUBSET {1, 2} /\ events \in Seq(S!Event)
  BY <1>1, BusyHere, ShipHere DEF ShipInv, ShipTypes, S!TypeOK
<1>3. /\ ship' \in S!Ship /\ ship' # S!NoShip
      /\ ship'.status \in {ship.status, S!Tracking[1].status}
  <2>1. /\ S!Tracking[1].status = "created"
        /\ "created" \in S!AllStatuses
        /\ "none" \notin S!AllStatuses
    BY CarrierEvents, StatusesReal DEF S!AllStatuses
  <2>2. ship' \in S!Ship /\ ship'.status \in {ship.status, "created"}
    BY <1>1, <1>2, <2>1 DEF S!Ship
  <2>3. ship'.status \in S!AllStatuses
    BY <2>2 DEF S!Ship
  <2>4. ship' # S!NoShip
    BY <2>1, <2>3 DEF S!NoShip
  <2> QED
    BY <2>1, <2>2, <2>4
<1>4. events' = mid \o S!OneOf(ks, 2)
  <2>1. S!OneOf(ks, 1) \in Seq(S!Event) /\ S!OneOf(ks, 2) \in Seq(S!Event)
    BY CarrierEvents DEF S!OneOf
  <2> DEFINE a == S!OneOf(ks, 1)
             c == S!OneOf(ks, 2)
  <2>2. events' = events \o (a \o c) /\ a \in Seq(S!Event) /\ c \in Seq(S!Event)
    BY <1>1, <2>1
  <2> HIDE DEF a, c
  <2>3. events \in Seq(S!Event) /\ a \in Seq(S!Event) /\ c \in Seq(S!Event)
    BY <1>2, <2>2
  <2>4. (events \o a) \o c = events \o (a \o c)
    BY <2>3, Regrouped
  <2>5. events' = (events \o a) \o c
    BY <2>2, <2>4
  <2> QED
    BY <2>5 DEF a, c
<1>5. Grown(events, mid, ks, 1)
  <2>1. 1 \in {1, 2}
    OBVIOUS
  <2> HIDE DEF ks
  <2> QED
    BY <1>2, <2>1, AddsOne
<1> HIDE DEF mid
<1>6. Grown(mid, events', ks, 2)
  <2>1. 2 \in {1, 2} /\ mid \in Seq(S!Event)
    BY <1>5 DEF Grown
  <2> HIDE DEF ks
  <2>2. Grown(mid, mid \o S!OneOf(ks, 2), ks, 2)
    BY <1>2, <2>1, AddsOne
  <2> QED
    BY <1>4, <2>2
<1> HIDE DEF ks
<1>7. /\ busy' \in [Workers -> Doing]
      /\ \A g \in Workers : IF g = h THEN busy'[g].op = "none" ELSE busy'[g] = busy[g]
      /\ Cardinality(Telling') = Cardinality(Telling)
  BY <1>1, Leaves DEF ShipInv
<1>8. ShipTypes'
  BY <1>1, <1>3, <1>6, <1>7 DEF ShipInv, ShipTypes, S!TypeOK, Grown
<1>9. \A j \in DOMAIN events : j \in DOMAIN events' /\ events'[j] = events[j]
  BY <1>5, <1>6 DEF Grown
<1>10. FirstIsCreated' /\ StatusListed'
  <2>1. events # <<>> /\ events[1] = S!Tracking[1]
    BY <1>2 DEF ShipInv, FirstIsCreated
  <2>2. 1 \in DOMAIN events
    BY <1>2, <2>1
  <2>3. 1 \in DOMAIN events' /\ events'[1] = S!Tracking[1] /\ events' # <<>>
    BY <1>9, <2>1, <2>2
  <2>4. \E k \in DOMAIN events : events[k].status = ship.status
    BY <1>2 DEF ShipInv, StatusListed
  <2>5. \E k \in DOMAIN events' : events'[k].status = ship'.status
    BY <1>3, <1>9, <2>3, <2>4
  <2> QED
    BY <1>3, <2>3, <2>5 DEF FirstIsCreated, StatusListed
<1>11. RefreshAlone'
  <2> SUFFICES ASSUME ~overlapped PROVE RefreshAlone'
    BY <1>1 DEF RefreshAlone
  <2>1. /\ \A g \in Workers : busy[g].op = "refresh" => g = h
        /\ \A k \in ks : S!Times(S!Tracking[k]) = 0
        /\ \A k \in {1, 2} : S!Times(S!Tracking[k]) <= 1
    BY <1>1 DEF ShipInv, RefreshAlone, S!Refreshing, ks
  <2>2. \A g \in Workers : busy'[g].op # "refresh"
    BY <1>7, <2>1
  <2>3. \A k \in {1, 2} : S!Times(S!Tracking[k])' =
                            S!Times(S!Tracking[k]) + (IF k \in ks THEN 1 ELSE 0)
    <3>1. \A k \in {1, 2} : Same(events, S!Tracking[k]) = {j \in DOMAIN events : events[j] = S!Tracking[k]}
      BY DEF Same
    <3>2. \A k \in {1, 2} : Cardinality(Same(events, S!Tracking[k])) \in Nat
      BY <1>2, OneMore, CarrierEvents
    <3>3. Cardinality(Same(events', S!Tracking[1])) =
             Cardinality(Same(events, S!Tracking[1])) + (IF 1 \in ks THEN 1 ELSE 0)
      BY <1>5, <1>6, <3>2, CarrierEvents DEF Grown
    <3>4. Cardinality(Same(events', S!Tracking[2])) =
             Cardinality(Same(events, S!Tracking[2])) + (IF 2 \in ks THEN 1 ELSE 0)
      BY <1>5, <1>6, <3>2, CarrierEvents DEF Grown
    <3> QED
      BY <3>1, <3>3, <3>4, ShipCounts DEF S!Times, Same
  <2>4. \A k \in {1, 2} : S!Times(S!Tracking[k]) \in Nat
    <3>1. \A x : Cardinality(Same(events, x)) \in Nat
      BY <1>2, OneMore, CarrierEvents
    <3> QED
      BY <3>1, ShipCounts DEF S!Times, Same
  <2>5. \A k \in {1, 2} : S!Times(S!Tracking[k])' <= 1
    BY <2>1, <2>3, <2>4
  <2> QED
    BY <2>2, <2>5 DEF RefreshAlone, S!Refreshing
<1>12. S!ToldWasAsked'
  <2>1. Cardinality(ByStaff(events')) = Cardinality(ByStaff(events))
    BY <1>5, <1>6 DEF Grown
  <2> QED
    BY <1>1, <1>7, <2>1, Tolds, ShipCounts DEF ShipInv, S!ToldWasAsked, ByStaff, Telling
<1> QED
  BY <1>8, <1>10, <1>11, <1>12 DEF ShipInv

LEMMA AbortShipInv ==
  ASSUME ShipInv, NEW h \in Workers, S!Abort(h) PROVE ShipInv'
<1> DEFINE mine == {g \in {h} : busy[g].op = "update" /\ busy[g].tell}
<1>1. /\ busy' = [busy EXCEPT ![h] = S!Free] /\ undone' = undone + Cardinality(mine)
      /\ UNCHANGED <<ship, events, notices, told, losses, overlapped>>
  BY ShipCounts DEF S!Abort
<1>2. /\ busy' \in [Workers -> Doing]
      /\ \A g \in Workers : IF g = h THEN busy'[g].op = "none" ELSE busy'[g] = busy[g]
      /\ Cardinality(Telling') = IF busy[h].op = "update" /\ busy[h].tell
                                 THEN Cardinality(Telling) - 1 ELSE Cardinality(Telling)
  BY <1>1, Leaves DEF ShipInv
<1>3. Cardinality(mine) = IF busy[h].op = "update" /\ busy[h].tell THEN 1 ELSE 0
  <2>1. mine = IF busy[h].op = "update" /\ busy[h].tell THEN {h} ELSE {}
    OBVIOUS
  <2> QED
    BY <2>1, FS_Singleton, FS_EmptySet
<1> HIDE DEF mine
<1>4. ShipTypes'
  <2>1. undone' \in Nat
    BY <1>1, <1>3 DEF ShipInv, ShipTypes
  <2> QED
    BY <1>1, <1>2, <2>1 DEF ShipInv, ShipTypes, S!TypeOK
<1>5. FirstIsCreated' /\ StatusListed'
  BY <1>1, <1>2 DEF ShipInv, FirstIsCreated, StatusListed
<1>6. RefreshAlone'
  <2>1. \A g \in Workers : busy'[g].op = "refresh" => busy'[g] = busy[g]
    BY <1>2
  <2>2. \A x : S!Times(x)' = S!Times(x)
    BY <1>1, ShipCounts DEF S!Times
  <2> QED
    BY <1>1, <2>1, <2>2 DEF ShipInv, RefreshAlone, S!Refreshing
<1>7. S!ToldWasAsked'
  <2>1. Len(told) + Len(notices) <= losses + undone + Cardinality(Telling)
                                     + Cardinality(ByStaff(events))
    BY Tolds DEF ShipInv
  <2>2. Len(told) + Len(notices) <= losses + undone' + Cardinality(Telling')
                                     + Cardinality(ByStaff(events))
    <3>1. /\ Len(told) \in Nat /\ Len(notices) \in Nat /\ losses \in Nat /\ undone \in Nat
          /\ Cardinality(Telling) \in Nat /\ Cardinality(ByStaff(events)) \in Nat
      BY Counts DEF ShipInv
    <3>2. \/ undone' = undone + 1 /\ Cardinality(Telling') = Cardinality(Telling) - 1
          \/ undone' = undone /\ Cardinality(Telling') = Cardinality(Telling)
      BY <1>1, <1>2, <1>3, <3>1
    <3> QED
      BY <2>1, <3>1, <3>2
  <2> QED
    BY <1>1, <2>2, ShipCounts DEF S!ToldWasAsked, ByStaff, Telling
<1> QED
  BY <1>4, <1>5, <1>6, <1>7 DEF ShipInv

LEMMA NotifyInv ==
  ASSUME ShipInv, NEW again \in BOOLEAN, NEW found \in BOOLEAN, S!Notify(again, found)
  PROVE  ShipInv'
<1>1. /\ notices # <<>> /\ told' = (IF found THEN Append(told, Head(notices)) ELSE told)
      /\ notices' = (IF again THEN notices ELSE Tail(notices))
      /\ losses' = (IF again THEN losses + 1 ELSE losses)
      /\ UNCHANGED <<ship, events, busy, overlapped, undone>>
  BY DEF S!Notify
<1>2. notices \in Seq(S!AllStatuses) /\ told \in Seq(S!AllStatuses)
  BY DEF ShipInv, ShipTypes
<1>3. /\ notices' \in Seq(S!AllStatuses)
      /\ Len(notices') = IF again THEN Len(notices) ELSE Len(notices) - 1
  BY <1>1, <1>2
<1>4. /\ told' \in Seq(S!AllStatuses)
      /\ Len(told') = IF found THEN Len(told) + 1 ELSE Len(told)
  <2>1. Head(notices) \in S!AllStatuses
    BY <1>1, <1>2
  <2> QED
    BY <1>1, <1>2, <2>1
<1>5. ShipTypes'
  BY <1>1, <1>3, <1>4 DEF ShipInv, ShipTypes, S!TypeOK
<1>6. FirstIsCreated' /\ StatusListed'
  BY <1>1 DEF ShipInv, FirstIsCreated, StatusListed
<1>7. RefreshAlone'
  BY <1>1, ShipCounts DEF ShipInv, RefreshAlone, S!Refreshing, S!Times
<1>8. S!ToldWasAsked'
  <2>1. Len(told) + Len(notices) <= losses + undone + Cardinality(Telling)
                                     + Cardinality(ByStaff(events))
    BY Tolds DEF ShipInv
  <2>2. Len(told') + Len(notices') <= losses' + undone + Cardinality(Telling)
                                      + Cardinality(ByStaff(events))
    <3>1. /\ Len(told) \in Nat /\ Len(notices) \in Nat /\ losses \in Nat /\ undone \in Nat
          /\ Cardinality(Telling) \in Nat /\ Cardinality(ByStaff(events)) \in Nat
      BY Counts DEF ShipInv
    <3>2. CASE again
      <4>1. losses' = losses + 1 /\ Len(notices') = Len(notices)
        BY <1>1, <1>3, <3>2
      <4>2. Len(told') <= Len(told) + 1 /\ Len(told') \in Nat
        BY <1>4, <3>1
      <4> QED
        BY <2>1, <3>1, <4>1, <4>2
    <3>3. CASE ~again
      <4>1. losses' = losses /\ Len(notices') = Len(notices) - 1
        BY <1>1, <1>3, <3>3
      <4>2. Len(told') <= Len(told) + 1 /\ Len(told') \in Nat
        BY <1>4, <3>1
      <4> QED
        BY <2>1, <3>1, <4>1, <4>2
    <3> QED
      BY <3>2, <3>3
  <2> QED
    BY <1>1, <2>2, ShipCounts DEF S!ToldWasAsked, ByStaff, Telling
<1> QED
  BY <1>5, <1>6, <1>7, <1>8 DEF ShipInv

LEMMA ShipNext == ShipInv /\ [S!Next]_(S!vars) => ShipInv'
<1> SUFFICES ASSUME ShipInv, [S!Next]_(S!vars) PROVE ShipInv'
  OBVIOUS
<1>1. ASSUME NEW h \in Workers,
             \/ S!Book(h) \/ S!RefreshCheck(h) \/ (\E c \in BOOLEAN : S!CreateCommit(h, c))
             \/ (\E s \in S!AllStatuses : S!UpdateCheck(h, s))
             \/ S!UpdateCommit(h) \/ S!RefreshCommit(h) \/ S!Abort(h)
      PROVE  ShipInv'
  BY <1>1, BookInv, RefreshCheckInv, CreateInv, UpdateCheckInv, UpdateCommitInv,
     RefreshCommitInv, AbortShipInv
<1>2. ASSUME NEW again \in BOOLEAN, NEW found \in BOOLEAN, S!Notify(again, found) PROVE ShipInv'
  BY <1>2, NotifyInv
<1>3. CASE UNCHANGED S!vars
  <2>1. UNCHANGED <<ship, events, busy, notices, told, losses, overlapped, undone>>
    BY <1>3 DEF S!vars
  <2>2. ShipTypes'
    BY <2>1 DEF ShipInv, ShipTypes, S!TypeOK
  <2>3. FirstIsCreated' /\ StatusListed'
    BY <2>1 DEF ShipInv, FirstIsCreated, StatusListed
  <2>4. RefreshAlone'
    BY <2>1, ShipCounts DEF ShipInv, RefreshAlone, S!Refreshing, S!Times
  <2>5. S!ToldWasAsked'
    BY <2>1, ShipCounts DEF ShipInv, S!ToldWasAsked
  <2> QED
    BY <2>2, <2>3, <2>4, <2>5 DEF ShipInv
<1> QED
  BY <1>1, <1>2, <1>3 DEF S!Next

LEMMA IsCompliance == Spec => F!Spec
<1>1. Init => F!Init
  BY DEF Init
<1>2. [Next]_<<part, shipmentsVars, retentionVars, realtimeVars, migrationsVars,
               complianceVars>> => [F!Next]_(F!vars)
  BY DEF Next, ShipmentsStep, RetentionStep, RealtimeStep, MigrationsStep, ComplianceStep,
         complianceVars, F!vars
<1> QED
  BY <1>1, <1>2, PTL DEF Spec, F!Spec

(* Whatever staff, refreshes and notices do beside each other, the status   *)
(* is in the history, an event of the carrier is there once unless two      *)
(* refreshes overlapped, and nobody is told more often than staff asked,    *)
(* workers were lost and updates undone.                                    *)
LEMMA ShipmentsAlone == S!Spec => [](S!TypeOK /\ S!ShipmentsSound)
<1>1. ShipInv => S!TypeOK /\ S!ShipmentsSound
  <2>1. ShipInv => S!TypeOK
    BY DEF ShipInv, ShipTypes
  <2>2. ShipInv => S!HistoryComplete
    BY CarrierEvents DEF ShipInv, S!HistoryComplete, StatusListed, RefreshAlone
  <2> QED
    BY <2>1, <2>2 DEF ShipInv, S!ShipmentsSound
<1> QED
  BY <1>1, ShipInit, ShipNext, PTL DEF S!Spec

-----------------------------------------------------------------------------
(* Retention.  The foreign keys.                                            *)

(* The only tables a purge deletes from that take rows with them are those  *)
(* of contacts and conversations, and whom they take.                       *)
Dependants == {"conversations", "contact_tags", "campaign_recipients", "custom_field_values"}
Threads == {"messages", "ai_conversation_contexts", "routing_decisions"}
Childless == {"messages", "ai_conversation_contexts", "routing_decisions",
           "contact_tags", "campaign_recipients", "custom_field_values"}

KeysOf(r) ==
    /\ P!With("contacts") \in r.refs <=> r.table \in Dependants
    /\ P!With("conversations") \in r.refs <=> r.table \in Threads
    /\ \A p \in Childless : P!With(p) \notin r.refs

LEMMA KeysDiffer ==
  /\ \A p, q : P!With(p) = P!With(q) <=> p = q
  /\ \A p, q : P!With(p) # P!Without(q) /\ P!With(p) # P!Never(q)
  BY DEF P!With, P!Without, P!Never

TableLists == {P!TablesA, P!TablesB, P!TablesC, P!TablesD, P!TablesE, P!TablesF}

LEMMA EachKey ==
  ASSUME NEW c \in TableLists, NEW k \in DOMAIN c
  PROVE  KeysOf(c[k])
<1>1. ASSUME c = P!TablesA PROVE KeysOf(c[k])
  BY <1>1, KeysDiffer DEF P!TablesA, KeysOf, P!T, P!Owner, Dependants, Threads, Childless
<1>2. ASSUME c = P!TablesB PROVE KeysOf(c[k])
  BY <1>2, KeysDiffer DEF P!TablesB, KeysOf, P!T, P!Owner, Dependants, Threads, Childless
<1>3. ASSUME c = P!TablesC PROVE KeysOf(c[k])
  BY <1>3, KeysDiffer DEF P!TablesC, KeysOf, P!T, P!Owner, Dependants, Threads, Childless
<1>4. ASSUME c = P!TablesD PROVE KeysOf(c[k])
  BY <1>4, KeysDiffer DEF P!TablesD, KeysOf, P!T, P!Owner, Dependants, Threads, Childless
<1>5. ASSUME c = P!TablesE PROVE KeysOf(c[k])
  BY <1>5, KeysDiffer DEF P!TablesE, KeysOf, P!T, P!Owner, Dependants, Threads, Childless
<1>6. ASSUME c = P!TablesF PROVE KeysOf(c[k])
  BY <1>6, KeysDiffer DEF P!TablesF, KeysOf, P!T, P!Owner, Dependants, Threads, Childless
<1> QED
  BY <1>1, <1>2, <1>3, <1>4, <1>5, <1>6 DEF TableLists

In(s, r) == \E k \in DOMAIN s : s[k] = r

LEMMA Joined ==
  ASSUME NEW R, NEW s \in Seq(R), NEW t \in Seq(R)
  PROVE  /\ s \o t \in Seq(R)
         /\ \A r : In(s \o t, r) <=> In(s, r) \/ In(t, r)
<1> DEFINE u == s \o t
<1>1. /\ u \in Seq(R) /\ Len(u) = Len(s) + Len(t) /\ Len(s) \in Nat /\ Len(t) \in Nat
      /\ DOMAIN u = 1..Len(u) /\ DOMAIN s = 1..Len(s) /\ DOMAIN t = 1..Len(t)
      /\ \A k \in 1..Len(s) : u[k] = s[k]
      /\ \A k \in 1..Len(t) : u[Len(s) + k] = t[k]
  OBVIOUS
<1> HIDE DEF u
<1>2. ASSUME NEW k \in DOMAIN u PROVE (\E j \in DOMAIN s : s[j] = u[k]) \/ (\E j \in DOMAIN t : t[j] = u[k])
  <2>1. CASE k <= Len(s)
    BY <1>1, <2>1
  <2>2. CASE k > Len(s)
    <3>1. k - Len(s) \in 1..Len(t) /\ k = Len(s) + (k - Len(s))
      BY <1>1, <2>2
    <3>2. u[k] = t[k - Len(s)]
      BY <1>1, <3>1
    <3> QED
      BY <1>1, <3>1, <3>2
  <2> QED
    BY <1>1, <2>1, <2>2
<1>3. \A k \in DOMAIN s : k \in DOMAIN u /\ u[k] = s[k]
  BY <1>1
<1>4. \A k \in DOMAIN t : Len(s) + k \in DOMAIN u /\ u[Len(s) + k] = t[k]
  BY <1>1
<1>5. \A r : In(u, r) <=> In(s, r) \/ In(t, r)
  BY <1>2, <1>3, <1>4 DEF In
<1> QED
  BY <1>1, <1>5 DEF u

(* The tables of all six lists.                                             *)
LEMMA Lists ==
  ASSUME NEW c \in TableLists,
         NEW R, \A k \in DOMAIN c : c[k] \in R
  PROVE  c \in Seq(R)
<1>1. CASE c = P!TablesA
  <2>1. PICK a, b, d, e, f, g, h, m : c = <<a, b, d, e, f, g, h, m>>
    BY <1>1 DEF P!TablesA
  <2> QED
    BY <2>1
<1>2. CASE c = P!TablesB
  <2>1. PICK a, b, d, e, f, g, h, m : c = <<a, b, d, e, f, g, h, m>>
    BY <1>2 DEF P!TablesB
  <2> QED
    BY <2>1
<1>3. CASE c = P!TablesC
  <2>1. PICK a, b, d, e, f, g : c = <<a, b, d, e, f, g>>
    BY <1>3 DEF P!TablesC
  <2> QED
    BY <2>1
<1>4. CASE c = P!TablesD
  <2>1. PICK a, b, d, e, f, g : c = <<a, b, d, e, f, g>>
    BY <1>4 DEF P!TablesD
  <2> QED
    BY <2>1
<1>5. CASE c = P!TablesE
  <2>1. PICK a, b, d, e, f, g, h, m : c = <<a, b, d, e, f, g, h, m>>
    BY <1>5 DEF P!TablesE
  <2> QED
    BY <2>1
<1>6. CASE c = P!TablesF
  <2>1. PICK a, b, d, e, f : c = <<a, b, d, e, f>>
    BY <1>6 DEF P!TablesF
  <2> QED
    BY <2>1
<1> QED
  BY <1>1, <1>2, <1>3, <1>4, <1>5, <1>6 DEF TableLists

LEMMA CreatedTables ==
  \A r : In(P!Created, r) <=> \E c \in TableLists : In(c, r)
<1> DEFINE Entries == {P!TablesA[k] : k \in DOMAIN P!TablesA} \cup {P!TablesB[k] : k \in DOMAIN P!TablesB}
                    \cup {P!TablesC[k] : k \in DOMAIN P!TablesC} \cup {P!TablesD[k] : k \in DOMAIN P!TablesD}
                    \cup {P!TablesE[k] : k \in DOMAIN P!TablesE} \cup {P!TablesF[k] : k \in DOMAIN P!TablesF}
<1>1. P!TablesA \in Seq(Entries)
  <2>1. \A k \in DOMAIN P!TablesA : P!TablesA[k] \in Entries
    OBVIOUS
  <2> HIDE DEF Entries
  <2> QED
    BY <2>1, Lists DEF TableLists
<1>2. P!TablesB \in Seq(Entries)
  <2>1. \A k \in DOMAIN P!TablesB : P!TablesB[k] \in Entries
    OBVIOUS
  <2> HIDE DEF Entries
  <2> QED
    BY <2>1, Lists DEF TableLists
<1>3. P!TablesC \in Seq(Entries)
  <2>1. \A k \in DOMAIN P!TablesC : P!TablesC[k] \in Entries
    OBVIOUS
  <2> HIDE DEF Entries
  <2> QED
    BY <2>1, Lists DEF TableLists
<1>4. P!TablesD \in Seq(Entries)
  <2>1. \A k \in DOMAIN P!TablesD : P!TablesD[k] \in Entries
    OBVIOUS
  <2> HIDE DEF Entries
  <2> QED
    BY <2>1, Lists DEF TableLists
<1>5. P!TablesE \in Seq(Entries)
  <2>1. \A k \in DOMAIN P!TablesE : P!TablesE[k] \in Entries
    OBVIOUS
  <2> HIDE DEF Entries
  <2> QED
    BY <2>1, Lists DEF TableLists
<1>6. P!TablesF \in Seq(Entries)
  <2>1. \A k \in DOMAIN P!TablesF : P!TablesF[k] \in Entries
    OBVIOUS
  <2> HIDE DEF Entries
  <2> QED
    BY <2>1, Lists DEF TableLists
<1> HIDE DEF Entries
<1> DEFINE ab == P!TablesA \o P!TablesB
           abc == ab \o P!TablesC
           abcd == abc \o P!TablesD
           abcde == abcd \o P!TablesE
<1>7. ab \in Seq(Entries) /\ \A r : In(ab, r) <=> In(P!TablesA, r) \/ In(P!TablesB, r)
  BY <1>1, <1>2, Joined
<1> HIDE DEF ab
<1>8. abc \in Seq(Entries) /\ \A r : In(abc, r) <=> In(ab, r) \/ In(P!TablesC, r)
  BY <1>7, <1>3, Joined
<1> HIDE DEF abc
<1>9. abcd \in Seq(Entries) /\ \A r : In(abcd, r) <=> In(abc, r) \/ In(P!TablesD, r)
  BY <1>8, <1>4, Joined
<1> HIDE DEF abcd
<1>10. abcde \in Seq(Entries) /\ \A r : In(abcde, r) <=> In(abcd, r) \/ In(P!TablesE, r)
  BY <1>9, <1>5, Joined
<1> HIDE DEF abcde
<1>11. \A r : In(abcde \o P!TablesF, r) <=> In(abcde, r) \/ In(P!TablesF, r)
  BY <1>10, <1>6, Joined
<1>12. P!Created = abcde \o P!TablesF
  BY DEF P!Created, ab, abc, abcd, abcde
<1> QED
  BY <1>7, <1>8, <1>9, <1>10, <1>11, <1>12 DEF TableLists

(* Refs finds the keys of a table.                                          *)
LEMMA RefsOf ==
  ASSUME NEW t \in P!Tables
  PROVE  /\ P!With("contacts") \in P!Refs(t) <=> t \in Dependants
         /\ P!With("conversations") \in P!Refs(t) <=> t \in Threads
         /\ \A p \in Childless : P!With(p) \notin P!Refs(t)
<1> DEFINE r == CHOOSE k \in P!ToSet(P!Created) : k.table = t
<1>1. \E k \in P!ToSet(P!Created) : k.table = t
  BY DEF P!Tables, P!ToSet
<1>2. r \in P!ToSet(P!Created) /\ r.table = t
  BY <1>1
<1>3. P!Refs(t) = r.refs
  BY DEF P!Refs
<1> HIDE DEF r
<1>4. In(P!Created, r)
  BY <1>2 DEF P!ToSet, In
<1>5. PICK c \in TableLists : In(c, r)
  BY <1>4, CreatedTables
<1>6. KeysOf(r)
  BY <1>5, EachKey DEF In
<1> QED
  BY <1>2, <1>3, <1>6 DEF KeysOf

ListedIsTable == \A c \in TableLists : \A k \in DOMAIN c : c[k].table \in P!Tables

LEMMA ListedAre == ListedIsTable
<1>1. \A r : In(P!Created, r) => r.table \in P!Tables
  BY DEF In, P!Tables
<1> QED
  BY <1>1, CreatedTables DEF In, ListedIsTable

LEMMA AreTables ==
  Dependants \cup Threads \cup {"contacts"} \subseteq P!Tables
<1>1. /\ \A k \in DOMAIN P!TablesD : P!TablesD[k].table \in P!Tables
      /\ \A k \in DOMAIN P!TablesE : P!TablesE[k].table \in P!Tables
      /\ \A k \in DOMAIN P!TablesF : P!TablesF[k].table \in P!Tables
  BY ListedAre DEF ListedIsTable, TableLists
<1>2. /\ P!TablesD[2].table = "contacts" /\ 2 \in DOMAIN P!TablesD
  BY DEF P!TablesD, P!T
<1>3. /\ P!TablesE[1].table = "campaign_recipients" /\ 1 \in DOMAIN P!TablesE
      /\ P!TablesE[2].table = "contact_tags" /\ 2 \in DOMAIN P!TablesE
      /\ P!TablesE[3].table = "conversations" /\ 3 \in DOMAIN P!TablesE
      /\ P!TablesE[4].table = "custom_field_values" /\ 4 \in DOMAIN P!TablesE
      /\ P!TablesE[8].table = "ai_conversation_contexts" /\ 8 \in DOMAIN P!TablesE
  BY DEF P!TablesE, P!T
<1>4. /\ P!TablesF[2].table = "messages" /\ 2 \in DOMAIN P!TablesF
      /\ P!TablesF[3].table = "routing_decisions" /\ 3 \in DOMAIN P!TablesF
  BY DEF P!TablesF, P!T
<1> QED
  BY <1>1, <1>2, <1>3, <1>4 DEF Dependants, Threads

(* What goes with a contact, a conversation and an analysis.                *)
LEMMA WhatGoes ==
  /\ P!DeletedWith("contacts") = {"contacts"} \cup Dependants \cup Threads
  /\ P!DeletedWith("conversations") = {"conversations"} \cup Threads
  /\ P!DeletedWith("ai_conversation_contexts") = {"ai_conversation_contexts"}
<1>1. \A X : \A t : t \in P!GoesWith(X) <=> t \in X \/ (t \in P!Tables /\ \E p \in X : P!With(p) \in P!Refs(t))
  BY DEF P!GoesWith
<1> DEFINE all == {"contacts"} \cup Dependants \cup Threads
           thread == {"conversations"} \cup Threads
<1>2. P!GoesWith({"contacts"}) = {"contacts"} \cup Dependants
  BY <1>1, RefsOf, AreTables
<1>3. P!GoesWith({"contacts"} \cup Dependants) = all
  BY <1>1, RefsOf, AreTables DEF Dependants, Threads, Childless
<1>4. P!GoesWith(all) = all
  BY <1>1, RefsOf, AreTables DEF Dependants, Threads, Childless
<1>5. P!GoesWith({"conversations"}) = thread
  BY <1>1, RefsOf, AreTables
<1>6. P!GoesWith(thread) = thread
  BY <1>1, RefsOf, AreTables DEF Threads, Childless
<1>7. P!GoesWith({"ai_conversation_contexts"}) = {"ai_conversation_contexts"}
  BY <1>1, RefsOf, AreTables DEF Childless
<1> QED
  BY <1>2, <1>3, <1>4, <1>5, <1>6, <1>7 DEF P!DeletedWith

(* The keys among the tables of this module.                                *)
LEMMA WhoDepends ==
  ASSUME NEW c \in P!Dependent
  PROVE  \/ c[1] = "conversations" /\ c[2] = "contacts"
         \/ c[1] \in {"messages", "ai_conversation_contexts"} /\ c[2] = "conversations"
<1>1. P!Purged = {"contacts", "conversations", "messages", "ai_conversation_contexts"}
  BY DEF P!Purged
<1>2. P!Purged \cup P!Kept \subseteq P!Tables
  <2>1. /\ \A k \in DOMAIN P!TablesC : P!TablesC[k].table \in P!Tables
        /\ \A k \in DOMAIN P!TablesD : P!TablesD[k].table \in P!Tables
        /\ \A k \in DOMAIN P!TablesE : P!TablesE[k].table \in P!Tables
        /\ \A k \in DOMAIN P!TablesF : P!TablesF[k].table \in P!Tables
    BY ListedAre DEF ListedIsTable, TableLists
  <2>2. P!TablesC[4].table = "audit_logs" /\ 4 \in DOMAIN P!TablesC
    BY DEF P!TablesC, P!T
  <2>3. P!TablesD[3].table = "invoices" /\ 3 \in DOMAIN P!TablesD
    BY DEF P!TablesD, P!T
  <2>4. /\ P!TablesE[5].table = "deals" /\ 5 \in DOMAIN P!TablesE
        /\ P!TablesE[6].table = "payments" /\ 6 \in DOMAIN P!TablesE
        /\ P!TablesE[7].table = "survey_responses" /\ 7 \in DOMAIN P!TablesE
    BY DEF P!TablesE, P!T
  <2>5. P!TablesF[4].table = "shipments" /\ 4 \in DOMAIN P!TablesF
    BY DEF P!TablesF, P!T
  <2> QED
    BY <1>1, <2>1, <2>2, <2>3, <2>4, <2>5, AreTables DEF P!Kept, Dependants, Threads
<1>3. \A t \in P!Purged \cup P!Kept :
         /\ P!With("contacts") \in P!Refs(t) <=> t = "conversations"
         /\ P!With("conversations") \in P!Refs(t) <=> t \in {"messages", "ai_conversation_contexts"}
         /\ P!With("messages") \notin P!Refs(t)
         /\ P!With("ai_conversation_contexts") \notin P!Refs(t)
  BY <1>2, RefsOf DEF P!Purged, P!Kept, Dependants, Threads, Childless
<1>4. c[1] \in P!Purged \cup P!Kept /\ c[2] \in P!Purged /\ P!With(c[2]) \in P!Refs(c[1])
  BY DEF P!Dependent
<1> QED
  BY <1>1, <1>3, <1>4

-----------------------------------------------------------------------------
(* The rows, the run, and what they owe each other.                         *)

Ends == {"contacts", "select", "delete", "contexts"}
Runs == [at : {"next"}, left : SUBSET Tenants, done : SUBSET Tenants, failed : SUBSET Tenants]
Works == [at : Ends, tenant : Tenants, left : SUBSET Tenants, done : SUBSET Tenants,
          failed : SUBSET Tenants, gone : SUBSET P!Row, chosen : BOOLEAN, hits : {0, 1}]

RetTypes ==
    /\ P!TypeOK
    /\ purge \in {P!Idle} \cup Runs \cup Works
    /\ counted \in Nat /\ met \in BOOLEAN
    /\ entry \in [Tenants -> [says : Nat, did : Nat]]

(* A run has every tenant before it, behind it or at hand.                  *)
NoneForgotten ==
    /\ purge.at = "next" => purge.left \cup purge.done \cup purge.failed = Tenants
    /\ purge.at \in Ends =>
           purge.left \cup purge.done \cup purge.failed \cup {purge.tenant} = Tenants

NothingDangles ==
    \A t \in Tenants : /\ P!Has("conversations", t) => P!Has("contacts", t)
                       /\ P!Has("messages", t) => P!Has("conversations", t)
                       /\ P!Has("ai_conversation_contexts", t) => P!Has("conversations", t)

(* What a transaction has deleted: rows of its tenant in the tables it may  *)
(* delete from, with all that hangs on them.                                *)
GoneWhole ==
    purge.at \in Ends =>
        LET t == purge.tenant IN
            /\ \A r \in purge.gone : r \in rows /\ r[1] \in P!Purged /\ r = <<r[1], t>>
            /\ \A u \in P!Purged : <<"contacts", t>> \in purge.gone /\ P!Has(u, t) => <<u, t>> \in purge.gone
            /\ \A u \in {"messages", "ai_conversation_contexts"} :
                   <<"conversations", t>> \in purge.gone /\ P!Has(u, t) => <<u, t>> \in purge.gone

(* From the SELECT of the conversations to their deletion, the one that was *)
(* chosen is as it was unless it was met.                                   *)
ChosenDue ==
    purge.at \in Ends =>
        LET t == purge.tenant
            due == status[t] = "closed" /\ age[<<"conversations", t>>] = "old"
            with == <<"contacts", t>> \in purge.gone IN
            /\ purge.at = "select" /\ purge.chosen => due \/ met
            /\ <<"conversations", t>> \in purge.gone =>
                   with \/ (purge.at \in {"delete", "contexts"} /\ (due \/ met))

Counting == purge.at \in Ends => counted >= purge.hits

RetInv ==
    /\ RetTypes /\ NoneForgotten /\ NothingDangles /\ GoneWhole /\ ChosenDue /\ Counting
    /\ P!EntriesCover

LEMMA RetInit == P!Init => RetInv
<1> SUFFICES ASSUME P!Init PROVE RetInv
  OBVIOUS
<1>1. purge = P!Idle /\ P!Idle.at = "idle" /\ purge.at = "idle"
  BY DEF P!Init, P!Idle
<1>2. RetTypes
  BY <1>1 DEF P!Init, RetTypes, P!TypeOK
<1>3. NoneForgotten /\ GoneWhole /\ ChosenDue /\ Counting
  BY <1>1 DEF NoneForgotten, GoneWhole, ChosenDue, Counting, Ends
<1>4. NothingDangles
  BY DEF P!Init, NothingDangles, P!Has, P!Row, P!Purged
<1>5. P!EntriesCover
  BY DEF P!Init, P!EntriesCover
<1> QED
  BY <1>2, <1>3, <1>4, <1>5 DEF RetInv

(* What a run has tried is not before it any more.                          *)
TriedInv ==
    /\ purge.at \in {"next"} \cup Ends => (purge.done \cup purge.failed) \cap purge.left = {}
    /\ purge.at \in Ends => purge.tenant \notin purge.left
    /\ P!EveryTenantTried

LEMMA RetImplies == RetInv /\ TriedInv => P!TypeOK /\ P!PurgeSound
<1> SUFFICES ASSUME RetInv, TriedInv PROVE P!TypeOK /\ P!PurgeSound
  OBVIOUS
<1>1. P!TypeOK /\ P!EntriesCover
  BY DEF RetInv, RetTypes
<1>2. P!PurgedWasDue
  BY DEF RetInv, ChosenDue, P!PurgedWasDue, Ends
<1>3. P!EveryTenantTried
  BY DEF TriedInv
<1>4. P!NoOrphans
  BY WhoDepends DEF RetInv, NothingDangles, P!NoOrphans
<1> QED
  BY <1>1, <1>2, <1>3, <1>4 DEF P!PurgeSound

LEMMA PurgeKinds ==
  ASSUME RetTypes
  PROVE  /\ purge.at \in {"idle", "next"} \cup Ends
         /\ purge.at = "idle" <=> purge = P!Idle
         /\ purge.at = "next" => purge \in Runs
         /\ purge.at \in Ends => purge \in Works
  BY DEF RetTypes, P!Idle, Runs, Works, Ends

(* Traffic leaves the run as it is, and the rows of the tenant it deletes.  *)
LEMMA Touched ==
  ASSUME RetInv, NEW table, NEW t \in Tenants, P!Touch(table, t)
  PROVE  /\ P!Has(table, t) /\ UNCHANGED <<purge, counted, entry>>
         /\ purge.at \in Ends => <<table, t>> \notin purge.gone
         /\ met' \in BOOLEAN /\ (met => met')
         /\ purge.at = "select" /\ table = "conversations" /\ t = purge.tenant => met'
         /\ NoneForgotten' /\ Counting' /\ P!EntriesCover'
<1>1. P!Has(table, t) /\ UNCHANGED <<purge, counted, entry>>
  BY DEF P!Touch
<1>2. purge.at \in Ends => <<table, t>> \notin purge.gone
  BY DEF P!Touch, P!Doomed, Ends
<1>3. /\ met' \in BOOLEAN /\ (met => met')
      /\ purge.at = "select" /\ table = "conversations" /\ t = purge.tenant => met'
  BY DEF P!Touch, RetInv, RetTypes
<1>4. NoneForgotten' /\ Counting' /\ P!EntriesCover'
  BY <1>1 DEF RetInv, NoneForgotten, Counting, P!EntriesCover
<1> QED
  BY <1>1, <1>2, <1>3, <1>4

LEMMA MessageInv == ASSUME RetInv, NEW t \in Tenants, P!Message(t) PROVE RetInv'
<1>1. /\ P!Touch("conversations", t) /\ rows' = rows \cup {<<"messages", t>>}
      /\ age' = [age EXCEPT ![<<"conversations", t>>] = "fresh", ![<<"messages", t>>] = "fresh"]
      /\ UNCHANGED <<status, deleted>>
  BY DEF P!Message
<1>2. /\ P!Has("conversations", t) /\ UNCHANGED <<purge, counted, entry>>
      /\ purge.at \in Ends => <<"conversations", t>> \notin purge.gone
      /\ met' \in BOOLEAN /\ (met => met')
      /\ purge.at = "select" /\ t = purge.tenant => met'
      /\ NoneForgotten' /\ Counting' /\ P!EntriesCover'
  BY <1>1, Touched
<1>3. RetTypes'
  <2>1. <<"messages", t>> \in P!Row
    BY DEF P!Row, P!Purged
  <2>2. rows' \subseteq P!Row /\ age' \in [P!Row -> {"fresh", "old"}]
    BY <1>1, <2>1 DEF RetInv, RetTypes, P!TypeOK
  <2> QED
    BY <1>1, <1>2, <2>2 DEF RetInv, RetTypes, P!TypeOK
<1>4. NothingDangles'
  <2>1. \A u, x : P!Has(u, x)' <=> P!Has(u, x) \/ (u = "messages" /\ x = t)
    BY <1>1 DEF P!Has
  <2> QED
    BY <1>2, <2>1 DEF RetInv, NothingDangles
<1>5. GoneWhole'
  <2> SUFFICES ASSUME purge.at \in Ends PROVE GoneWhole'
    BY <1>2 DEF GoneWhole
  <2>1. \A u, x : P!Has(u, x)' <=> P!Has(u, x) \/ (u = "messages" /\ x = t)
    BY <1>1 DEF P!Has
  <2>2. t = purge.tenant => /\ <<"conversations", t>> \notin purge.gone
                            /\ <<"contacts", t>> \notin purge.gone
    BY <1>2 DEF RetInv, GoneWhole, P!Purged
  <2> DEFINE x == purge.tenant
             c == <<"contacts", x>> \in purge.gone
             v == <<"conversations", x>> \in purge.gone
  <2>a. /\ \A u \in P!Purged : c /\ P!Has(u, x) => <<u, x>> \in purge.gone
        /\ \A u \in {"messages", "ai_conversation_contexts"} :
               v /\ P!Has(u, x) => <<u, x>> \in purge.gone
    BY DEF RetInv, GoneWhole
  <2>b. x' = x /\ (t = x => ~c /\ ~v)
    BY <1>2, <2>2
  <2>3. \A u \in P!Purged : c /\ P!Has(u, x)' => <<u, x>> \in purge.gone
    <3> HIDE DEF x, c, v
    <3> QED
      BY <2>1, <2>a, <2>b
  <2>4. \A u \in {"messages", "ai_conversation_contexts"} :
           v /\ P!Has(u, x)' => <<u, x>> \in purge.gone
    <3> HIDE DEF x, c, v
    <3> QED
      BY <2>1, <2>a, <2>b
  <2>5. \A r \in purge.gone : r \in rows' /\ r[1] \in P!Purged /\ r = <<r[1], purge.tenant>>
    BY <1>1 DEF RetInv, GoneWhole
  <2> QED
    BY <1>2, <2>3, <2>4, <2>5 DEF GoneWhole
<1>6. ChosenDue'
  <2> SUFFICES ASSUME purge.at \in Ends PROVE ChosenDue'
    BY <1>2 DEF ChosenDue
  <2> DEFINE c == <<"conversations", purge.tenant>>
  <2>1. t # purge.tenant => age'[c] = age[c]
    <3>1. c \in P!Row
      BY PurgeKinds DEF RetInv, Works, P!Row, P!Purged
    <3>2. t # purge.tenant => c # <<"conversations", t>> /\ c # <<"messages", t>>
      OBVIOUS
    <3> HIDE DEF c
    <3>3. age \in [P!Row -> {"fresh", "old"}]
      BY DEF RetInv, RetTypes, P!TypeOK
    <3> QED
      BY <1>1, <3>1, <3>2, <3>3
  <2>2. t = purge.tenant => c \notin purge.gone
    BY <1>2
  <2> QED
    BY <1>1, <1>2, <2>1, <2>2 DEF RetInv, ChosenDue
<1> QED
  BY <1>2, <1>3, <1>4, <1>5, <1>6 DEF RetInv

LEMMA SetStatusInv == ASSUME RetInv, NEW t \in Tenants, P!SetStatus(t) PROVE RetInv'
<1>1. /\ P!Touch("conversations", t) /\ UNCHANGED <<rows, age, deleted>>
      /\ status' = [status EXCEPT ![t] = IF @ = "open" THEN "closed" ELSE "open"]
  BY DEF P!SetStatus
<1>2. /\ P!Has("conversations", t) /\ UNCHANGED <<purge, counted, entry>>
      /\ purge.at \in Ends => <<"conversations", t>> \notin purge.gone
      /\ met' \in BOOLEAN /\ (met => met')
      /\ purge.at = "select" /\ t = purge.tenant => met'
      /\ NoneForgotten' /\ Counting' /\ P!EntriesCover'
  BY <1>1, Touched
<1>3. RetTypes'
  BY <1>1, <1>2 DEF RetInv, RetTypes, P!TypeOK
<1>4. NothingDangles'
  BY <1>1 DEF RetInv, NothingDangles, P!Has
<1>5. GoneWhole'
  BY <1>1, <1>2 DEF RetInv, GoneWhole, P!Has
<1>6. ChosenDue'
  <2> SUFFICES ASSUME purge.at \in Ends PROVE ChosenDue'
    BY <1>2 DEF ChosenDue
  <2>1. t # purge.tenant => status'[purge.tenant] = status[purge.tenant]
    BY <1>1 DEF RetInv, RetTypes, P!TypeOK
  <2> QED
    BY <1>1, <1>2, <2>1 DEF RetInv, ChosenDue
<1> QED
  BY <1>2, <1>3, <1>4, <1>5, <1>6 DEF RetInv

LEMMA DeleteContactInv == ASSUME RetInv, NEW t \in Tenants, P!DeleteContact(t) PROVE RetInv'
<1>1. /\ P!Touch("contacts", t) /\ UNCHANGED <<rows, status>>
      /\ deleted' = deleted \cup {t} /\ age' = [age EXCEPT ![<<"contacts", t>>] = "fresh"]
  BY DEF P!DeleteContact
<1>2. /\ UNCHANGED <<purge, counted, entry>> /\ met' \in BOOLEAN /\ (met => met')
      /\ NoneForgotten' /\ Counting' /\ P!EntriesCover'
  BY <1>1, Touched
<1>3. RetTypes'
  BY <1>1, <1>2 DEF RetInv, RetTypes, P!TypeOK
<1>4. NothingDangles'
  BY <1>1 DEF RetInv, NothingDangles, P!Has
<1>5. GoneWhole'
  BY <1>1, <1>2 DEF RetInv, GoneWhole, P!Has
<1>6. ChosenDue'
  <2>1. \A u : age'[<<"conversations", u>>] = age[<<"conversations", u>>]
    BY <1>1 DEF RetInv, RetTypes, P!TypeOK
  <2> QED
    BY <1>1, <1>2, <2>1 DEF RetInv, ChosenDue
<1> QED
  BY <1>2, <1>3, <1>4, <1>5, <1>6 DEF RetInv

LEMMA GrowInv ==
  ASSUME RetInv, NEW t \in Tenants, NEW table \in P!Purged, P!Grow(table, t) PROVE RetInv'
<1>1. /\ purge = P!Idle /\ age' = [age EXCEPT ![<<table, t>>] = "old"]
      /\ UNCHANGED <<rows, status, deleted, purge, counted, entry, met>>
  BY DEF P!Grow
<1>2. purge'.at = "idle"
  BY <1>1 DEF P!Idle
<1>3. RetTypes'
  <2>1. age' \in [P!Row -> {"fresh", "old"}]
    BY <1>1 DEF RetInv, RetTypes, P!TypeOK
  <2> QED
    BY <1>1, <2>1 DEF RetInv, RetTypes, P!TypeOK
<1>4. NothingDangles' /\ P!EntriesCover'
  BY <1>1 DEF RetInv, NothingDangles, P!Has, P!EntriesCover
<1>5. NoneForgotten' /\ GoneWhole' /\ ChosenDue' /\ Counting'
  BY <1>2 DEF NoneForgotten, GoneWhole, ChosenDue, Counting, Ends
<1> QED
  BY <1>3, <1>4, <1>5 DEF RetInv

-----------------------------------------------------------------------------
(* The run.                                                                 *)

(* A run that starts, over or for the first time, has every tenant to do.   *)
LEMMA StartsInv == ASSUME RetInv, P!Begin \/ P!LoseWorker PROVE RetInv'
<1> DEFINE run == [at |-> "next", left |-> Tenants, done |-> {}, failed |-> {}]
<1>1. /\ purge' = run /\ counted' = 0 /\ met' = FALSE
      /\ UNCHANGED <<rows, age, status, deleted, entry>>
  BY DEF P!Begin, P!LoseWorker, P!Starts, P!Frame
<1>2. run \in Runs /\ run.at = "next" /\ run.left \cup run.done \cup run.failed = Tenants
  BY DEF Runs
<1> HIDE DEF run
<1>3. RetTypes'
  BY <1>1, <1>2 DEF RetInv, RetTypes, P!TypeOK
<1>4. NothingDangles' /\ P!EntriesCover'
  BY <1>1 DEF RetInv, NothingDangles, P!Has, P!EntriesCover
<1>5. NoneForgotten' /\ GoneWhole' /\ ChosenDue' /\ Counting'
  BY <1>1, <1>2 DEF NoneForgotten, GoneWhole, ChosenDue, Counting, Ends
<1> QED
  BY <1>3, <1>4, <1>5 DEF RetInv

LEMMA EndInv == ASSUME RetInv, P!End \/ P!GiveUp PROVE RetInv'
<1>1. /\ purge' = P!Idle
      /\ purge'.at = "idle"
      /\ UNCHANGED <<rows, age, status, deleted, counted, entry, met>>
  BY DEF P!End, P!GiveUp, P!Answer, P!Frame, P!Idle
<1>2. RetTypes'
  BY <1>1 DEF RetInv, RetTypes, P!TypeOK
<1>3. NothingDangles' /\ P!EntriesCover'
  BY <1>1 DEF RetInv, NothingDangles, P!Has, P!EntriesCover
<1>4. NoneForgotten' /\ GoneWhole' /\ ChosenDue' /\ Counting'
  BY <1>1 DEF NoneForgotten, GoneWhole, ChosenDue, Counting, Ends
<1> QED
  BY <1>2, <1>3, <1>4 DEF RetInv

(* What the deletion of a row takes: nothing that is kept.                  *)
Thread == {"conversations", "messages", "ai_conversation_contexts"}

LEMMA WhatIsGone ==
  ASSUME RetTypes, NEW t, NEW r
  PROVE  /\ r \in P!Gone("contacts", t) <=> (r \in rows /\ r = <<r[1], t>> /\ r[1] \in P!Purged)
         /\ r \in P!Gone("conversations", t) <=> (r \in rows /\ r = <<r[1], t>> /\ r[1] \in Thread)
         /\ r \in P!Gone("ai_conversation_contexts", t) <=>
               (r \in rows /\ r = <<"ai_conversation_contexts", t>>)
<1>1. /\ P!Followers["contacts"] = {"contacts"} \cup Dependants \cup Threads
      /\ P!Followers["conversations"] = {"conversations"} \cup Threads
      /\ P!Followers["ai_conversation_contexts"] = {"ai_conversation_contexts"}
  BY WhatGoes DEF P!Followers, P!Purged
<1>2. \A table : r \in P!Gone(table, t) <=> r \in rows /\ \E u \in P!Followers[table] : r = <<u, t>>
  BY DEF P!Gone
<1>3. r \in rows => r[1] \in P!Kept \cup P!Purged
  BY DEF RetTypes, P!TypeOK, P!Row
<1>4. \A u : r = <<u, t>> => r[1] = u
  OBVIOUS
<1>5. (P!Kept \cup P!Purged) \cap P!Followers["contacts"] = P!Purged
  BY <1>1 DEF P!Kept, P!Purged, Dependants, Threads
<1>6. (P!Kept \cup P!Purged) \cap P!Followers["conversations"] = Thread
  BY <1>1 DEF P!Kept, P!Purged, Thread, Threads
<1>7. r \in P!Gone("contacts", t) <=> r \in rows /\ r = <<r[1], t>> /\ r[1] \in P!Purged
  BY <1>2, <1>3, <1>4, <1>5
<1>8. r \in P!Gone("conversations", t) <=> r \in rows /\ r = <<r[1], t>> /\ r[1] \in Thread
  BY <1>2, <1>3, <1>4, <1>6
<1>9. r \in P!Gone("ai_conversation_contexts", t) <=>
         r \in rows /\ r = <<"ai_conversation_contexts", t>>
  BY <1>1, <1>2
<1> QED
  BY <1>7, <1>8, <1>9

(* A transaction that has deleted more: its rows, with all that hangs on    *)
(* them.                                                                    *)
LEMMA GoneGrows ==
  ASSUME RetInv, purge.at \in Ends, NEW more,
         \/ more = P!Gone("contacts", purge.tenant)
         \/ more = P!Gone("conversations", purge.tenant)
         \/ more = P!Gone("ai_conversation_contexts", purge.tenant)
         \/ more = {},
         UNCHANGED rows, purge'.tenant = purge.tenant, purge'.gone = purge.gone \cup more
  PROVE  GoneWhole' /\ purge'.gone \subseteq P!Row
<1> DEFINE t == purge.tenant
<1>1. \A r \in more : r \in rows /\ r[1] \in P!Purged /\ r = <<r[1], t>>
  <2>1. Thread \subseteq P!Purged /\ "ai_conversation_contexts" \in P!Purged
    BY DEF Thread, P!Purged
  <2> QED
    BY <2>1, WhatIsGone DEF RetInv
<1>2. \A u \in P!Purged : <<"contacts", t>> \in more /\ P!Has(u, t) => <<u, t>> \in more
  BY WhatIsGone DEF RetInv, P!Has, Thread
<1>3. \A u \in {"messages", "ai_conversation_contexts"} :
         <<"conversations", t>> \in more /\ P!Has(u, t) => <<u, t>> \in more
  BY WhatIsGone DEF RetInv, P!Has, Thread, P!Purged
<1>4. GoneWhole'
  BY <1>1, <1>2, <1>3 DEF RetInv, GoneWhole, P!Has
<1>5. purge'.gone \subseteq P!Row
  BY <1>1 DEF RetInv, GoneWhole, RetTypes, P!TypeOK
<1> QED
  BY <1>4, <1>5

LEMMA DeleteContactsInv == ASSUME RetInv, NEW t \in Tenants, P!DeleteContacts(t) PROVE RetInv'
<1> DEFINE g == IF t \in deleted /\ P!Old("contacts", t) THEN P!Gone("contacts", t) ELSE {}
           run == [at |-> "contacts", tenant |-> t, left |-> purge.left \ {t},
                   done |-> purge.done, failed |-> purge.failed, gone |-> g,
                   chosen |-> FALSE, hits |-> 0]
<1>1. /\ purge.at = "next" /\ t \in purge.left /\ purge' = run /\ met' = FALSE
      /\ UNCHANGED <<rows, age, status, deleted, counted, entry>>
  BY DEF P!DeleteContacts, P!Frame
<1>2. purge \in Runs
  BY <1>1, PurgeKinds DEF RetInv
<1>3. \A r \in g : r \in rows /\ r[1] \in P!Purged /\ r = <<r[1], t>>
  BY WhatIsGone DEF RetInv
<1>4. \A u \in P!Purged : <<"contacts", t>> \in g /\ P!Has(u, t) => <<u, t>> \in g
  BY WhatIsGone DEF RetInv, P!Has
<1>5. <<"conversations", t>> \in g => <<"contacts", t>> \in g
  BY WhatIsGone DEF RetInv, P!Has, NothingDangles, P!Old, P!Purged
<1>6. g \in SUBSET P!Row
  BY <1>3 DEF RetInv, RetTypes, P!TypeOK
<1> HIDE DEF g
<1>7. run \in Works
  BY <1>2, <1>6 DEF Works, Runs, Ends
<1>8. /\ run.at = "contacts" /\ run.tenant = t /\ run.gone = g /\ run.hits = 0
      /\ run.left = purge.left \ {t} /\ run.done = purge.done /\ run.failed = purge.failed
  OBVIOUS
<1> HIDE DEF run
<1>9. RetTypes'
  BY <1>1, <1>7 DEF RetInv, RetTypes, P!TypeOK
<1>10. NothingDangles' /\ P!EntriesCover'
  BY <1>1 DEF RetInv, NothingDangles, P!Has, P!EntriesCover
<1>11. NoneForgotten'
  BY <1>1, <1>8 DEF RetInv, NoneForgotten, Ends
<1>12. GoneWhole'
  <2>1. \A u \in {"messages", "ai_conversation_contexts"} :
           <<"conversations", t>> \in g /\ P!Has(u, t) => <<u, t>> \in g
    BY <1>4, <1>5 DEF P!Purged
  <2>2. \A u, x : P!Has(u, x)' <=> P!Has(u, x)
    BY <1>1 DEF P!Has
  <2> QED
    BY <1>1, <1>3, <1>4, <1>8, <2>1, <2>2 DEF GoneWhole
<1>13. ChosenDue' /\ Counting'
  BY <1>1, <1>5, <1>8 DEF ChosenDue, Counting, RetInv, RetTypes
<1> QED
  BY <1>9, <1>10, <1>11, <1>12, <1>13 DEF RetInv

(* A transaction that goes on.                                              *)
LEMMA GoesOn ==
  ASSUME RetInv, purge.at \in Ends, purge' \in Works, purge'.at \in Ends,
         /\ purge'.tenant = purge.tenant /\ purge'.left = purge.left
         /\ purge'.done = purge.done /\ purge'.failed = purge.failed,
         UNCHANGED <<rows, age, status, deleted, entry, met>>, counted' \in Nat
  PROVE  /\ RetTypes' /\ NoneForgotten' /\ NothingDangles' /\ P!EntriesCover'
<1>1. RetTypes'
  BY DEF RetInv, RetTypes, P!TypeOK
<1>2. NothingDangles' /\ P!EntriesCover'
  BY DEF RetInv, NothingDangles, P!Has, P!EntriesCover
<1>3. NoneForgotten'
  <2>1. "next" \notin Ends
    BY DEF Ends
  <2> QED
    BY <2>1 DEF RetInv, NoneForgotten
<1> QED
  BY <1>1, <1>2, <1>3

LEMMA SelectInv == ASSUME RetInv, P!SelectConversations PROVE RetInv'
<1> DEFINE due == P!Due(purge.tenant)
<1>1. /\ purge.at = "contacts" /\ purge' = [purge EXCEPT !.at = "select", !.chosen = due]
      /\ UNCHANGED <<rows, age, status, deleted, counted, entry, met>>
  BY DEF P!SelectConversations, P!Frame
<1>2. purge \in Works /\ due \in BOOLEAN
  BY <1>1, PurgeKinds DEF RetInv, Ends, P!Due, P!Old, P!Has
<1>3. due => status[purge.tenant] = "closed" /\ age[<<"conversations", purge.tenant>>] = "old"
  BY DEF P!Due, P!Old
<1> HIDE DEF due
<1>4. /\ purge' \in Works /\ purge'.at = "select" /\ purge'.chosen = due
      /\ purge'.tenant = purge.tenant /\ purge'.left = purge.left /\ purge'.hits = purge.hits
      /\ purge'.done = purge.done /\ purge'.failed = purge.failed /\ purge'.gone = purge.gone
  BY <1>1, <1>2 DEF Works, Ends
<1>5. /\ RetTypes' /\ NoneForgotten' /\ NothingDangles' /\ P!EntriesCover'
  BY <1>1, <1>4, GoesOn DEF RetInv, RetTypes, Ends
<1>6. GoneWhole' /\ Counting'
  BY <1>1, <1>4 DEF RetInv, GoneWhole, Counting, P!Has, Ends
<1>7. ChosenDue'
  BY <1>1, <1>3, <1>4 DEF RetInv, ChosenDue, Ends
<1> QED
  BY <1>5, <1>6, <1>7 DEF RetInv

LEMMA DeleteConversationsInv == ASSUME RetInv, P!DeleteConversations PROVE RetInv'
<1> DEFINE t == purge.tenant
           more == IF purge.chosen THEN P!Gone("conversations", t) ELSE {}
           g == IF purge.chosen THEN purge.gone \cup P!Gone("conversations", t) ELSE purge.gone
           n == IF purge.chosen THEN 1 ELSE 0
<1>1. /\ purge.at = "select"
      /\ purge' = [purge EXCEPT !.at = "delete", !.gone = g, !.hits = n]
      /\ counted' = counted + n
      /\ UNCHANGED <<rows, age, status, deleted, entry, met>>
  BY DEF P!DeleteConversations, P!Frame, RetInv, RetTypes
<1>2. purge \in Works /\ n \in {0, 1} /\ g = purge.gone \cup more
  BY <1>1, PurgeKinds DEF RetInv, Ends
<1>3. g \in SUBSET P!Row
  BY <1>2, WhatIsGone DEF Works, RetInv, RetTypes, P!TypeOK
<1>4. \/ more = P!Gone("conversations", t)
      \/ more = {}
  OBVIOUS
<1>5. <<"conversations", t>> \in more => purge.chosen
  OBVIOUS
<1> HIDE DEF g, n, more
<1>6. /\ purge' \in Works /\ purge'.at = "delete" /\ purge'.gone = g /\ purge'.hits = n
      /\ purge'.tenant = t /\ purge'.left = purge.left
      /\ purge'.done = purge.done /\ purge'.failed = purge.failed
  BY <1>1, <1>2, <1>3 DEF Works, Ends
<1>7. counted' \in Nat /\ counted' >= n
  BY <1>1, <1>2 DEF RetInv, RetTypes
<1>8. /\ RetTypes' /\ NoneForgotten' /\ NothingDangles' /\ P!EntriesCover'
  BY <1>1, <1>6, <1>7, GoesOn DEF Ends
<1>9. GoneWhole'
  BY <1>1, <1>2, <1>4, <1>6, GoneGrows DEF Ends
<1>10. Counting'
  BY <1>6, <1>7 DEF Counting
<1>11. ChosenDue'
  <2>1. /\ purge.chosen => \/ status[t] = "closed" /\ age[<<"conversations", t>>] = "old"
                           \/ met
        /\ <<"conversations", t>> \in purge.gone => <<"contacts", t>> \in purge.gone
    BY <1>1 DEF RetInv, ChosenDue, Ends
  <2> QED
    BY <1>1, <1>2, <1>5, <1>6, <2>1 DEF ChosenDue
<1> QED
  BY <1>8, <1>9, <1>10, <1>11 DEF RetInv

LEMMA DeleteContextsInv == ASSUME RetInv, P!DeleteContexts PROVE RetInv'
<1> DEFINE t == purge.tenant
           more == IF P!Old("ai_conversation_contexts", t)
                   THEN P!Gone("ai_conversation_contexts", t) ELSE {}
           g == IF P!Old("ai_conversation_contexts", t)
                THEN purge.gone \cup P!Gone("ai_conversation_contexts", t) ELSE purge.gone
<1>1. /\ purge.at = "delete"
      /\ purge' = [purge EXCEPT !.at = "contexts", !.gone = g]
      /\ UNCHANGED <<rows, age, status, deleted, counted, entry, met>>
  BY DEF P!DeleteContexts, P!Frame
<1>2. purge \in Works /\ g = purge.gone \cup more
  BY <1>1, PurgeKinds DEF RetInv, Ends
<1>3. g \in SUBSET P!Row
  BY <1>2, WhatIsGone DEF Works, RetInv, RetTypes, P!TypeOK
<1>4. \/ more = P!Gone("ai_conversation_contexts", t)
      \/ more = {}
  OBVIOUS
<1>5. <<"conversations", t>> \notin more
  BY WhatIsGone DEF RetInv
<1> HIDE DEF g, more
<1>6. /\ purge' \in Works /\ purge'.at = "contexts" /\ purge'.gone = g
      /\ purge'.tenant = t /\ purge'.left = purge.left /\ purge'.hits = purge.hits
      /\ purge'.done = purge.done /\ purge'.failed = purge.failed
  BY <1>1, <1>2, <1>3 DEF Works, Ends
<1>7. /\ RetTypes' /\ NoneForgotten' /\ NothingDangles' /\ P!EntriesCover'
  BY <1>1, <1>6, GoesOn DEF RetInv, RetTypes, Ends
<1>8. GoneWhole'
  BY <1>1, <1>2, <1>4, <1>6, GoneGrows DEF Ends
<1>9. Counting'
  BY <1>1, <1>6 DEF RetInv, Counting, Ends
<1>10. ChosenDue'
  <2>1. <<"conversations", t>> \in purge.gone =>
           \/ <<"contacts", t>> \in purge.gone
           \/ status[t] = "closed" /\ age[<<"conversations", t>>] = "old"
           \/ met
    BY <1>1 DEF RetInv, ChosenDue, Ends
  <2> QED
    BY <1>1, <1>2, <1>5, <1>6, <2>1 DEF ChosenDue
<1> QED
  BY <1>7, <1>8, <1>9, <1>10 DEF RetInv

LEMMA CommitTenantInv == ASSUME RetInv, P!CommitTenant PROVE RetInv'
<1> DEFINE t == purge.tenant
           run == [at |-> "next", left |-> purge.left, done |-> purge.done \cup {t},
                   failed |-> purge.failed]
           e == [says |-> counted, did |-> purge.hits]
<1>1. /\ purge.at = "contexts" /\ rows' = rows \ purge.gone /\ purge' = run
      /\ deleted' \subseteq deleted /\ entry' = [entry EXCEPT ![t] = e]
      /\ UNCHANGED <<age, status, counted, met>>
  BY DEF P!CommitTenant
<1>2. purge \in Works
  BY <1>1, PurgeKinds DEF RetInv, Ends
<1>3. /\ run \in Runs /\ run.at = "next"
      /\ run.left \cup run.done \cup run.failed = Tenants
  BY <1>1, <1>2 DEF RetInv, NoneForgotten, Works, Runs, Ends
<1>4. e \in [says : Nat, did : Nat] /\ e.says >= e.did
  BY <1>1, <1>2 DEF RetInv, RetTypes, Counting, Works, Ends
<1> HIDE DEF run, e
<1>5. RetTypes'
  <2>1. entry' \in [Tenants -> [says : Nat, did : Nat]]
    BY <1>1, <1>4 DEF RetInv, RetTypes
  <2> QED
    BY <1>1, <1>3, <2>1 DEF RetInv, RetTypes, P!TypeOK
<1>6. NothingDangles'
  <2> SUFFICES ASSUME NEW x \in Tenants
               PROVE  /\ P!Has("conversations", x)' => P!Has("contacts", x)'
                      /\ P!Has("messages", x)' => P!Has("conversations", x)'
                      /\ P!Has("ai_conversation_contexts", x)' => P!Has("conversations", x)'
    BY DEF NothingDangles
  <2>1. \A u : P!Has(u, x)' <=> P!Has(u, x) /\ <<u, x>> \notin purge.gone
    BY <1>1 DEF P!Has
  <2>2. x # t => \A u : <<u, x>> \notin purge.gone
    BY <1>1 DEF RetInv, GoneWhole, Ends
  <2>3. /\ <<"contacts", t>> \in purge.gone /\ P!Has("conversations", t)
              => <<"conversations", t>> \in purge.gone
        /\ \A u \in {"messages", "ai_conversation_contexts"} :
              <<"conversations", t>> \in purge.gone /\ P!Has(u, t) => <<u, t>> \in purge.gone
    BY <1>1 DEF RetInv, GoneWhole, Ends, P!Purged
  <2> QED
    BY <2>1, <2>2, <2>3 DEF RetInv, NothingDangles
<1>7. NoneForgotten' /\ GoneWhole' /\ ChosenDue' /\ Counting'
  BY <1>1, <1>3 DEF NoneForgotten, GoneWhole, ChosenDue, Counting, Ends
<1>8. P!EntriesCover'
  BY <1>1, <1>2, <1>4 DEF RetInv, RetTypes, P!EntriesCover, Works
<1> QED
  BY <1>5, <1>6, <1>7, <1>8 DEF RetInv

LEMMA FailTenantInv == ASSUME RetInv, P!FailTenant PROVE RetInv'
<1> DEFINE run == [at |-> "next", left |-> purge.left, done |-> purge.done,
                   failed |-> purge.failed \cup {purge.tenant}]
<1>1. /\ purge.at \in Ends /\ purge' = run
      /\ UNCHANGED <<rows, age, status, deleted, counted, entry, met>>
  BY DEF P!FailTenant, P!Frame, Ends
<1>2. purge \in Works
  BY <1>1, PurgeKinds DEF RetInv
<1>3. /\ run \in Runs /\ run.at = "next"
      /\ run.left \cup run.done \cup run.failed = Tenants
  BY <1>1, <1>2 DEF RetInv, NoneForgotten, Works, Runs
<1> HIDE DEF run
<1>4. RetTypes'
  BY <1>1, <1>3 DEF RetInv, RetTypes, P!TypeOK
<1>5. NothingDangles' /\ P!EntriesCover'
  BY <1>1 DEF RetInv, NothingDangles, P!Has, P!EntriesCover
<1>6. NoneForgotten' /\ GoneWhole' /\ ChosenDue' /\ Counting'
  BY <1>1, <1>3 DEF NoneForgotten, GoneWhole, ChosenDue, Counting, Ends
<1> QED
  BY <1>4, <1>5, <1>6 DEF RetInv

LEMMA RetNext == RetInv /\ [P!Next]_(P!vars) => RetInv'
<1> SUFFICES ASSUME RetInv, [P!Next]_(P!vars) PROVE RetInv'
  OBVIOUS
<1>1. ASSUME NEW t \in Tenants,
             \/ P!Message(t) \/ P!SetStatus(t) \/ P!DeleteContact(t) \/ P!DeleteContacts(t)
             \/ \E table \in P!Purged \ {"messages"} : P!Grow(table, t)
      PROVE  RetInv'
  BY <1>1, MessageInv, SetStatusInv, DeleteContactInv, DeleteContactsInv, GrowInv
<1>2. CASE P!Begin \/ P!SelectConversations \/ P!DeleteConversations \/ P!DeleteContexts
           \/ P!CommitTenant \/ P!FailTenant \/ P!End \/ P!GiveUp \/ P!LoseWorker
  BY <1>2, StartsInv, SelectInv, DeleteConversationsInv, DeleteContextsInv, CommitTenantInv,
     FailTenantInv, EndInv
<1>3. CASE UNCHANGED P!vars
  <2>1. UNCHANGED <<rows, age, status, deleted, purge, counted, entry, met>>
    BY <1>3 DEF P!vars
  <2>2. RetTypes'
    BY <2>1 DEF RetInv, RetTypes, P!TypeOK
  <2>3. NoneForgotten' /\ Counting' /\ P!EntriesCover'
    BY <2>1 DEF RetInv, NoneForgotten, Counting, P!EntriesCover
  <2>4. NothingDangles' /\ GoneWhole'
    BY <2>1 DEF RetInv, NothingDangles, GoneWhole, P!Has
  <2>5. ChosenDue'
    BY <2>1 DEF RetInv, ChosenDue
  <2> QED
    BY <2>2, <2>3, <2>4, <2>5 DEF RetInv
<1> QED
  BY <1>1, <1>2, <1>3 DEF P!Next

LEMMA TriedInit == P!Init => TriedInv
<1> SUFFICES ASSUME P!Init PROVE TriedInv
  OBVIOUS
<1>1. purge.at = "idle" /\ answered.says = "none"
  BY DEF P!Init, P!Idle, P!NoAnswer
<1> QED
  BY <1>1 DEF TriedInv, P!EveryTenantTried, Ends

(* An answer states what was tried when it was given; a new run takes it    *)
(* back.                                                                    *)
LEMMA TriedNext == RetInv /\ TriedInv /\ [P!Next]_(P!vars) => TriedInv'
<1> SUFFICES ASSUME RetInv, TriedInv, [P!Next]_(P!vars) PROVE TriedInv'
  OBVIOUS
<1>1. purge \in {P!Idle} \cup Runs \cup Works
  BY DEF RetInv, RetTypes
<1>2. CASE UNCHANGED <<purge, unreadable, answered>>
  BY <1>2 DEF TriedInv, P!EveryTenantTried
<1>3. CASE P!Starts
  <2>1. purge'.at = "next" /\ purge'.done = {} /\ purge'.failed = {} /\ answered'.says = "none"
    BY <1>3 DEF P!Starts, P!NoAnswer
  <2> QED
    BY <2>1 DEF TriedInv, P!EveryTenantTried, Ends
<1>4. ASSUME NEW t \in Tenants, P!DeleteContacts(t) PROVE TriedInv'
  <2>1. /\ purge.at = "next" /\ t \in purge.left
        /\ purge'.at = "contacts" /\ purge'.tenant = t /\ purge'.left = purge.left \ {t}
        /\ purge'.done = purge.done /\ purge'.failed = purge.failed
        /\ UNCHANGED <<unreadable, answered>>
    BY <1>4 DEF P!DeleteContacts
  <2> QED
    BY <2>1 DEF TriedInv, P!EveryTenantTried, Ends
<1>5. CASE P!SelectConversations \/ P!DeleteConversations \/ P!DeleteContexts
  <2>1. purge.at \in Ends /\ purge \in Works /\ UNCHANGED <<unreadable, answered>>
    BY <1>1, <1>5 DEF P!SelectConversations, P!DeleteConversations, P!DeleteContexts, Ends,
                      P!Idle, Runs, Works
  <2>2. /\ purge'.at \in Ends /\ purge'.tenant = purge.tenant /\ purge'.left = purge.left
        /\ purge'.done = purge.done /\ purge'.failed = purge.failed
    BY <1>5, <2>1 DEF P!SelectConversations, P!DeleteConversations, P!DeleteContexts, Ends, Works
  <2> QED
    BY <2>1, <2>2 DEF TriedInv, P!EveryTenantTried
<1>6. CASE P!CommitTenant \/ P!FailTenant
  <2>1. /\ purge.at \in Ends /\ UNCHANGED <<unreadable, answered>>
        /\ purge'.at = "next" /\ purge'.left = purge.left
        /\ purge'.done \cup purge'.failed = purge.done \cup purge.failed \cup {purge.tenant}
    BY <1>6 DEF P!CommitTenant, P!FailTenant, Ends
  <2> QED
    BY <2>1 DEF TriedInv, P!EveryTenantTried, Ends
<1>7. CASE P!End \/ P!GiveUp
  <2>1. /\ purge.at = "next" /\ purge'.at = "idle" /\ UNCHANGED unreadable
        /\ answered'.tried = purge.done \cup purge.failed
    BY <1>7 DEF P!End, P!GiveUp, P!Answer, P!Idle, P!Frame
  <2>2. purge.left \cup purge.done \cup purge.failed = Tenants
    BY <2>1 DEF RetInv, NoneForgotten
  <2>3. (purge.done \cup purge.failed) \cap purge.left = {}
    BY <2>1 DEF TriedInv
  <2>4. CASE P!End
    <3>1. answered'.says = "ok" /\ purge.left = {}
      BY <2>4 DEF P!End, P!Answer
    <3> QED
      BY <2>1, <2>2, <3>1 DEF TriedInv, P!EveryTenantTried, Ends
  <2>5. CASE P!GiveUp
    <3>1. answered'.says = "error" /\ (purge.left = Tenants \/ purge.left \cap unreadable # {})
      BY <2>5 DEF P!GiveUp, P!Answer
    <3> QED
      BY <2>1, <2>2, <2>3, <3>1 DEF TriedInv, P!EveryTenantTried, Ends
  <2> QED
    BY <1>7, <2>4, <2>5
<1>8. CASE \E t \in Tenants : \/ P!Message(t) \/ P!SetStatus(t) \/ P!DeleteContact(t)
                              \/ \E table \in P!Purged \ {"messages"} : P!Grow(table, t)
  BY <1>2, <1>8 DEF P!Message, P!SetStatus, P!DeleteContact, P!Touch, P!Grow
<1> QED
  BY <1>2, <1>3, <1>4, <1>5, <1>6, <1>7, <1>8 DEF P!Next, P!Begin, P!LoseWorker, P!vars

LEMMA PurgesAlone == P!Spec => [](P!TypeOK /\ P!PurgeSound)
<1> QED
  BY RetInit, RetNext, TriedInit, TriedNext, RetImplies, PTL DEF P!Spec

(* Only the commit of a tenant's transaction deletes rows.                  *)
LEMMA KeptStay == RetInv /\ [P!Next]_(P!vars) => [\A r \in rows : r[1] \in P!Kept => r \in rows']_rows
<1> SUFFICES ASSUME RetInv, [P!Next]_(P!vars), rows' # rows, NEW r \in rows, r[1] \in P!Kept
             PROVE  r \in rows'
  OBVIOUS
<1>1. CASE P!CommitTenant
  <2>1. \A x \in purge.gone : x[1] \in P!Purged
    BY <1>1 DEF RetInv, GoneWhole, P!CommitTenant, Ends
  <2>2. P!Purged \cap P!Kept = {}
    BY DEF P!Purged, P!Kept
  <2> QED
    BY <1>1, <2>1, <2>2 DEF P!CommitTenant
<1>2. CASE \E t \in Tenants : P!Message(t)
  BY <1>2 DEF P!Message
<1>3. CASE ~P!CommitTenant /\ ~\E t \in Tenants : P!Message(t)
  BY <1>3 DEF P!Next, P!vars, P!SetStatus, P!DeleteContact, P!DeleteContacts, P!Grow, P!Begin,
              P!SelectConversations, P!DeleteConversations, P!DeleteContexts, P!FailTenant, P!End,
              P!GiveUp, P!LoseWorker, P!Starts, P!Answer, P!Touch
<1> QED
  BY <1>1, <1>2, <1>3

LEMMA KeptAlone == P!Spec => P!RecordsKept
<1> QED
  BY RetInit, RetNext, KeptStay, PTL DEF P!Spec, P!RecordsKept

-----------------------------------------------------------------------------
(* Compliance.                                                              *)

(* What the loop over the grades computes, and what it says of the first k. *)
GradeStep(g, w) ==
    [k \in 0..Len(g) |->
        IF k = 0 THEN "pass"
        ELSE IF w[k - 1] = "fail" THEN "fail"
        ELSE IF g[k] \in {"warn", "fail"} THEN g[k] ELSE w[k - 1]]
WorstOf(g) == CHOOSE w : w = GradeStep(g, w)
Among(g, k) ==
    IF \E j \in 1..k : g[j] = "fail" THEN "fail"
    ELSE IF \E j \in 1..k : g[j] = "warn" THEN "warn" ELSE "pass"

LEMMA WorstIsTheLast == ASSUME NEW g PROVE F!Worst(g) = WorstOf(g)[Len(g)]
  BY Zenon DEF F!Worst, WorstOf, GradeStep

LEMMA LoopStep ==
  ASSUME NEW g, NEW n \in Nat, NEW k \in 1..n, NEW w, w = Among(g, k - 1)
  PROVE  Among(g, k) = IF w = "fail" THEN "fail"
                       ELSE IF g[k] \in {"warn", "fail"} THEN g[k] ELSE w
<1>1. \A j : j \in 1..k <=> j \in 1..(k - 1) \/ j = k
  OBVIOUS
<1> QED
  BY <1>1 DEF Among

LEMMA WorstExists == ASSUME NEW g, Len(g) \in Nat PROVE WorstOf(g) = GradeStep(g, WorstOf(g))
<1> DEFINE h == [k \in 0..Len(g) |-> Among(g, k)]
<1>1. h = GradeStep(g, h)
  <2>1. ASSUME NEW k \in 0..Len(g)
        PROVE  h[k] = (IF k = 0 THEN "pass"
                       ELSE IF h[k - 1] = "fail" THEN "fail"
                       ELSE IF g[k] \in {"warn", "fail"} THEN g[k] ELSE h[k - 1])
    <3>1. CASE k = 0
      BY <3>1 DEF Among
    <3>2. CASE k # 0
      <4>1. k \in 1..Len(g) /\ k - 1 \in 0..Len(g)
        BY <3>2
      <4>2. h[k - 1] = Among(g, k - 1) /\ h[k] = Among(g, k)
        BY <4>1
      <4> HIDE DEF h
      <4> QED
        BY <3>2, <4>1, <4>2, LoopStep
    <3> QED
      BY <3>1, <3>2
  <2>2. h = [k \in 0..Len(g) |-> h[k]]
    OBVIOUS
  <2> HIDE DEF h
  <2> QED
    BY <2>1, <2>2 DEF GradeStep
<1> HIDE DEF h
<1>2. \E w : w = GradeStep(g, w)
  BY <1>1
<1> QED
  BY <1>2, Zenon DEF WorstOf

(* The loop finds the worst of the grades, in whatever order they come.     *)
LEMMA WorstIsWorst == ASSUME NEW g, Len(g) \in Nat PROVE F!Worst(g) = Among(g, Len(g))
<1> DEFINE n == Len(g)
           w == WorstOf(g)
           D == {k \in 0..n : w[k] # Among(g, k)}
<1>1. \A k \in 0..n : w[k] = (IF k = 0 THEN "pass"
                              ELSE IF w[k - 1] = "fail" THEN "fail"
                              ELSE IF g[k] \in {"warn", "fail"} THEN g[k] ELSE w[k - 1])
  <2>1. w = GradeStep(g, w)
    BY WorstExists
  <2> HIDE DEF w
  <2> QED
    BY <2>1 DEF GradeStep
<1>2. F!Worst(g) = w[n]
  BY WorstIsTheLast
<1>3. n \in Nat
  OBVIOUS
<1> HIDE DEF n, w
<1>4. D = {}
  <2> SUFFICES ASSUME D # {} PROVE FALSE
    OBVIOUS
  <2>1. D \subseteq Nat
    BY <1>3
  <2>2. PICK k \in D : \A j \in D : ~ (<<j, k>> \in OpToRel(<, Nat))
    BY <2>1, NatLessThanWellFounded, WFMin
  <2>3. \A j \in D : ~ (j < k)
    BY <2>1, <2>2 DEF OpToRel
  <2>4. k # 0
    BY <1>1, <1>3 DEF Among
  <2>5. k \in 1..n /\ k - 1 \in 0..n /\ k - 1 \notin D
    BY <1>3, <2>1, <2>3, <2>4
  <2>6. w[k - 1] = Among(g, k - 1)
    BY <2>5
  <2>7. Among(g, k) = (IF w[k - 1] = "fail" THEN "fail"
                       ELSE IF g[k] \in {"warn", "fail"} THEN g[k] ELSE w[k - 1])
    BY <1>3, <2>5, <2>6, LoopStep
  <2>8. w[k] = (IF w[k - 1] = "fail" THEN "fail"
                ELSE IF g[k] \in {"warn", "fail"} THEN g[k] ELSE w[k - 1])
    BY <1>1, <1>3, <2>4, <2>5
  <2> QED
    BY <2>7, <2>8
<1> QED
  BY <1>2, <1>3, <1>4 DEF n

-----------------------------------------------------------------------------
(* What is on the page is what the facts give.                              *)
Verdict(g) == [pass |-> "compliant", warn |-> "needs_attention", fail |-> "non_compliant"][F!Worst(g)]

PageInv ==
    /\ F!TypeOK
    /\ page # <<>> => page = F!Grades(facts) /\ overall = Verdict(F!Grades(facts))
    /\ tiers # {} => tiers = IF F!InGcc(facts.endpoint) THEN {1, 2, 3} ELSE {1}

LEMMA PageInit == F!Init => PageInv
  BY DEF F!Init, PageInv, F!TypeOK

LEMMA PageNext == PageInv /\ [F!Next]_(F!vars) => PageInv'
<1> SUFFICES ASSUME PageInv, [F!Next]_(F!vars) PROVE PageInv'
  OBVIOUS
<1>1. CASE F!GetStatus
  BY <1>1 DEF F!GetStatus, PageInv, F!TypeOK, Verdict
<1>2. CASE F!GetClassification
  <2>1. /\ UNCHANGED <<facts, page, overall>>
        /\ tiers' = IF F!InGcc(facts.endpoint) THEN {1, 2, 3} ELSE {1}
    BY <1>2 DEF F!GetClassification
  <2>2. F!TypeOK'
    BY <2>1 DEF PageInv, F!TypeOK
  <2> QED
    BY <2>1, <2>2 DEF PageInv
<1>3. CASE UNCHANGED F!vars
  BY <1>3 DEF F!vars, PageInv, F!TypeOK
<1> QED
  BY <1>1, <1>2, <1>3 DEF F!Next

(* Rounded to a tenth, the rate that passes is 79.95 percent at least.      *)
LEMMA ConsentPasses ==
  ASSUME NEW c \in OptIns, F!Consent(c) = "pass" PROVE 10000 * c[2] >= 7995 * c[1]
<1>1. c[1] \in Nat /\ c[2] \in Nat /\ c[1] # 0 /\ F!Tenths(c) >= 800
  <2>1. c[1] \in Nat /\ c[2] \in Nat
    BY OptInsFit
  <2>2. c[1] # 0 /\ F!Tenths(c) >= 800
    BY DEF F!Consent
  <2> QED
    BY <2>1, <2>2
<1> DEFINE n == c[1]
           m == c[2]
           d == 2 * n
           a == 2000 * m + n
           q == a \div d
<1>2. n \in Nat /\ n > 0 /\ m \in Nat /\ d \in Nat /\ d > 0 /\ a \in Nat /\ q >= 800
  BY <1>1 DEF F!Tenths
<1> HIDE DEF n, m
<1>3. q \in Int /\ d * q <= a
  <2> HIDE DEF d, a
  <2> QED
    BY <1>2
<1>4. d * 800 <= d * q
  <2> HIDE DEF d, a, q
  <2> QED
    BY <1>2, <1>3
<1>5. 2 * n * 800 <= 2000 * m + n
  <2> DEFINE p == d * q
  <2>1. d * 800 <= p /\ p <= a
    BY <1>3, <1>4
  <2>2. p \in Int
    BY <1>2, <1>3
  <2> HIDE DEF p
  <2> QED
    BY <1>2, <2>1, <2>2
<1>6. 10000 * m >= 7995 * n
  BY <1>2, <1>5
<1> QED
  BY <1>6 DEF n, m

LEMMA PageSays == PageInv => F!ComplianceSound
<1> SUFFICES ASSUME PageInv PROVE F!WorstDecides /\ F!PassIsEarned
  BY DEF F!ComplianceSound
<1>0. CASE page = <<>>
  <2>1. F!WorstDecides
    BY <1>0 DEF F!WorstDecides
  <2>2. F!PassIsEarned
    BY <1>0 DEF F!PassIsEarned
  <2> QED
    BY <2>1, <2>2
<1> SUFFICES ASSUME page # <<>> PROVE F!WorstDecides /\ F!PassIsEarned
  BY <1>0
<1> DEFINE g == F!Grades(facts)
<1>1. page = g /\ overall = Verdict(g) /\ facts \in F!Facts
  BY DEF PageInv, F!TypeOK
<1>2. /\ Len(g) = 10 /\ DOMAIN g = 1..10
      /\ g[1] = F!Residency(facts.endpoint) /\ g[4] = F!Consent(facts.contacts)
  BY DEF F!Grades
<1> HIDE DEF g
<1>3. F!Worst(g) = Among(g, 10)
  <2>1. Len(g) \in Nat
    BY <1>2
  <2>2. F!Worst(g) = Among(g, Len(g))
    BY <2>1, WorstIsWorst
  <2> QED
    BY <1>2, <2>2
<1>4. F!WorstDecides
  <2> DEFINE given == {page[k] : k \in DOMAIN page}
  <2>1. \A x : x \in given <=> \E k \in 1..10 : g[k] = x
    BY <1>1, <1>2
  <2> HIDE DEF given
  <2>2. F!Worst(g) = IF "fail" \in given THEN "fail" ELSE IF "warn" \in given THEN "warn" ELSE "pass"
    BY <1>3, <2>1 DEF Among
  <2>3. /\ overall = "compliant" <=> given \cap {"warn", "fail"} = {}
        /\ overall = "non_compliant" <=> "fail" \in given
    BY <1>1, <2>2 DEF Verdict
  <2> QED
    BY <2>3 DEF F!WorstDecides, given
<1>5. F!PassIsEarned
  <2>1. page[1] = "pass" /\ tiers # {} => 3 \in tiers
    BY <1>1, <1>2 DEF PageInv, F!Residency, F!InGcc
  <2>2. page[4] = "pass" => 10000 * facts.contacts[2] >= 7995 * facts.contacts[1]
    BY <1>1, <1>2, ConsentPasses DEF F!Facts
  <2> QED
    BY <2>1, <2>2 DEF F!PassIsEarned
<1> QED
  BY <1>4, <1>5

LEMMA ComplianceAlone == F!Spec => [](F!TypeOK /\ F!ComplianceSound)
<1>1. PageInv => F!TypeOK
  BY DEF PageInv
<1> QED
  BY <1>1, PageInit, PageNext, PageSays, PTL DEF F!Spec

-----------------------------------------------------------------------------
(* Realtime.  Where an event of the bus is, for whom and how often.         *)

Dispatches ==
    [pod : Pods, event : Events, own : BOOLEAN, todo : SUBSET Sockets, dead : SUBSET Sockets]

EventTypes ==
    /\ link \in [Sockets -> {"new", "open", "dead", "closed"}]
    /\ DOMAIN home = Sockets
    /\ registry \in [Pods -> [Users -> [Sockets -> Nat]]]
    /\ subscribed \in [Pods -> {"starting", "on", "broken", "never"}]
    /\ inbox \in [Pods -> Seq(Events)]
    /\ jobs \subseteq Dispatches
    /\ DOMAIN sent = Events
    /\ got \in [Sockets -> [Events -> Nat]]
    /\ owed \in [Sockets -> SUBSET Events]

Queued(q, e) == \E k \in 1..Len(q) : q[k] = e
NoneTwice(q) == \A k, l \in 1..Len(q) : q[k] = q[l] => k = l

(* A socket that was connected has its place, and is listed there alone.    *)
Registered ==
    /\ \A s \in Sockets : link[s] # "new" => home[s].pod \in Pods /\ home[s].user \in Users
    /\ \A s \in Sockets, p \in Pods, u \in Users : registry[p][u][s] > 0 =>
           link[s] # "new" /\ home[s].pod = p /\ home[s].user = u
    /\ \A s \in Sockets : link[s] = "open" => registry[home[s].pod][home[s].user][s] = 1

(* What is read, dispatched, sent or owed was published.                    *)
Untouched(e) ==
    /\ e \notin unsure
    /\ \A p \in Pods : ~Queued(inbox[p], e)
    /\ \A j \in jobs : j.event # e
    /\ \A s \in Sockets : got[s][e] = 0 /\ e \notin owed[s]
Published ==
    /\ \A e \in Events : sent[e] = E!Unsent => Untouched(e)
    /\ \A j \in jobs : j.own => j.pod = sent[j.event].pod

(* A pod reads an event once and dispatches it once as read and once as its *)
(* own; both only if the publish was unsure.                                *)
OneReading ==
    /\ \A p \in Pods : NoneTwice(inbox[p])
    /\ \A i, j \in jobs : i.pod = j.pod /\ i.event = j.event /\ i.own = j.own => i = j
    /\ \A j \in jobs : ~j.own => ~Queued(inbox[j.pod], j.event)
Beside ==
    \A j \in jobs : j.own /\ j.event \notin unsure =>
        /\ \A p \in Pods : ~Queued(inbox[p], j.event)
        /\ \A i \in jobs : i.event = j.event => i.own

(* A dispatch walks over sockets of its pod and company.                    *)
Addressed ==
    /\ \A j \in jobs : \A s \in j.todo :
           /\ link[s] # "new" /\ home[s].pod = j.pod
           /\ sent[j.event].company = CompanyOf[home[s].user]
    /\ \A j \in jobs : \A s \in j.dead : link[s] # "new" /\ link[s] # "open"
    /\ \A s \in Sockets, e \in Events : got[s][e] > 0 =>
           link[s] # "new" /\ sent[e].company = CompanyOf[home[s].user]

(* What socket s had of event e and what is still on its way.               *)
DueTo(e, s, own) ==
    \E j \in jobs : j.pod = home[s].pod /\ j.event = e /\ j.own = own /\ s \in j.todo
Coming(e, s) == Queued(inbox[home[s].pod], e) \/ DueTo(e, s, FALSE)
MayRepeat(e, s) == e \in unsure /\ home[s].pod = sent[e].pod
Tally(e, s) ==
    /\ got[s][e] <= 2
    /\ got[s][e] = 2 => MayRepeat(e, s) /\ ~Coming(e, s) /\ ~DueTo(e, s, TRUE)
    /\ got[s][e] = 1 /\ Coming(e, s) => MayRepeat(e, s) /\ ~DueTo(e, s, TRUE)
    /\ got[s][e] = 1 /\ DueTo(e, s, TRUE) => MayRepeat(e, s)
    /\ Coming(e, s) /\ DueTo(e, s, TRUE) => MayRepeat(e, s)
Tallied == \A s \in Sockets, e \in Events : link[s] # "new" => Tally(e, s)

(* What an open socket is owed, it has or it is on its way.                 *)
Awaited ==
    \A s \in Sockets : \A e \in owed[s] :
        /\ link[s] = "open"
        /\ sent[e].company = CompanyOf[home[s].user]
        /\ got[s][e] > 0 \/ Coming(e, s) \/ DueTo(e, s, TRUE)

EventInv ==
    EventTypes /\ Registered /\ Published /\ OneReading /\ Beside /\ Addressed /\ Tallied /\ Awaited

LEMMA AppendQueued ==
    ASSUME NEW R, NEW q \in Seq(R), NEW x \in R
    PROVE  /\ Append(q, x) \in Seq(R)
           /\ \A e : Queued(Append(q, x), e) <=> Queued(q, e) \/ e = x
           /\ NoneTwice(q) /\ ~Queued(q, x) => NoneTwice(Append(q, x))
<1>1. /\ Append(q, x) \in Seq(R) /\ Len(Append(q, x)) = Len(q) + 1
      /\ \A k \in 1..Len(q) : Append(q, x)[k] = q[k]
      /\ Append(q, x)[Len(q) + 1] = x /\ Len(q) \in Nat
    OBVIOUS
<1>2. ASSUME NEW e
      PROVE  Queued(Append(q, x), e) <=> Queued(q, e) \/ e = x
    BY <1>1 DEF Queued
<1>3. NoneTwice(q) /\ ~Queued(q, x) => NoneTwice(Append(q, x))
    BY <1>1 DEF NoneTwice, Queued
<1> QED BY <1>1, <1>2, <1>3

LEMMA TailQueued ==
    ASSUME NEW R, NEW q \in Seq(R), q # <<>>
    PROVE  /\ Head(q) \in R /\ Tail(q) \in Seq(R)
           /\ \A e : Queued(q, e) <=> Queued(Tail(q), e) \/ e = Head(q)
           /\ NoneTwice(q) => NoneTwice(Tail(q)) /\ ~Queued(Tail(q), Head(q))
<1>1. /\ Head(q) \in R /\ Tail(q) \in Seq(R) /\ Len(Tail(q)) = Len(q) - 1
      /\ \A k \in 1..Len(q) - 1 : Tail(q)[k] = q[k + 1]
      /\ q[1] = Head(q) /\ Len(q) \in Nat /\ Len(q) > 0
    OBVIOUS
<1>2. ASSUME NEW e
      PROVE  Queued(q, e) <=> Queued(Tail(q), e) \/ e = Head(q)
  <2>1. Queued(Tail(q), e) \/ e = Head(q) => Queued(q, e)
      BY <1>1 DEF Queued
  <2>2. ASSUME NEW k \in 1..Len(q), q[k] = e
        PROVE  Queued(Tail(q), e) \/ e = Head(q)
      <3>1. CASE k = 1 BY <2>2, <3>1, <1>1
      <3>2. CASE k # 1
          <4>1. k - 1 \in 1..Len(Tail(q)) /\ Tail(q)[k - 1] = e
              BY <2>2, <3>2, <1>1
          <4> QED BY <4>1 DEF Queued
      <3> QED BY <3>1, <3>2
  <2> QED BY <2>1, <2>2 DEF Queued
<1>3. NoneTwice(q) => NoneTwice(Tail(q)) /\ ~Queued(Tail(q), Head(q))
    BY <1>1 DEF NoneTwice, Queued
<1> QED BY <1>1, <1>2, <1>3

LEMMA EmptyQueued ==
    ASSUME NEW e
    PROVE  ~Queued(<<>>, e)
BY DEF Queued

LEMMA NotUnsent ==
    ASSUME NEW c, NEW p
    PROVE  [company |-> c, pod |-> p] # E!Unsent
<1>1. "pod" \in DOMAIN [company |-> c, pod |-> p]
    OBVIOUS
<1>2. "pod" \notin DOMAIN E!Unsent
    BY DEF E!Unsent
<1> QED BY <1>1, <1>2

LEMMA EventInit == E!Init => EventInv
<1> SUFFICES ASSUME E!Init PROVE EventInv
    OBVIOUS
<1> USE DEF E!Init
<1>1. EventTypes
    BY DEF EventTypes
<1>2. \A p \in Pods : \A e : ~Queued(inbox[p], e)
    BY EmptyQueued
<1>3. Registered BY DEF Registered
<1>4. Published BY <1>2 DEF Published, Untouched
<1>5. OneReading BY DEF OneReading, NoneTwice
<1>6. Beside BY DEF Beside
<1>7. Addressed BY DEF Addressed
<1>8. Tallied BY DEF Tallied
<1>9. Awaited BY DEF Awaited
<1> QED BY <1>1, <1>3, <1>4, <1>5, <1>6, <1>7, <1>8, <1>9 DEF EventInv

(* The invariant gives the properties.                                      *)
LEMMA EventInvSound ==
    ASSUME EventInv
    PROVE  E!EventsSound
<1> USE DEF EventInv
<1>1. E!SentOnce
  <2> SUFFICES ASSUME NEW s \in Sockets, NEW e \in Events, got[s][e] > 0
               PROVE  /\ sent[e].company = CompanyOf[home[s].user]
                      /\ got[s][e] > 1 => e \in unsure /\ home[s].pod = sent[e].pod /\ got[s][e] = 2
      BY DEF E!SentOnce, EventTypes
  <2>1. link[s] # "new" /\ sent[e].company = CompanyOf[home[s].user]
      BY DEF Addressed
  <2>2. Tally(e, s)
      BY <2>1 DEF Tallied
  <2>3. got[s][e] \in Nat
      BY DEF EventTypes
  <2>4. got[s][e] <= 2 /\ (got[s][e] = 2 => MayRepeat(e, s))
      BY <2>2 DEF Tally
  <2>5. got[s][e] > 1 => got[s][e] = 2
      BY <2>3, <2>4
  <2> QED BY <2>1, <2>4, <2>5 DEF MayRepeat
<1>2. E!OpenIsRegistered
    BY DEF E!OpenIsRegistered, Registered
<1>3. E!OwedArrived
  <2> SUFFICES ASSUME NEW s \in Sockets, link[s] = "open", inbox[home[s].pod] = <<>>,
                      \A j \in jobs : j.pod # home[s].pod, NEW e \in owed[s]
               PROVE  got[s][e] > 0
      BY DEF E!OwedArrived
  <2>1. ~Queued(inbox[home[s].pod], e)
      BY EmptyQueued
  <2> QED BY <2>1 DEF Awaited, Coming, DueTo
<1> QED BY <1>1, <1>2, <1>3 DEF E!EventsSound

(* Steps that leave what is counted alone.                                  *)
LEMMA SameDispatches ==
    ASSUME EventInv, UNCHANGED <<link, home, registry, inbox, jobs, sent, unsure, got, owed>>,
           subscribed' \in [Pods -> {"starting", "on", "broken", "never"}]
    PROVE  EventInv'
<1> USE DEF EventInv
<1>1. EventTypes' BY DEF EventTypes
<1>2. Registered' BY DEF Registered
<1>3. Published' BY DEF Published, Untouched
<1>4. OneReading' BY DEF OneReading
<1>5. Beside' BY DEF Beside
<1>6. Addressed' BY DEF Addressed
<1>7. Tallied' BY DEF Tallied, Tally, MayRepeat, Coming, DueTo
<1>8. Awaited' BY DEF Awaited, Coming, DueTo
<1> QED BY <1>1, <1>2, <1>3, <1>4, <1>5, <1>6, <1>7, <1>8 DEF EventInv

LEMMA StartEvent == ASSUME EventInv, NEW p \in Pods, E!Start(p) PROVE EventInv'
<1>1. subscribed' \in [Pods -> {"starting", "on", "broken", "never"}]
    BY DEF EventInv, EventTypes, E!Start
<1> QED BY <1>1, SameDispatches DEF E!Start

LEMMA ResumeEvent == ASSUME EventInv, NEW p \in Pods, E!Resume(p) PROVE EventInv'
<1>1. subscribed' \in [Pods -> {"starting", "on", "broken", "never"}]
    BY DEF EventInv, EventTypes, E!Resume
<1> QED BY <1>1, SameDispatches DEF E!Resume

LEMMA ToggleEvent == ASSUME EventInv, E!Toggle PROVE EventInv'
<1>1. subscribed' \in [Pods -> {"starting", "on", "broken", "never"}]
    BY DEF EventInv, EventTypes, E!Toggle
<1> QED BY <1>1, SameDispatches DEF E!Toggle

LEMMA DropEvent == ASSUME EventInv, NEW s \in Sockets, E!Drop(s) PROVE EventInv'
<1> USE DEF EventInv
<1>1. /\ link[s] = "open" /\ link' = [link EXCEPT ![s] = "dead"]
      /\ owed' = [owed EXCEPT ![s] = {}]
      /\ UNCHANGED <<home, registry, redis, subscribed, inbox, jobs, sent, unsure, got, breaks>>
    BY DEF E!Drop
<1>2. /\ \A r \in Sockets : link'[r] = IF r = s THEN "dead" ELSE link[r]
      /\ \A r \in Sockets : owed'[r] = IF r = s THEN {} ELSE owed[r]
    BY <1>1 DEF EventTypes
<1>3. EventTypes' BY <1>1 DEF EventTypes
<1>4. Registered' BY <1>1, <1>2 DEF Registered
<1>5. Published' BY <1>1, <1>2 DEF Published, Untouched
<1>6. OneReading' BY <1>1 DEF OneReading
<1>7. Beside' BY <1>1 DEF Beside
<1>8. Addressed' BY <1>1, <1>2 DEF Addressed, EventTypes, Dispatches
<1>9. Tallied' BY <1>1, <1>2 DEF Tallied, Tally, MayRepeat, Coming, DueTo
<1>10. Awaited' BY <1>1, <1>2 DEF Awaited, Coming, DueTo
<1> QED BY <1>3, <1>4, <1>5, <1>6, <1>7, <1>8, <1>9, <1>10 DEF EventInv

LEMMA PrunedLists ==
    ASSUME EventTypes, NEW p, NEW D
    PROVE  /\ E!Pruned(p, D) \in [Pods -> [Users -> [Sockets -> Nat]]]
           /\ \A q \in Pods, u \in Users, s \in Sockets :
                 /\ q = p /\ s \in D => E!Pruned(p, D)[q][u][s] = 0
                 /\ q # p \/ s \notin D => E!Pruned(p, D)[q][u][s] = registry[q][u][s]
<1> DEFINE list(u) == [s \in Sockets |-> IF s \in D THEN 0 ELSE registry[p][u][s]]
           lists == [u \in Users |-> list(u)]
<1>1. E!Pruned(p, D) = [registry EXCEPT ![p] = lists]
    BY DEF E!Pruned
<1>2. registry \in [Pods -> [Users -> [Sockets -> Nat]]]
    BY DEF EventTypes
<1>3. ASSUME p \in Pods
      PROVE  lists \in [Users -> [Sockets -> Nat]]
  <2>1. ASSUME NEW u \in Users
        PROVE  list(u) \in [Sockets -> Nat]
    <3>1. registry[p][u] \in [Sockets -> Nat]
        BY <1>2, <1>3
    <3>2. \A s \in Sockets : (IF s \in D THEN 0 ELSE registry[p][u][s]) \in Nat
        BY <3>1
    <3> QED BY <3>2
  <2> QED BY <2>1
<1>4. \A u \in Users, s \in Sockets :
          lists[u][s] = IF s \in D THEN 0 ELSE registry[p][u][s]
    OBVIOUS
<1> HIDE DEF list, lists
<1>5. E!Pruned(p, D) \in [Pods -> [Users -> [Sockets -> Nat]]]
    BY <1>1, <1>2, <1>3
<1>6. \A q \in Pods : E!Pruned(p, D)[q] = IF q = p THEN lists ELSE registry[q]
    BY <1>1, <1>2
<1> QED BY <1>4, <1>5, <1>6

LEMMA NoticeEvent == ASSUME EventInv, NEW s \in Sockets, E!Notice(s) PROVE EventInv'
<1> USE DEF EventInv
<1>1. /\ link[s] = "dead" /\ link' = [link EXCEPT ![s] = "closed"]
      /\ registry' = E!Pruned(home[s].pod, {s})
      /\ UNCHANGED <<home, redis, subscribed, inbox, jobs, sent, unsure, got, owed, breaks>>
    BY DEF E!Notice
<1>2. \A r \in Sockets : link'[r] = IF r = s THEN "closed" ELSE link[r]
    BY <1>1 DEF EventTypes
<1>3. registry' \in [Pods -> [Users -> [Sockets -> Nat]]]
    BY <1>1, PrunedLists
<1>4. \A p \in Pods, u \in Users, r \in Sockets :
          registry'[p][u][r] = IF p = home[s].pod /\ r = s THEN 0 ELSE registry[p][u][r]
    BY <1>1, PrunedLists
<1>5. EventTypes' BY <1>1, <1>3 DEF EventTypes
<1>6. Registered'
  <2>2. \A r \in Sockets : link'[r] = "open" => link[r] = "open" /\ r # s
      BY <1>2
  <2>3. \A r \in Sockets : link'[r] # "new" => link[r] # "new"
      BY <1>1, <1>2
  <2>4. ASSUME NEW r \in Sockets, NEW p \in Pods, NEW u \in Users, registry'[p][u][r] > 0
        PROVE  link'[r] # "new" /\ home'[r].pod = p /\ home'[r].user = u
    <3>1. registry[p][u][r] > 0
        BY <2>4, <1>4
    <3>2. link[r] # "new" /\ home[r].pod = p /\ home[r].user = u
        BY <3>1 DEF Registered
    <3>3. link'[r] = link[r] \/ link'[r] = "closed"
        BY <1>2
    <3> QED BY <1>1, <3>2, <3>3
  <2>5. ASSUME NEW r \in Sockets, link'[r] = "open"
        PROVE  registry'[home[r].pod][home[r].user][r] = 1
    <3>1. /\ link[r] = "open" /\ r # s /\ registry[home[r].pod][home[r].user][r] = 1
          /\ home[r].pod \in Pods /\ home[r].user \in Users
        BY <2>2, <2>5 DEF Registered
    <3> QED BY <3>1, <1>4
  <2> QED BY <1>1, <2>3, <2>4, <2>5 DEF Registered
<1>7. Published' BY <1>1, <1>2 DEF Published, Untouched
<1>8. OneReading' BY <1>1 DEF OneReading
<1>9. Beside' BY <1>1 DEF Beside
<1>10. Addressed' BY <1>1, <1>2 DEF Addressed, EventTypes, Dispatches
<1>11. Tallied' BY <1>1, <1>2 DEF Tallied, Tally, MayRepeat, Coming, DueTo
<1>12. Awaited' BY <1>1, <1>2 DEF Awaited, Coming, DueTo
<1> QED BY <1>5, <1>6, <1>7, <1>8, <1>9, <1>10, <1>11, <1>12 DEF EventInv

LEMMA PruneEvent == ASSUME EventInv, NEW j \in jobs, E!Prune(j) PROVE EventInv'
<1> USE DEF EventInv
<1>1. /\ j.todo = {} /\ registry' = E!Pruned(j.pod, j.dead) /\ jobs' = jobs \ {j}
      /\ UNCHANGED <<link, home, redis, subscribed, inbox, sent, unsure, got, owed, breaks>>
    BY DEF E!Prune, E!Forgotten
<1>2. j \in Dispatches
    BY DEF EventTypes
<1>3. registry' \in [Pods -> [Users -> [Sockets -> Nat]]]
    BY <1>1, PrunedLists
<1>4. \A p \in Pods, u \in Users, r \in Sockets :
          registry'[p][u][r] = IF p = j.pod /\ r \in j.dead THEN 0 ELSE registry[p][u][r]
    BY <1>1, PrunedLists
<1>5. EventTypes' BY <1>1, <1>3 DEF EventTypes
<1>6. Registered'
  <2>1. \A r \in j.dead : link[r] # "open"
      BY DEF Addressed
  <2> QED BY <1>1, <1>4, <2>1 DEF Registered
<1>7. Published' BY <1>1 DEF Published, Untouched
<1>8. OneReading' BY <1>1 DEF OneReading
<1>9. Beside' BY <1>1 DEF Beside
<1>10. Addressed' BY <1>1 DEF Addressed
<1>11. \A e, r, o : DueTo(e, r, o)' <=> DueTo(e, r, o)
    BY <1>1 DEF DueTo
<1>12. \A e, r : (Coming(e, r)' <=> Coming(e, r)) /\ (MayRepeat(e, r)' <=> MayRepeat(e, r))
    BY <1>1, <1>11 DEF Coming, MayRepeat
<1>13. Tallied' BY <1>1, <1>11, <1>12 DEF Tallied, Tally
<1>14. Awaited' BY <1>1, <1>11, <1>12 DEF Awaited
<1> QED BY <1>5, <1>6, <1>7, <1>8, <1>9, <1>10, <1>13, <1>14 DEF EventInv

LEMMA BreakEvent == ASSUME EventInv, NEW p \in Pods, E!Break(p) PROVE EventInv'
<1> USE DEF EventInv
<1>1. /\ subscribed' = [subscribed EXCEPT ![p] = "broken"]
      /\ inbox' = [inbox EXCEPT ![p] = <<>>]
      /\ owed' = [s \in Sockets |->
                    IF home[s].pod = p THEN owed[s] \ E!ToSet(inbox[p]) ELSE owed[s]]
      /\ UNCHANGED <<link, home, registry, redis, jobs, sent, unsure, got>>
    BY DEF E!Break
<1>2. \A q \in Pods : \A e : Queued(inbox'[q], e) <=> q # p /\ Queued(inbox[q], e)
    BY <1>1, EmptyQueued DEF EventTypes
<1>3. ASSUME NEW s \in Sockets, NEW e \in owed'[s]
      PROVE  e \in owed[s] /\ (home[s].pod = p => ~Queued(inbox[p], e))
  <2>1. inbox[p] \in Seq(Events)
      BY DEF EventTypes
  <2>2. Queued(inbox[p], e) => e \in E!ToSet(inbox[p])
      BY <2>1 DEF Queued, E!ToSet
  <2> QED BY <1>1, <1>3, <2>2
<1>4. EventTypes'
  <2>1. /\ inbox' \in [Pods -> Seq(Events)]
        /\ subscribed' \in [Pods -> {"starting", "on", "broken", "never"}]
      BY <1>1 DEF EventTypes
  <2>2. owed' \in [Sockets -> SUBSET Events]
      BY <1>1 DEF EventTypes
  <2> QED BY <1>1, <2>1, <2>2 DEF EventTypes
<1>5. Registered' BY <1>1 DEF Registered
<1>6. Published'
  <2>1. ASSUME NEW e \in Events, sent'[e] = E!Unsent
        PROVE  Untouched(e)'
    <3>1. Untouched(e)
        BY <1>1, <2>1 DEF Published
    <3> QED BY <1>1, <1>2, <1>3, <3>1 DEF Untouched
  <2> QED BY <1>1, <2>1 DEF Published
<1>7. OneReading'
  <2>1. \A q \in Pods : NoneTwice(inbox'[q])
      BY <1>1 DEF OneReading, NoneTwice, EventTypes
  <2>2. \A j \in jobs : j.pod \in Pods
      BY DEF EventTypes, Dispatches
  <2> QED BY <1>1, <1>2, <2>1, <2>2 DEF OneReading
<1>8. Beside' BY <1>1, <1>2 DEF Beside
<1>9. Addressed' BY <1>1 DEF Addressed
<1>10. \A e, s, o : (DueTo(e, s, o)' <=> DueTo(e, s, o)) /\ (MayRepeat(e, s)' <=> MayRepeat(e, s))
    BY <1>1 DEF DueTo, MayRepeat
<1>11. Tallied'
  <2> SUFFICES ASSUME NEW s \in Sockets, NEW e \in Events, link'[s] # "new"
               PROVE  Tally(e, s)'
      BY DEF Tallied
  <2>1. Tally(e, s) /\ home[s].pod \in Pods
      BY <1>1 DEF Tallied, Registered
  <2>2. Coming(e, s)' => Coming(e, s)
      BY <1>1, <1>2, <1>10, <2>1 DEF Coming
  <2> QED BY <1>1, <1>10, <2>1, <2>2 DEF Tally
<1>12. Awaited'
  <2> SUFFICES ASSUME NEW s \in Sockets, NEW e \in owed'[s]
               PROVE  /\ link'[s] = "open"
                      /\ sent'[e].company = CompanyOf[home'[s].user]
                      /\ got'[s][e] > 0 \/ Coming(e, s)' \/ DueTo(e, s, TRUE)'
      BY DEF Awaited
  <2>1. /\ link[s] = "open" /\ sent[e].company = CompanyOf[home[s].user]
        /\ got[s][e] > 0 \/ Coming(e, s) \/ DueTo(e, s, TRUE)
      BY <1>3 DEF Awaited
  <2>2. home[s].pod \in Pods
      BY <2>1 DEF Registered
  <2>3. Coming(e, s) => Coming(e, s)'
      BY <1>1, <1>2, <1>3, <1>10, <2>2 DEF Coming
  <2> QED BY <1>1, <1>10, <2>1, <2>3
<1> QED BY <1>4, <1>5, <1>6, <1>7, <1>8, <1>9, <1>11, <1>12 DEF EventInv

LEMMA ConsumeEvent == ASSUME EventInv, NEW p \in Pods, E!Consume(p) PROVE EventInv'
<1> USE DEF EventInv
<1> DEFINE e == Head(inbox[p])
           new == E!Job(p, e, sent[e].company, FALSE)
<1>1. /\ inbox[p] # <<>>
      /\ \A j \in jobs : j.pod = p => j.own
      /\ jobs' = jobs \cup {new}
      /\ inbox' = [inbox EXCEPT ![p] = Tail(@)]
      /\ UNCHANGED <<link, home, registry, redis, subscribed, sent, unsure, got, owed, breaks>>
    BY DEF E!Consume
<1>2. /\ e \in Events /\ Tail(inbox[p]) \in Seq(Events)
      /\ \A x : Queued(inbox[p], x) <=> Queued(Tail(inbox[p]), x) \/ x = e
      /\ NoneTwice(Tail(inbox[p])) /\ ~Queued(Tail(inbox[p]), e)
    BY <1>1, TailQueued DEF EventTypes, OneReading
<1>3. /\ new.pod = p /\ new.event = e /\ new.own = FALSE /\ new.dead = {}
      /\ new.todo = E!Audience(p, sent[e].company) /\ new \in Dispatches
    BY <1>2 DEF E!Job, Dispatches, E!Audience, E!Listening
<1> HIDE DEF e, new
<1>4. \A s : s \in new.todo <=> s \in Sockets /\ (\E u \in Users : registry[p][u][s] > 0)
                                /\ CompanyOf[home[s].user] = sent[e].company
    BY <1>3 DEF E!Audience, E!Listening
<1>5. /\ \A q \in Pods : q # p => inbox'[q] = inbox[q]
      /\ inbox'[p] = Tail(inbox[p])
      /\ inbox' \in [Pods -> Seq(Events)]
    BY <1>1, <1>2 DEF EventTypes
<1>6. /\ \A q \in Pods : \A x : Queued(inbox'[q], x) => Queued(inbox[q], x)
      /\ \A q \in Pods : \A x : Queued(inbox[q], x) => Queued(inbox'[q], x) \/ (q = p /\ x = e)
      /\ ~Queued(inbox'[p], e)
    BY <1>2, <1>5
<1>7. sent[e] # E!Unsent
    BY <1>2 DEF Published, Untouched
<1>8. EventTypes' BY <1>1, <1>3, <1>5 DEF EventTypes
<1>9. Registered' BY <1>1 DEF Registered
<1>10. Published'
  <2>1. ASSUME NEW x \in Events, sent'[x] = E!Unsent
        PROVE  Untouched(x)'
    <3>1. Untouched(x) /\ x # e
        BY <1>1, <1>7, <2>1 DEF Published
    <3> QED BY <1>1, <1>3, <1>6, <3>1 DEF Untouched
  <2>2. \A j \in jobs' : j.own => j.pod = sent'[j.event].pod
      BY <1>1, <1>3 DEF Published
  <2> QED BY <2>1, <2>2 DEF Published
<1>11. OneReading'
  <2>1. \A q \in Pods : NoneTwice(inbox'[q])
      BY <1>2, <1>5 DEF OneReading
  <2>2. ASSUME NEW i \in jobs', NEW j \in jobs', i.pod = j.pod, i.event = j.event, i.own = j.own
        PROVE  i = j
      BY <1>1, <1>3, <2>2 DEF OneReading
  <2>3. ASSUME NEW j \in jobs', ~j.own
        PROVE  ~Queued(inbox'[j.pod], j.event)
    <3>1. CASE j = new BY <3>1, <1>3, <1>6
    <3>2. CASE j \in jobs
      <4>1. j.pod \in Pods /\ ~Queued(inbox[j.pod], j.event)
          BY <2>3, <3>2 DEF OneReading, EventTypes, Dispatches
      <4> QED BY <4>1, <1>6
    <3> QED BY <1>1, <3>1, <3>2
  <2> QED BY <2>1, <2>2, <2>3 DEF OneReading
<1>12. Beside'
  <2> SUFFICES ASSUME NEW j \in jobs', j.own, j.event \notin unsure'
               PROVE  /\ \A q \in Pods : ~Queued(inbox'[q], j.event)
                      /\ \A i \in jobs' : i.event = j.event => i.own
      BY DEF Beside
  <2>1. j \in jobs
      BY <1>1, <1>3
  <2>2. /\ \A q \in Pods : ~Queued(inbox[q], j.event)
        /\ \A i \in jobs : i.event = j.event => i.own
      BY <1>1, <2>1 DEF Beside
  <2>3. j.event # e
      BY <1>2, <2>2
  <2> QED BY <1>1, <1>3, <1>6, <2>2, <2>3
<1>13. Addressed'
  <2>1. \A j \in jobs' : \A s \in j.todo :
            /\ link[s] # "new" /\ home[s].pod = j.pod
            /\ sent[j.event].company = CompanyOf[home[s].user]
    <3>1. \A s \in new.todo : /\ link[s] # "new" /\ home[s].pod = p
                              /\ sent[e].company = CompanyOf[home[s].user]
        BY <1>4 DEF Registered
    <3> QED BY <1>1, <1>3, <3>1 DEF Addressed
  <2>2. \A j \in jobs' : \A s \in j.dead : link[s] # "new" /\ link[s] # "open"
      BY <1>1, <1>3 DEF Addressed
  <2> QED BY <1>1, <2>1, <2>2 DEF Addressed
<1>14. \A x, s : /\ DueTo(x, s, TRUE)' <=> DueTo(x, s, TRUE)
                 /\ DueTo(x, s, FALSE) => DueTo(x, s, FALSE)'
                 /\ DueTo(x, s, FALSE)' => DueTo(x, s, FALSE) \/ (home[s].pod = p /\ x = e)
                 /\ MayRepeat(x, s)' <=> MayRepeat(x, s)
    BY <1>1, <1>3 DEF DueTo, MayRepeat
<1>15. Tallied'
  <2> SUFFICES ASSUME NEW s \in Sockets, NEW x \in Events, link'[s] # "new"
               PROVE  Tally(x, s)'
      BY DEF Tallied
  <2>1. Tally(x, s) /\ home[s].pod \in Pods
      BY <1>1 DEF Tallied, Registered
  <2>2. Coming(x, s)' => Coming(x, s)
      BY <1>1, <1>2, <1>6, <1>14, <2>1 DEF Coming
  <2> QED BY <1>1, <1>14, <2>1, <2>2 DEF Tally
<1>16. Awaited'
  <2> SUFFICES ASSUME NEW s \in Sockets, NEW x \in owed[s]
               PROVE  /\ link[s] = "open"
                      /\ sent[x].company = CompanyOf[home[s].user]
                      /\ got[s][x] > 0 \/ Coming(x, s)' \/ DueTo(x, s, TRUE)'
      BY <1>1 DEF Awaited
  <2>1. /\ link[s] = "open" /\ sent[x].company = CompanyOf[home[s].user]
        /\ got[s][x] > 0 \/ Coming(x, s) \/ DueTo(x, s, TRUE)
      BY DEF Awaited
  <2>2. /\ home[s].pod \in Pods /\ home[s].user \in Users
        /\ registry[home[s].pod][home[s].user][s] = 1
      BY <2>1 DEF Registered
  <2>3. home[s].pod = p /\ x = e => DueTo(x, s, FALSE)'
    <3> SUFFICES ASSUME home[s].pod = p, x = e
                 PROVE  DueTo(x, s, FALSE)'
        OBVIOUS
    <3>1. s \in new.todo
        BY <2>1, <2>2, <1>4
    <3> QED BY <1>1, <1>3, <3>1 DEF DueTo
  <2>4. Coming(x, s) => Coming(x, s)'
      BY <1>1, <1>6, <1>14, <2>2, <2>3 DEF Coming
  <2> QED BY <1>1, <1>14, <2>1, <2>4
<1> QED BY <1>8, <1>9, <1>10, <1>11, <1>12, <1>13, <1>15, <1>16 DEF EventInv

LEMMA SendEvent == ASSUME EventInv, NEW j \in jobs, NEW s \in j.todo, E!Send(j, s) PROVE EventInv'
<1> USE DEF EventInv
<1> DEFINE later == [j EXCEPT !.todo = @ \ {s},
                              !.dead = IF link[s] = "open" THEN @ ELSE @ \cup {s}]
<1>1. /\ jobs' = (jobs \ {j}) \cup {later}
      /\ got' = IF link[s] = "open" THEN [got EXCEPT ![s][j.event] = @ + 1] ELSE got
      /\ UNCHANGED <<link, home, registry, redis, subscribed, inbox, sent, unsure, owed, breaks>>
    BY DEF E!Send
<1>2. /\ j \in Dispatches /\ s \in Sockets /\ j.event \in Events
      /\ link[s] # "new" /\ home[s].pod = j.pod
      /\ sent[j.event].company = CompanyOf[home[s].user]
    BY DEF EventTypes, Dispatches, Addressed
<1>3. /\ later \in Dispatches
      /\ later.pod = j.pod /\ later.event = j.event /\ later.own = j.own
      /\ later.todo = j.todo \ {s}
      /\ \A r \in later.dead : r \in j.dead \/ (r = s /\ link[s] # "open")
    BY <1>2 DEF Dispatches
<1> HIDE DEF later
<1>4. /\ got' \in [Sockets -> [Events -> Nat]]
      /\ \A r \in Sockets, e \in Events : r # s \/ e # j.event => got'[r][e] = got[r][e]
      /\ link[s] = "open" => got'[s][j.event] = got[s][j.event] + 1
      /\ link[s] # "open" => got'[s][j.event] = got[s][j.event]
    BY <1>1, <1>2 DEF EventTypes
<1>5. EventTypes'
    BY <1>1, <1>3, <1>4 DEF EventTypes
<1>6. Registered' BY <1>1 DEF Registered
<1>7. Published'
  <2>1. ASSUME NEW e \in Events, sent'[e] = E!Unsent
        PROVE  Untouched(e)'
    <3>1. Untouched(e) /\ e # j.event
        BY <1>1, <2>1 DEF Published, Untouched
    <3>2. \A r \in Sockets : got'[r][e] = got[r][e]
        BY <1>4, <3>1
    <3> QED BY <1>1, <1>3, <3>1, <3>2 DEF Untouched
  <2>2. \A i \in jobs' : i.own => i.pod = sent'[i.event].pod
      BY <1>1, <1>3 DEF Published
  <2> QED BY <2>1, <2>2 DEF Published
<1>8. OneReading'
    BY <1>1, <1>3 DEF OneReading
<1>9. Beside'
    BY <1>1, <1>3 DEF Beside
<1>10. Addressed'
  <2>1. \A i \in jobs' : \A r \in i.todo :
            /\ link[r] # "new" /\ home[r].pod = i.pod
            /\ sent[i.event].company = CompanyOf[home[r].user]
      BY <1>1, <1>3 DEF Addressed
  <2>2. \A i \in jobs' : \A r \in i.dead : link[r] # "new" /\ link[r] # "open"
      BY <1>1, <1>2, <1>3 DEF Addressed
  <2>3. ASSUME NEW r \in Sockets, NEW e \in Events, got'[r][e] > 0
        PROVE  link[r] # "new" /\ sent[e].company = CompanyOf[home[r].user]
    <3>1. CASE r = s /\ e = j.event BY <1>2, <3>1
    <3>2. CASE r # s \/ e # j.event
      <4>1. got[r][e] > 0
          BY <1>4, <2>3, <3>2
      <4> QED BY <4>1 DEF Addressed
    <3> QED BY <3>1, <3>2
  <2> QED BY <1>1, <2>1, <2>2, <2>3 DEF Addressed
<1>11. \A e, r, o : r # s \/ e # j.event \/ o # j.own => (DueTo(e, r, o)' <=> DueTo(e, r, o))
    BY <1>1, <1>3 DEF DueTo
<1>12. DueTo(j.event, s, j.own) /\ ~DueTo(j.event, s, j.own)'
  <2>1. ASSUME NEW i \in jobs', i.pod = j.pod, i.event = j.event, i.own = j.own, s \in i.todo
        PROVE  FALSE
    <3>1. i \in jobs /\ i # j
        BY <1>1, <1>3, <2>1
    <3> QED BY <3>1, <2>1 DEF OneReading
  <2>2. home'[s].pod = j.pod
      BY <1>1, <1>2
  <2> QED BY <1>2, <2>1, <2>2 DEF DueTo
<1>13. \A e, r : MayRepeat(e, r)' <=> MayRepeat(e, r)
    BY <1>1 DEF MayRepeat
<1>14. \A e, r : r # s \/ e # j.event \/ j.own => (Coming(e, r)' <=> Coming(e, r))
    BY <1>1, <1>11 DEF Coming
<1>15. ASSUME ~j.own
       PROVE  Coming(j.event, s) /\ ~Coming(j.event, s)'
  <2>1. ~Queued(inbox'[home'[s].pod], j.event)
      BY <1>1, <1>2, <1>15 DEF OneReading
  <2>2. j.own = FALSE
      BY <1>2, <1>15 DEF Dispatches
  <2> QED BY <1>12, <2>1, <2>2 DEF Coming
<1>16. Tallied'
  <2> SUFFICES ASSUME NEW r \in Sockets, NEW e \in Events, link'[r] # "new"
               PROVE  Tally(e, r)'
      BY DEF Tallied
  <2>1. Tally(e, r) /\ got[r][e] \in Nat
      BY <1>1 DEF Tallied, EventTypes
  <2>5. got[r][e] = 0 \/ got[r][e] = 1 \/ got[r][e] = 2
    <3>1. got[r][e] <= 2
        BY <2>1 DEF Tally
    <3> QED BY <2>1, <3>1
  <2>2. CASE r # s \/ e # j.event
    <3>1. got'[r][e] = got[r][e]
        BY <1>4, <2>2
    <3> QED BY <1>11, <1>13, <1>14, <2>1, <2>2, <3>1 DEF Tally
  <2>3. CASE r = s /\ e = j.event /\ j.own
    <3>1. j.own = TRUE
        BY <2>3, <1>2 DEF Dispatches
    <3>2. /\ DueTo(e, r, TRUE) /\ ~DueTo(e, r, TRUE)'
          /\ Coming(e, r)' <=> Coming(e, r)
          /\ MayRepeat(e, r)' <=> MayRepeat(e, r)
        BY <2>3, <3>1, <1>12, <1>13, <1>14
    <3>3. got'[r][e] = got[r][e] \/ got'[r][e] = got[r][e] + 1
        BY <1>4, <2>3
    <3>4. got[r][e] = 0 \/ (got[r][e] = 1 /\ MayRepeat(e, r) /\ ~Coming(e, r))
        BY Zenon, <2>1, <2>5, <3>2 DEF Tally
    <3>5. Coming(e, r) => MayRepeat(e, r)
        BY <2>1, <3>2 DEF Tally
    <3>6. /\ got'[r][e] = 0 \/ got'[r][e] = 1 \/ got'[r][e] = 2
          /\ got'[r][e] <= 2
          /\ got'[r][e] = 2 => MayRepeat(e, r) /\ ~Coming(e, r)
        BY <3>3, <3>4
    <3> QED BY Zenon, <3>2, <3>5, <3>6 DEF Tally
  <2>4. CASE r = s /\ e = j.event /\ ~j.own
    <3>1. /\ Coming(e, r) /\ ~Coming(e, r)'
          /\ DueTo(e, r, TRUE)' <=> DueTo(e, r, TRUE)
          /\ MayRepeat(e, r)' <=> MayRepeat(e, r)
        BY <2>4, <1>11, <1>13, <1>15
    <3>2. got'[r][e] = got[r][e] \/ got'[r][e] = got[r][e] + 1
        BY <1>4, <2>4
    <3>3. got[r][e] = 0 \/ (got[r][e] = 1 /\ MayRepeat(e, r) /\ ~DueTo(e, r, TRUE))
        BY Zenon, <2>1, <2>5, <3>1 DEF Tally
    <3>4. DueTo(e, r, TRUE) => MayRepeat(e, r)
        BY <2>1, <3>1 DEF Tally
    <3>6. got[r][e] = 0 \/ got[r][e] = 1
        BY <3>3
    <3>7. got'[r][e] <= 2 /\ (got'[r][e] = 2 => got[r][e] # 0)
        BY <3>2, <3>6
    <3>5. /\ got'[r][e] <= 2
          /\ got'[r][e] = 2 => MayRepeat(e, r) /\ ~DueTo(e, r, TRUE)
        BY Zenon, <3>3, <3>7
    <3> QED BY Zenon, <3>1, <3>4, <3>5 DEF Tally
  <2> QED BY <2>2, <2>3, <2>4
<1>17. Awaited'
  <2> SUFFICES ASSUME NEW r \in Sockets, NEW e \in owed[r]
               PROVE  /\ link[r] = "open"
                      /\ sent[e].company = CompanyOf[home[r].user]
                      /\ got'[r][e] > 0 \/ Coming(e, r)' \/ DueTo(e, r, TRUE)'
      BY <1>1 DEF Awaited
  <2>1. /\ link[r] = "open" /\ sent[e].company = CompanyOf[home[r].user]
        /\ got[r][e] > 0 \/ Coming(e, r) \/ DueTo(e, r, TRUE)
        /\ e \in Events
      BY DEF Awaited, EventTypes
  <2>2. CASE r = s /\ e = j.event
    <3>1. got'[r][e] > 0
        BY <1>4, <2>1, <2>2 DEF EventTypes
    <3> QED BY <2>1, <3>1
  <2>3. CASE r # s \/ e # j.event
      BY <1>4, <1>11, <1>14, <2>1, <2>3
  <2> QED BY <2>2, <2>3
<1> QED BY <1>5, <1>6, <1>7, <1>8, <1>9, <1>10, <1>16, <1>17 DEF EventInv

LEMMA ConnectEvent ==
    ASSUME EventInv, NEW s \in Sockets, NEW p \in Pods, NEW u \in Users, NEW seen \in BOOLEAN,
           E!Connect(s, p, u, seen)
    PROVE  EventInv'
<1> USE DEF EventInv
<1> DEFINE seeing(j) == j.pod = p /\ seen /\ sent[j.event].company = CompanyOf[u] /\ j.todo # {}
           after(j) == IF seeing(j) THEN [j EXCEPT !.todo = @ \cup {s}] ELSE j
<1>1. /\ link[s] = "new" /\ link' = [link EXCEPT ![s] = "open"]
      /\ home' = [home EXCEPT ![s] = [pod |-> p, user |-> u]]
      /\ registry' = [registry EXCEPT ![p][u][s] = @ + 1]
      /\ jobs' = {after(j) : j \in jobs}
      /\ UNCHANGED <<redis, subscribed, inbox, sent, unsure, got, owed, breaks>>
    BY DEF E!Connect
<1>2. ASSUME NEW j \in jobs
      PROVE  /\ after(j) \in Dispatches
             /\ after(j).pod = j.pod /\ after(j).event = j.event /\ after(j).own = j.own
             /\ after(j).dead = j.dead
             /\ \A r \in j.todo : r \in after(j).todo
             /\ \A r \in after(j).todo : r \in j.todo \/ (r = s /\ seeing(j))
  <2>1. j \in Dispatches
      BY DEF EventTypes
  <2>2. CASE seeing(j)
    <3>1. after(j) = [j EXCEPT !.todo = @ \cup {s}]
        BY <2>2
    <3> HIDE DEF after
    <3> QED BY <2>1, <2>2, <3>1 DEF Dispatches
  <2>3. CASE ~seeing(j)
    <3>1. after(j) = j
        BY <2>3
    <3> QED BY <2>1, <3>1
  <2> QED BY <2>2, <2>3
<1>3. \A i \in jobs' : \E j \in jobs : i = after(j)
    BY <1>1
<1>4. \A j \in jobs : after(j) \in jobs'
    BY <1>1
<1> HIDE DEF after
<1>5. /\ \A r \in Sockets : r # s => link'[r] = link[r] /\ home'[r] = home[r]
      /\ link'[s] = "open" /\ home'[s].pod = p /\ home'[s].user = u
    BY <1>1 DEF EventTypes
<1>6. /\ registry' \in [Pods -> [Users -> [Sockets -> Nat]]]
      /\ registry'[p][u][s] = registry[p][u][s] + 1
      /\ \A q \in Pods, v \in Users, r \in Sockets :
             q # p \/ v # u \/ r # s => registry'[q][v][r] = registry[q][v][r]
    BY <1>1 DEF EventTypes
<1>7. \A q \in Pods, v \in Users : registry[q][v][s] = 0
    BY <1>1 DEF Registered, EventTypes
<1>8. EventTypes'
  <2>1. jobs' \subseteq Dispatches
      BY <1>2, <1>3
  <2>2. link' \in [Sockets -> {"new", "open", "dead", "closed"}] /\ DOMAIN home' = Sockets
      BY <1>1 DEF EventTypes
  <2> QED BY <1>1, <1>6, <2>1, <2>2 DEF EventTypes
<1>9. Registered'
  <2>1. \A r \in Sockets : link'[r] # "new" => home'[r].pod \in Pods /\ home'[r].user \in Users
      BY <1>5 DEF Registered
  <2>2. ASSUME NEW r \in Sockets, NEW q \in Pods, NEW v \in Users, registry'[q][v][r] > 0
        PROVE  link'[r] # "new" /\ home'[r].pod = q /\ home'[r].user = v
    <3>1. CASE r = s
      <4>1. ASSUME q # p \/ v # u
            PROVE  FALSE
        <5>1. registry'[q][v][s] = registry[q][v][s]
            BY <1>6, <4>1
        <5> QED BY <1>7, <2>2, <3>1, <5>1
      <4> QED BY Zenon, <1>5, <3>1, <4>1
    <3>2. CASE r # s
      <4>1. registry[q][v][r] > 0
          BY <1>6, <2>2, <3>2
      <4> QED BY <1>5, <3>2, <4>1 DEF Registered
    <3> QED BY <3>1, <3>2
  <2>3. ASSUME NEW r \in Sockets, link'[r] = "open"
        PROVE  registry'[home'[r].pod][home'[r].user][r] = 1
    <3>1. CASE r = s BY <1>5, <1>6, <1>7, <3>1
    <3>2. CASE r # s
      <4>1. /\ link[r] = "open" /\ home'[r] = home[r]
            /\ home[r].pod \in Pods /\ home[r].user \in Users
            /\ registry[home[r].pod][home[r].user][r] = 1
          BY <1>5, <2>3, <3>2 DEF Registered
      <4> QED BY <1>6, <3>2, <4>1
    <3> QED BY <3>1, <3>2
  <2> QED BY <2>1, <2>2, <2>3 DEF Registered
<1>10. Published'
  <2>1. ASSUME NEW e \in Events, sent'[e] = E!Unsent
        PROVE  Untouched(e)'
    <3>1. Untouched(e)
        BY <1>1, <2>1 DEF Published
    <3>2. \A i \in jobs' : i.event # e
        BY <1>2, <1>3, <3>1 DEF Untouched
    <3> QED BY <1>1, <3>1, <3>2 DEF Untouched
  <2>2. \A i \in jobs' : i.own => i.pod = sent'[i.event].pod
      BY <1>1, <1>2, <1>3 DEF Published
  <2> QED BY <2>1, <2>2 DEF Published
<1>11. OneReading'
  <2>1. ASSUME NEW i \in jobs', NEW j \in jobs', i.pod = j.pod, i.event = j.event, i.own = j.own
        PROVE  i = j
    <3>1. PICK k \in jobs : i = after(k)
        BY <1>3
    <3>2. PICK l \in jobs : j = after(l)
        BY <1>3
    <3>3. k = l
        BY <1>2, <2>1, <3>1, <3>2 DEF OneReading
    <3> QED BY <3>1, <3>2, <3>3
  <2>2. \A i \in jobs' : ~i.own => ~Queued(inbox'[i.pod], i.event)
      BY <1>1, <1>2, <1>3 DEF OneReading
  <2> QED BY <1>1, <2>1, <2>2 DEF OneReading
<1>12. Beside'
  <2> SUFFICES ASSUME NEW j \in jobs', j.own, j.event \notin unsure'
               PROVE  /\ \A q \in Pods : ~Queued(inbox'[q], j.event)
                      /\ \A i \in jobs' : i.event = j.event => i.own
      BY DEF Beside
  <2>1. PICK k \in jobs : j = after(k)
      BY <1>3
  <2>2. /\ \A q \in Pods : ~Queued(inbox[q], j.event)
        /\ \A i \in jobs : i.event = j.event => i.own
      BY <1>1, <1>2, <2>1 DEF Beside
  <2> QED BY <1>1, <1>2, <1>3, <2>2
<1>13. \A j \in jobs : s \notin j.todo /\ s \notin j.dead
    BY <1>1 DEF Addressed
<1>14. Addressed'
  <2>1. ASSUME NEW i \in jobs', NEW r \in i.todo
        PROVE  /\ link'[r] # "new" /\ home'[r].pod = i.pod
               /\ sent'[i.event].company = CompanyOf[home'[r].user]
    <3>1. PICK j \in jobs : i = after(j)
        BY <1>3
    <3>2. r \in j.todo \/ (r = s /\ seeing(j))
        BY <1>2, <3>1
    <3>3. CASE r \in j.todo
      <4>1. /\ r \in Sockets /\ r # s /\ link[r] # "new" /\ home[r].pod = j.pod
            /\ sent[j.event].company = CompanyOf[home[r].user]
          BY <3>3, <1>13 DEF Addressed, EventTypes, Dispatches
      <4> QED BY <1>1, <1>2, <1>5, <3>1, <4>1
    <3>4. CASE r = s /\ seeing(j) BY <1>1, <1>2, <1>5, <3>1, <3>4
    <3> QED BY <3>2, <3>3, <3>4
  <2>2. ASSUME NEW i \in jobs', NEW r \in i.dead
        PROVE  link'[r] # "new" /\ link'[r] # "open"
    <3>1. PICK j \in jobs : i = after(j)
        BY <1>3
    <3>2. r \in j.dead /\ r \in Sockets /\ r # s
        BY <1>2, <1>13, <3>1 DEF EventTypes, Dispatches
    <3> QED BY <1>5, <3>2 DEF Addressed
  <2>3. ASSUME NEW r \in Sockets, NEW e \in Events, got'[r][e] > 0
        PROVE  link'[r] # "new" /\ sent'[e].company = CompanyOf[home'[r].user]
    <3>1. link[r] # "new" /\ sent[e].company = CompanyOf[home[r].user]
        BY <1>1, <2>3 DEF Addressed
    <3>2. r # s
        BY <1>1, <3>1
    <3> QED BY <1>1, <1>5, <3>1, <3>2
  <2> QED BY <2>1, <2>2, <2>3 DEF Addressed
<1>15. ASSUME NEW r \in Sockets, r # s, NEW e, NEW o
       PROVE  DueTo(e, r, o)' <=> DueTo(e, r, o)
  <2>1. home'[r] = home[r]
      BY <1>5, <1>15
  <2>2. DueTo(e, r, o) => DueTo(e, r, o)'
      BY <1>2, <1>4, <2>1 DEF DueTo
  <2>3. DueTo(e, r, o)' => DueTo(e, r, o)
      BY <1>2, <1>3, <1>15, <2>1 DEF DueTo
  <2> QED BY <2>2, <2>3
<1>16. \A r \in Sockets : \A e : r # s =>
           (Coming(e, r)' <=> Coming(e, r)) /\ (MayRepeat(e, r)' <=> MayRepeat(e, r))
    BY <1>1, <1>5, <1>15 DEF Coming, MayRepeat
<1>17. Tallied'
  <2> SUFFICES ASSUME NEW r \in Sockets, NEW e \in Events, link'[r] # "new"
               PROVE  Tally(e, r)'
      BY DEF Tallied
  <2>1. CASE r # s
    <3>1. Tally(e, r)
        BY <1>5, <2>1 DEF Tallied
    <3> QED BY <1>1, <1>15, <1>16, <2>1, <3>1 DEF Tally
  <2>2. CASE r = s
    <3>1. got'[r][e] = 0
        BY <1>1, <2>2 DEF Addressed, EventTypes
    <3>2. ASSUME Coming(e, r)', DueTo(e, r, TRUE)'
          PROVE  MayRepeat(e, r)'
      <4>1. PICK i \in jobs' : i.pod = home'[r].pod /\ i.event = e /\ i.own = TRUE
          BY <3>2 DEF DueTo
      <4>2. e \notin unsure' => ~Coming(e, r)'
        <5>1. e \notin unsure' => /\ \A q \in Pods : ~Queued(inbox'[q], e)
                                  /\ \A j \in jobs' : j.event = e => j.own
            BY <1>12, <4>1 DEF Beside
        <5> QED BY <1>5, <2>2, <5>1 DEF Coming, DueTo
      <4>3. home'[r].pod = sent'[e].pod
          BY <1>10, <4>1 DEF Published
      <4> QED BY <3>2, <4>2, <4>3 DEF MayRepeat
    <3>3. got'[r][e] <= 2 /\ got'[r][e] # 2 /\ got'[r][e] # 1
        BY <3>1
    <3> QED BY Zenon, <3>2, <3>3 DEF Tally
  <2> QED BY <2>1, <2>2
<1>18. Awaited'
  <2> SUFFICES ASSUME NEW r \in Sockets, NEW e \in owed[r]
               PROVE  /\ link'[r] = "open"
                      /\ sent'[e].company = CompanyOf[home'[r].user]
                      /\ got'[r][e] > 0 \/ Coming(e, r)' \/ DueTo(e, r, TRUE)'
      BY <1>1 DEF Awaited
  <2>1. /\ link[r] = "open" /\ sent[e].company = CompanyOf[home[r].user]
        /\ got[r][e] > 0 \/ Coming(e, r) \/ DueTo(e, r, TRUE)
      BY DEF Awaited
  <2>2. r # s
      BY <1>1, <2>1
  <2> QED BY <1>1, <1>5, <1>15, <1>16, <2>1, <2>2
<1> QED BY <1>8, <1>9, <1>10, <1>11, <1>12, <1>14, <1>17, <1>18 DEF EventInv

LEMMA PublishEvent ==
    ASSUME EventInv, NEW p \in Pods, NEW e \in Events, NEW c,
           NEW outcome \in {"taken", "refused", "unsure"}, E!Publish(p, e, c, outcome)
    PROVE  EventInv'
<1> USE DEF EventInv
<1> DEFINE new == E!Job(p, e, c, TRUE)
           now == [company |-> c, pod |-> p]
<1>1. /\ sent[e] = E!Unsent
      /\ sent' = [sent EXCEPT ![e] = now]
      /\ unsure' = IF outcome = "unsure" THEN unsure \cup {e} ELSE unsure
      /\ jobs' = IF E!Fallback(outcome) THEN jobs \cup {new} ELSE jobs
      /\ inbox' = [q \in Pods |-> IF E!Taken(outcome) /\ subscribed[q] = "on"
                                  THEN Append(inbox[q], e) ELSE inbox[q]]
      /\ owed' = [s \in Sockets |->
                    IF E!Taken(outcome) /\ \E q \in Pods : subscribed[q] = "on"
                                               /\ s \in E!Audience(q, c) /\ link[s] = "open"
                    THEN owed[s] \cup {e} ELSE owed[s]]
      /\ UNCHANGED <<link, home, registry, redis, subscribed, got>>
    BY DEF E!Publish
<1>2. Untouched(e)
    BY <1>1 DEF Published
<1>3. /\ sent'[e].company = c /\ sent'[e].pod = p /\ sent'[e] # E!Unsent
      /\ \A x \in Events : x # e => sent'[x] = sent[x]
      /\ DOMAIN sent' = Events
    BY <1>1, NotUnsent DEF EventTypes
<1>4. \A x : x # e => (x \in unsure' <=> x \in unsure)
    BY <1>1
<1>5. /\ new.pod = p /\ new.event = e /\ new.own = TRUE /\ new.dead = {} /\ new \in Dispatches
      /\ new.todo = E!Audience(p, c)
    BY DEF E!Job, Dispatches, E!Audience, E!Listening
<1> HIDE DEF new, now
<1>6. /\ \A j \in jobs : j \in jobs' /\ j.event # e
      /\ \A j \in jobs' : j \in jobs \/ (j = new /\ E!Fallback(outcome))
    BY <1>1, <1>2 DEF Untouched
<1>7. \A q \in Pods : \A s : s \in E!Audience(q, c) =>
          /\ s \in Sockets /\ link[s] # "new" /\ home[s].pod = q /\ CompanyOf[home[s].user] = c
    BY DEF E!Audience, E!Listening, Registered
<1>8. ASSUME NEW q \in Pods
      PROVE  /\ inbox'[q] \in Seq(Events) /\ NoneTwice(inbox'[q])
             /\ \A x : x # e => (Queued(inbox'[q], x) <=> Queued(inbox[q], x))
             /\ Queued(inbox'[q], e) <=> E!Taken(outcome) /\ subscribed[q] = "on"
  <2>1. inbox[q] \in Seq(Events) /\ NoneTwice(inbox[q]) /\ ~Queued(inbox[q], e)
      BY <1>2 DEF EventTypes, OneReading, Untouched
  <2>2. CASE E!Taken(outcome) /\ subscribed[q] = "on"
    <3>1. inbox'[q] = Append(inbox[q], e)
        BY <1>1, <2>2
    <3> QED BY <2>1, <2>2, <3>1, AppendQueued
  <2>3. CASE ~(E!Taken(outcome) /\ subscribed[q] = "on")
    <3>1. inbox'[q] = inbox[q]
        BY <1>1, <2>3
    <3> QED BY <2>1, <2>3, <3>1
  <2> QED BY <2>2, <2>3
<1>9. ASSUME NEW s \in Sockets
      PROVE  /\ \A x : x # e => (x \in owed'[s] <=> x \in owed[s])
             /\ e \in owed'[s] => \E q \in Pods : /\ E!Taken(outcome) /\ subscribed[q] = "on"
                                                  /\ s \in E!Audience(q, c) /\ link[s] = "open"
             /\ owed'[s] \subseteq Events
  <2>1. e \notin owed[s] /\ owed[s] \subseteq Events
      BY <1>2 DEF Untouched, EventTypes
  <2> QED BY <1>1, <2>1
<1>10. EventTypes'
  <2>1. inbox' \in [Pods -> Seq(Events)]
      BY <1>1, <1>8
  <2>2. jobs' \subseteq Dispatches
      BY <1>5, <1>6 DEF EventTypes
  <2>3. owed' \in [Sockets -> SUBSET Events]
      BY <1>1, <1>9
  <2> QED BY <1>1, <1>3, <2>1, <2>2, <2>3 DEF EventTypes
<1>11. Registered' BY <1>1 DEF Registered
<1>12. Published'
  <2>1. ASSUME NEW x \in Events, sent'[x] = E!Unsent
        PROVE  Untouched(x)'
    <3>1. x # e /\ Untouched(x)
        BY <1>3, <2>1 DEF Published
    <3>2. \A j \in jobs' : j.event # x
        BY <1>5, <1>6, <3>1 DEF Untouched
    <3> QED BY <1>1, <1>4, <1>8, <1>9, <3>1, <3>2 DEF Untouched
  <2>2. ASSUME NEW j \in jobs', j.own
        PROVE  j.pod = sent'[j.event].pod
    <3>1. CASE j \in jobs
      <4>1. j.event \in Events /\ j.event # e /\ j.pod = sent[j.event].pod
          BY <1>6, <2>2, <3>1 DEF EventTypes, Dispatches, Published
      <4> QED BY <1>3, <4>1
    <3>2. CASE j = new BY <1>3, <1>5, <3>2
    <3> QED BY <1>6, <3>1, <3>2
  <2> QED BY <2>1, <2>2 DEF Published
<1>13. OneReading'
  <2>1. ASSUME NEW i \in jobs', NEW j \in jobs', i.pod = j.pod, i.event = j.event, i.own = j.own
        PROVE  i = j
      BY <1>5, <1>6, <2>1 DEF OneReading
  <2>2. ASSUME NEW j \in jobs', ~j.own
        PROVE  ~Queued(inbox'[j.pod], j.event)
    <3>1. j \in jobs /\ j.event # e
        BY <1>5, <1>6, <2>2
    <3>2. j.pod \in Pods /\ ~Queued(inbox[j.pod], j.event)
        BY <2>2, <3>1 DEF OneReading, EventTypes, Dispatches
    <3> QED BY <1>8, <3>1, <3>2
  <2> QED BY <1>8, <2>1, <2>2 DEF OneReading
<1>14. e \notin unsure' /\ E!Fallback(outcome) => ~E!Taken(outcome)
    BY <1>1 DEF E!Fallback, E!Taken
<1>15. Beside'
  <2> SUFFICES ASSUME NEW j \in jobs', j.own, j.event \notin unsure'
               PROVE  /\ \A q \in Pods : ~Queued(inbox'[q], j.event)
                      /\ \A i \in jobs' : i.event = j.event => i.own
      BY DEF Beside
  <2>1. CASE j \in jobs
    <3>1. j.event # e /\ j.event \notin unsure
        BY <1>4, <1>6, <2>1
    <3>2. /\ \A q \in Pods : ~Queued(inbox[q], j.event)
          /\ \A i \in jobs : i.event = j.event => i.own
        BY <2>1, <3>1 DEF Beside
    <3> QED BY <1>5, <1>6, <1>8, <3>1, <3>2
  <2>2. CASE j = new /\ E!Fallback(outcome)
    <3>1. j.event = e /\ ~E!Taken(outcome)
        BY <1>5, <1>14, <2>2
    <3> QED BY <1>5, <1>6, <1>8, <3>1
  <2> QED BY <1>6, <2>1, <2>2
<1>16. Addressed'
  <2>1. ASSUME NEW j \in jobs', NEW s \in j.todo
        PROVE  /\ link[s] # "new" /\ home[s].pod = j.pod
               /\ sent'[j.event].company = CompanyOf[home[s].user]
    <3>1. CASE j \in jobs
      <4>1. sent'[j.event] = sent[j.event]
          BY <1>3, <1>6, <3>1 DEF EventTypes, Dispatches
      <4> QED BY <3>1, <4>1 DEF Addressed
    <3>2. CASE j = new BY <1>3, <1>5, <1>7, <3>2
    <3> QED BY <1>6, <3>1, <3>2
  <2>2. \A j \in jobs' : \A s \in j.dead : link[s] # "new" /\ link[s] # "open"
      BY <1>5, <1>6 DEF Addressed
  <2>3. ASSUME NEW s \in Sockets, NEW x \in Events, got[s][x] > 0
        PROVE  link[s] # "new" /\ sent'[x].company = CompanyOf[home[s].user]
    <3>1. got[s][e] = 0
        BY <1>2 DEF Untouched
    <3>2. x # e
        BY <2>3, <3>1
    <3> QED BY <1>3, <2>3, <3>2 DEF Addressed
  <2> QED BY <1>1, <2>1, <2>2, <2>3 DEF Addressed
<1>17. ASSUME NEW x, x # e, NEW s, NEW o
       PROVE  DueTo(x, s, o)' <=> DueTo(x, s, o)
    BY <1>1, <1>5, <1>6, <1>17 DEF DueTo
<1>18. ASSUME NEW x \in Events, x # e, NEW s \in Sockets, home[s].pod \in Pods
       PROVE  (Coming(x, s)' <=> Coming(x, s)) /\ (MayRepeat(x, s)' <=> MayRepeat(x, s))
    BY <1>1, <1>3, <1>4, <1>8, <1>17, <1>18 DEF Coming, MayRepeat
<1>19. Tallied'
  <2> SUFFICES ASSUME NEW s \in Sockets, NEW x \in Events, link'[s] # "new"
               PROVE  Tally(x, s)'
      BY DEF Tallied
  <2>1. home[s].pod \in Pods /\ Tally(x, s)
      BY <1>1 DEF Registered, Tallied
  <2>2. CASE x # e BY <1>1, <1>17, <1>18, <2>1, <2>2 DEF Tally
  <2>3. CASE x = e
    <3>1. got'[s][e] = 0
        BY <1>1, <1>2 DEF Untouched
    <3>2. ASSUME Coming(e, s)', DueTo(e, s, TRUE)'
          PROVE  MayRepeat(e, s)'
      <4>1. E!Fallback(outcome) /\ home[s].pod = p
          BY <1>1, <1>5, <1>6, <3>2 DEF DueTo
      <4>2. ~DueTo(e, s, FALSE)'
          BY <1>5, <1>6 DEF DueTo
      <4>3. E!Taken(outcome)
          BY <1>1, <1>8, <2>1, <3>2, <4>2 DEF Coming
      <4> QED BY <1>1, <1>3, <1>14, <4>1, <4>3 DEF MayRepeat
    <3>3. got'[s][e] <= 2 /\ got'[s][e] # 2 /\ got'[s][e] # 1
        BY <3>1
    <3> QED BY Zenon, <2>3, <3>2, <3>3 DEF Tally
  <2> QED BY <2>2, <2>3
<1>20. Awaited'
  <2> SUFFICES ASSUME NEW s \in Sockets, NEW x \in owed'[s]
               PROVE  /\ link[s] = "open"
                      /\ sent'[x].company = CompanyOf[home[s].user]
                      /\ got[s][x] > 0 \/ Coming(x, s)' \/ DueTo(x, s, TRUE)'
      BY <1>1 DEF Awaited
  <2>1. CASE x # e
    <3>1. x \in owed[s] /\ x \in Events
        BY <1>9, <2>1 DEF EventTypes
    <3>2. /\ link[s] = "open" /\ sent[x].company = CompanyOf[home[s].user]
          /\ got[s][x] > 0 \/ Coming(x, s) \/ DueTo(x, s, TRUE)
        BY <3>1 DEF Awaited
    <3>3. home[s].pod \in Pods
        BY <3>2 DEF Registered
    <3> QED BY <1>3, <1>17, <1>18, <2>1, <3>1, <3>2, <3>3
  <2>2. CASE x = e
    <3>1. PICK q \in Pods : /\ E!Taken(outcome) /\ subscribed[q] = "on"
                            /\ s \in E!Audience(q, c) /\ link[s] = "open"
        BY <1>9, <2>2
    <3>2. home[s].pod = q /\ CompanyOf[home[s].user] = c
        BY <1>7, <3>1
    <3>3. Coming(e, s)'
        BY <1>1, <1>8, <3>1, <3>2 DEF Coming
    <3> QED BY <1>3, <2>2, <3>1, <3>2, <3>3
  <2> QED BY <2>1, <2>2
<1> QED BY <1>10, <1>11, <1>12, <1>13, <1>15, <1>16, <1>19, <1>20 DEF EventInv

LEMMA EventNext ==
    ASSUME EventInv, [E!Next]_(E!vars)
    PROVE  EventInv'
<1>1. CASE UNCHANGED E!vars
  <2>1. subscribed' \in [Pods -> {"starting", "on", "broken", "never"}]
      BY <1>1 DEF EventInv, EventTypes, E!vars
  <2> QED BY <1>1, <2>1, SameDispatches DEF E!vars
<1>2. ASSUME NEW p \in Pods, E!Start(p) \/ E!Consume(p) \/ E!Break(p) \/ E!Resume(p)
      PROVE  EventInv'
    BY <1>2, StartEvent, ConsumeEvent, BreakEvent, ResumeEvent
<1>3. ASSUME NEW p \in Pods, NEW s \in Sockets, NEW u \in Users, NEW seen \in BOOLEAN,
             E!Connect(s, p, u, seen)
      PROVE  EventInv'
    BY <1>3, ConnectEvent
<1>4. ASSUME NEW p \in Pods, NEW e \in Events, NEW u \in Users,
             NEW outcome \in {"taken", "refused", "unsure"}, E!Publish(p, e, CompanyOf[u], outcome)
      PROVE  EventInv'
    BY <1>4, PublishEvent
<1>5. ASSUME NEW s \in Sockets, E!Drop(s) \/ E!Notice(s)
      PROVE  EventInv'
    BY <1>5, DropEvent, NoticeEvent
<1>6. ASSUME NEW j \in jobs, E!Prune(j) \/ \E s \in j.todo : E!Send(j, s)
      PROVE  EventInv'
    BY <1>6, PruneEvent, SendEvent
<1> QED BY <1>1, <1>2, <1>3, <1>4, <1>5, <1>6, ToggleEvent DEF E!Next

LEMMA EventsAlone == E!Spec => [](E!TypeOK /\ E!EventsSound)
<1>1. EventInv => E!TypeOK /\ E!EventsSound
    BY EventInvSound DEF EventInv, EventTypes, E!TypeOK
<1> QED BY <1>1, EventInit, EventNext, PTL DEF E!Spec

-----------------------------------------------------------------------------
(* Migrations.  The tables of the first revision, in the order they are     *)
(* created.                                                                 *)

(* The first k tables.                                                      *)
First(k) == {M!Created[i].table : i \in 1..k}

(* What revision r has beside its tables.                                   *)
Fits(s) ==
    /\ s.rls = IF s.rev < 2 THEN {}
              ELSE IF s.rev < 4 THEN M!TENANT_TABLES ELSE M!EXPECTED_RLS_TABLES
    /\ s.rev >= 2 => (s.strict <=> s.rev < 6)
    /\ s.rev >= 3 => s.grants /\ s.defaults
    /\ s.resolver <=> s.rev >= 5
    /\ s.numbers = "company" <=> s.rev >= 7
    /\ s.public <=> s.rev >= 8
    /\ s.indexes <=> s.rev >= 9

(* How many tables there are, at tables into the first revision.            *)
There(s, at) == IF s.rev = 0 THEN at ELSE IF s.rev = 1 THEN 41 - at ELSE 41

StoredFits ==
    /\ stored \in M!Database /\ Fits(stored)
    /\ stored.tables = First(There(stored, 0))
    /\ clash \in BOOLEAN /\ (clash => stored.rev >= 7)
CommandFits ==
    command # M!Idle =>
        /\ command \in [to : 0..M!Latest, so : M!Database, at : 0..40]
        /\ Fits(command.so)
        /\ command.so.tables = First(There(command.so, command.at))
        /\ command.at > 0 => \/ command.so.rev = 0 /\ command.to > 0
                             \/ command.so.rev = 1 /\ command.to = 0
        /\ clash => command.so.rev >= 7
MigInv == StoredFits /\ CommandFits

-----------------------------------------------------------------------------
(* The tables in their order.                                               *)


Follows(u, s, t) ==
    /\ Len(u) = Len(s) + Len(t)
    /\ \A k \in 1..Len(s) : u[k] = s[k]
    /\ \A k \in 1..Len(t) : u[Len(s) + k] = t[k]

LEMMA JoinedAt ==
    ASSUME NEW R, NEW s \in Seq(R), NEW t \in Seq(R)
    PROVE  s \o t \in Seq(R) /\ Follows(s \o t, s, t)
BY DEF Follows

LEMMA Sublists ==
    ASSUME NEW R, \A c \in {M!TablesA, M!TablesB, M!TablesC, M!TablesD, M!TablesE, M!TablesF} :
                      \A k \in DOMAIN c : c[k] \in R
    PROVE  /\ M!TablesA \in Seq(R) /\ Len(M!TablesA) = 8
           /\ M!TablesB \in Seq(R) /\ Len(M!TablesB) = 8
           /\ M!TablesC \in Seq(R) /\ Len(M!TablesC) = 6
           /\ M!TablesD \in Seq(R) /\ Len(M!TablesD) = 6
           /\ M!TablesE \in Seq(R) /\ Len(M!TablesE) = 8
           /\ M!TablesF \in Seq(R) /\ Len(M!TablesF) = 5
<1>1. M!TablesA \in Seq(R) /\ Len(M!TablesA) = 8
  <2>1. PICK a, b, d, e, f, g, h, m : M!TablesA = <<a, b, d, e, f, g, h, m>>
      BY DEF M!TablesA
  <2> QED BY <2>1
<1>2. M!TablesB \in Seq(R) /\ Len(M!TablesB) = 8
  <2>1. PICK a, b, d, e, f, g, h, m : M!TablesB = <<a, b, d, e, f, g, h, m>>
      BY DEF M!TablesB
  <2> QED BY <2>1
<1>3. M!TablesC \in Seq(R) /\ Len(M!TablesC) = 6
  <2>1. PICK a, b, d, e, f, g : M!TablesC = <<a, b, d, e, f, g>>
      BY DEF M!TablesC
  <2> QED BY <2>1
<1>4. M!TablesD \in Seq(R) /\ Len(M!TablesD) = 6
  <2>1. PICK a, b, d, e, f, g : M!TablesD = <<a, b, d, e, f, g>>
      BY DEF M!TablesD
  <2> QED BY <2>1
<1>5. M!TablesE \in Seq(R) /\ Len(M!TablesE) = 8
  <2>1. PICK a, b, d, e, f, g, h, m : M!TablesE = <<a, b, d, e, f, g, h, m>>
      BY DEF M!TablesE
  <2> QED BY <2>1
<1>6. M!TablesF \in Seq(R) /\ Len(M!TablesF) = 5
  <2>1. PICK a, b, d, e, f : M!TablesF = <<a, b, d, e, f>>
      BY DEF M!TablesF
  <2> QED BY <2>1
<1> QED BY <1>1, <1>2, <1>3, <1>4, <1>5, <1>6

LEMMA CreatedAt ==
    /\ Len(M!Created) = 41 /\ \E R : M!Created \in Seq(R)
    /\ \A k \in 1..8 : M!Created[k] = M!TablesA[k]
    /\ \A k \in 1..8 : M!Created[8 + k] = M!TablesB[k]
    /\ \A k \in 1..6 : M!Created[16 + k] = M!TablesC[k]
    /\ \A k \in 1..6 : M!Created[22 + k] = M!TablesD[k]
    /\ \A k \in 1..8 : M!Created[28 + k] = M!TablesE[k]
    /\ \A k \in 1..5 : M!Created[36 + k] = M!TablesF[k]
<1> DEFINE ab == M!TablesA \o M!TablesB
           abc == ab \o M!TablesC
           abcd == abc \o M!TablesD
           abcde == abcd \o M!TablesE
<1>0. M!Created = abcde \o M!TablesF
    BY DEF M!Created
<1>1. ASSUME NEW R, \A c \in {M!TablesA, M!TablesB, M!TablesC, M!TablesD, M!TablesE, M!TablesF} :
                        \A k \in DOMAIN c : c[k] \in R
      PROVE  /\ Len(M!Created) = 41 /\ M!Created \in Seq(R)
             /\ \A k \in 1..8 : M!Created[k] = M!TablesA[k]
             /\ \A k \in 1..8 : M!Created[8 + k] = M!TablesB[k]
             /\ \A k \in 1..6 : M!Created[16 + k] = M!TablesC[k]
             /\ \A k \in 1..6 : M!Created[22 + k] = M!TablesD[k]
             /\ \A k \in 1..8 : M!Created[28 + k] = M!TablesE[k]
             /\ \A k \in 1..5 : M!Created[36 + k] = M!TablesF[k]
  <2>0. /\ M!TablesA \in Seq(R) /\ Len(M!TablesA) = 8
        /\ M!TablesB \in Seq(R) /\ Len(M!TablesB) = 8
        /\ M!TablesC \in Seq(R) /\ Len(M!TablesC) = 6
        /\ M!TablesD \in Seq(R) /\ Len(M!TablesD) = 6
        /\ M!TablesE \in Seq(R) /\ Len(M!TablesE) = 8
        /\ M!TablesF \in Seq(R) /\ Len(M!TablesF) = 5
      BY <1>1, Sublists
  <2>1. /\ ab \in Seq(R) /\ Len(ab) = 16
        /\ \A k \in 1..8 : ab[k] = M!TablesA[k]
        /\ \A k \in 1..8 : ab[8 + k] = M!TablesB[k]
    <3>1. ab \in Seq(R) /\ Follows(ab, M!TablesA, M!TablesB)
        BY <2>0, JoinedAt
    <3> HIDE DEF ab
    <3> QED BY <2>0, <3>1 DEF Follows
  <2> HIDE DEF ab
  <2>2. /\ abc \in Seq(R) /\ Len(abc) = 22
        /\ \A k \in 1..16 : abc[k] = ab[k]
        /\ \A k \in 1..6 : abc[16 + k] = M!TablesC[k]
    <3>1. abc \in Seq(R) /\ Follows(abc, ab, M!TablesC)
        BY <2>0, <2>1, JoinedAt
    <3> HIDE DEF abc
    <3> QED BY <2>0, <2>1, <3>1 DEF Follows
  <2> HIDE DEF abc
  <2>3. /\ abcd \in Seq(R) /\ Len(abcd) = 28
        /\ \A k \in 1..22 : abcd[k] = abc[k]
        /\ \A k \in 1..6 : abcd[22 + k] = M!TablesD[k]
    <3>1. abcd \in Seq(R) /\ Follows(abcd, abc, M!TablesD)
        BY <2>0, <2>2, JoinedAt
    <3> HIDE DEF abcd
    <3> QED BY <2>0, <2>2, <3>1 DEF Follows
  <2> HIDE DEF abcd
  <2>4. /\ abcde \in Seq(R) /\ Len(abcde) = 36
        /\ \A k \in 1..28 : abcde[k] = abcd[k]
        /\ \A k \in 1..8 : abcde[28 + k] = M!TablesE[k]
    <3>1. abcde \in Seq(R) /\ Follows(abcde, abcd, M!TablesE)
        BY <2>0, <2>3, JoinedAt
    <3> HIDE DEF abcde
    <3> QED BY <2>0, <2>3, <3>1 DEF Follows
  <2> HIDE DEF abcde
  <2>5. /\ M!Created \in Seq(R) /\ Len(M!Created) = 41
        /\ \A k \in 1..36 : M!Created[k] = abcde[k]
        /\ \A k \in 1..5 : M!Created[36 + k] = M!TablesF[k]
    <3>1. M!Created \in Seq(R) /\ Follows(M!Created, abcde, M!TablesF)
        BY <1>0, <2>0, <2>4, JoinedAt
    <3> QED BY <2>0, <2>4, <3>1 DEF Follows
  <2>6. \A k \in 1..8 : /\ k \in 1..16 /\ k \in 1..22 /\ k \in 1..28 /\ k \in 1..36
                        /\ 8 + k \in 1..16 /\ 8 + k \in 1..22 /\ 8 + k \in 1..28 /\ 8 + k \in 1..36
      OBVIOUS
  <2>7. \A k \in 1..6 : /\ 16 + k \in 1..22 /\ 16 + k \in 1..28 /\ 16 + k \in 1..36
                        /\ 22 + k \in 1..28 /\ 22 + k \in 1..36
      OBVIOUS
  <2>8. \A k \in 1..8 : 28 + k \in 1..36
      OBVIOUS
  <2> QED BY <2>1, <2>2, <2>3, <2>4, <2>5, <2>6, <2>7, <2>8
<1>2. \E R : \A c \in {M!TablesA, M!TablesB, M!TablesC, M!TablesD, M!TablesE, M!TablesF} :
                 \A k \in DOMAIN c : c[k] \in R
  <2> DEFINE lists == {M!TablesA, M!TablesB, M!TablesC, M!TablesD, M!TablesE, M!TablesF}
             R == UNION {{c[k] : k \in DOMAIN c} : c \in lists}
  <2>1. ASSUME NEW c \in lists, NEW k \in DOMAIN c
        PROVE  c[k] \in R
      BY <2>1
  <2> HIDE DEF R
  <2> QED BY <2>1
<1>3. PICK R : \A c \in {M!TablesA, M!TablesB, M!TablesC, M!TablesD, M!TablesE, M!TablesF} :
                   \A k \in DOMAIN c : c[k] \in R
    BY <1>2
<1> QED BY <1>1, <1>3

(* Where a number from 1 to 41 lies.                                        *)
LEMMA Places ==
    ASSUME NEW i \in 1..41
    PROVE  \/ \E k \in 1..8 : i = k /\ M!Created[i] = M!TablesA[k]
           \/ \E k \in 1..8 : i = 8 + k /\ M!Created[i] = M!TablesB[k]
           \/ \E k \in 1..6 : i = 16 + k /\ M!Created[i] = M!TablesC[k]
           \/ \E k \in 1..6 : i = 22 + k /\ M!Created[i] = M!TablesD[k]
           \/ \E k \in 1..8 : i = 28 + k /\ M!Created[i] = M!TablesE[k]
           \/ \E k \in 1..5 : i = 36 + k /\ M!Created[i] = M!TablesF[k]
<1>1. CASE i <= 8
  <2>1. i \in 1..8
      BY <1>1
  <2> QED BY <2>1, CreatedAt
<1>2. CASE i > 8 /\ i <= 16
  <2>1. i - 8 \in 1..8
      BY <1>2
  <2>2. PICK k \in 1..8 : i = 8 + k
      BY <2>1
  <2> QED BY <2>2, CreatedAt
<1>3. CASE i > 16 /\ i <= 22
  <2>1. i - 16 \in 1..6
      BY <1>3
  <2>2. PICK k \in 1..6 : i = 16 + k
      BY <2>1
  <2> QED BY <2>2, CreatedAt
<1>4. CASE i > 22 /\ i <= 28
  <2>1. i - 22 \in 1..6
      BY <1>4
  <2>2. PICK k \in 1..6 : i = 22 + k
      BY <2>1
  <2> QED BY <2>2, CreatedAt
<1>5. CASE i > 28 /\ i <= 36
  <2>1. i - 28 \in 1..8
      BY <1>5
  <2>2. PICK k \in 1..8 : i = 28 + k
      BY <2>1
  <2> QED BY <2>2, CreatedAt
<1>6. CASE i > 36
  <2>1. i - 36 \in 1..5
      BY <1>6
  <2>2. PICK k \in 1..5 : i = 36 + k
      BY <2>1
  <2> QED BY <2>2, CreatedAt
<1> QED BY <1>1, <1>2, <1>3, <1>4, <1>5, <1>6

NamesA ==
    {"companies", "plans", "roles", "automations", "channels", "chatbot_flows",
     "custom_fields", "glossary_terms"}
NamesB ==
    {"landing_pages", "message_templates", "pipelines", "product_categories",
     "shipping_providers", "subscriptions", "surveys", "tags"}
NamesC ==
    {"users", "web_chat_widgets", "api_keys", "audit_logs", "automation_actions",
     "automation_logs"}
NamesD ==
    {"campaigns", "contacts", "invoices", "pipeline_stages", "products", "user_roles"}
NamesE ==
    {"campaign_recipients", "contact_tags", "conversations", "custom_field_values", "deals",
     "payments", "survey_responses", "ai_conversation_contexts"}
NamesF ==
    {"deal_activities", "messages", "routing_decisions", "shipments",
     "shipment_tracking_events"}

(* The name at each place.                                                  *)
LEMMA NamesAAt ==
    /\ M!TablesA[1].table = "companies" /\ M!Created[1].table = "companies"
    /\ M!TablesA[2].table = "plans" /\ M!Created[2].table = "plans"
    /\ M!TablesA[3].table = "roles" /\ M!Created[3].table = "roles"
    /\ M!TablesA[4].table = "automations" /\ M!Created[4].table = "automations"
    /\ M!TablesA[5].table = "channels" /\ M!Created[5].table = "channels"
    /\ M!TablesA[6].table = "chatbot_flows" /\ M!Created[6].table = "chatbot_flows"
    /\ M!TablesA[7].table = "custom_fields" /\ M!Created[7].table = "custom_fields"
    /\ M!TablesA[8].table = "glossary_terms" /\ M!Created[8].table = "glossary_terms"
<1>1. /\ M!TablesA[1].table = "companies"
      /\ M!TablesA[2].table = "plans"
      /\ M!TablesA[3].table = "roles"
      /\ M!TablesA[4].table = "automations"
      /\ M!TablesA[5].table = "channels"
      /\ M!TablesA[6].table = "chatbot_flows"
      /\ M!TablesA[7].table = "custom_fields"
      /\ M!TablesA[8].table = "glossary_terms"
    BY DEF M!TablesA, M!T
<1>2. \A k \in 1..8 : M!Created[k] = M!TablesA[k]
    BY CreatedAt
<1> QED BY <1>1, <1>2

LEMMA NamesBAt ==
    /\ M!TablesB[1].table = "landing_pages" /\ M!Created[9].table = "landing_pages"
    /\ M!TablesB[2].table = "message_templates" /\ M!Created[10].table = "message_templates"
    /\ M!TablesB[3].table = "pipelines" /\ M!Created[11].table = "pipelines"
    /\ M!TablesB[4].table = "product_categories" /\ M!Created[12].table = "product_categories"
    /\ M!TablesB[5].table = "shipping_providers" /\ M!Created[13].table = "shipping_providers"
    /\ M!TablesB[6].table = "subscriptions" /\ M!Created[14].table = "subscriptions"
    /\ M!TablesB[7].table = "surveys" /\ M!Created[15].table = "surveys"
    /\ M!TablesB[8].table = "tags" /\ M!Created[16].table = "tags"
<1>1. /\ M!TablesB[1].table = "landing_pages"
      /\ M!TablesB[2].table = "message_templates"
      /\ M!TablesB[3].table = "pipelines"
      /\ M!TablesB[4].table = "product_categories"
      /\ M!TablesB[5].table = "shipping_providers"
      /\ M!TablesB[6].table = "subscriptions"
      /\ M!TablesB[7].table = "surveys"
      /\ M!TablesB[8].table = "tags"
    BY DEF M!TablesB, M!T
<1>2. \A k \in 1..8 : M!Created[8 + k] = M!TablesB[k]
    BY CreatedAt
<1>3. /\ 1 \in 1..8 /\ 8 + 1 = 9
      /\ 2 \in 1..8 /\ 8 + 2 = 10
      /\ 3 \in 1..8 /\ 8 + 3 = 11
      /\ 4 \in 1..8 /\ 8 + 4 = 12
      /\ 5 \in 1..8 /\ 8 + 5 = 13
      /\ 6 \in 1..8 /\ 8 + 6 = 14
      /\ 7 \in 1..8 /\ 8 + 7 = 15
      /\ 8 \in 1..8 /\ 8 + 8 = 16
    OBVIOUS
<1>4. /\ M!Created[9] = M!TablesB[1]
      /\ M!Created[10] = M!TablesB[2]
      /\ M!Created[11] = M!TablesB[3]
      /\ M!Created[12] = M!TablesB[4]
      /\ M!Created[13] = M!TablesB[5]
      /\ M!Created[14] = M!TablesB[6]
      /\ M!Created[15] = M!TablesB[7]
      /\ M!Created[16] = M!TablesB[8]
    BY <1>2, <1>3
<1> QED BY <1>1, <1>4

LEMMA NamesCAt ==
    /\ M!TablesC[1].table = "users" /\ M!Created[17].table = "users"
    /\ M!TablesC[2].table = "web_chat_widgets" /\ M!Created[18].table = "web_chat_widgets"
    /\ M!TablesC[3].table = "api_keys" /\ M!Created[19].table = "api_keys"
    /\ M!TablesC[4].table = "audit_logs" /\ M!Created[20].table = "audit_logs"
    /\ M!TablesC[5].table = "automation_actions" /\ M!Created[21].table = "automation_actions"
    /\ M!TablesC[6].table = "automation_logs" /\ M!Created[22].table = "automation_logs"
<1>1. /\ M!TablesC[1].table = "users"
      /\ M!TablesC[2].table = "web_chat_widgets"
      /\ M!TablesC[3].table = "api_keys"
      /\ M!TablesC[4].table = "audit_logs"
      /\ M!TablesC[5].table = "automation_actions"
      /\ M!TablesC[6].table = "automation_logs"
    BY DEF M!TablesC, M!T
<1>2. \A k \in 1..6 : M!Created[16 + k] = M!TablesC[k]
    BY CreatedAt
<1>3. /\ 1 \in 1..6 /\ 16 + 1 = 17
      /\ 2 \in 1..6 /\ 16 + 2 = 18
      /\ 3 \in 1..6 /\ 16 + 3 = 19
      /\ 4 \in 1..6 /\ 16 + 4 = 20
      /\ 5 \in 1..6 /\ 16 + 5 = 21
      /\ 6 \in 1..6 /\ 16 + 6 = 22
    OBVIOUS
<1>4. /\ M!Created[17] = M!TablesC[1]
      /\ M!Created[18] = M!TablesC[2]
      /\ M!Created[19] = M!TablesC[3]
      /\ M!Created[20] = M!TablesC[4]
      /\ M!Created[21] = M!TablesC[5]
      /\ M!Created[22] = M!TablesC[6]
    BY <1>2, <1>3
<1> QED BY <1>1, <1>4

LEMMA NamesDAt ==
    /\ M!TablesD[1].table = "campaigns" /\ M!Created[23].table = "campaigns"
    /\ M!TablesD[2].table = "contacts" /\ M!Created[24].table = "contacts"
    /\ M!TablesD[3].table = "invoices" /\ M!Created[25].table = "invoices"
    /\ M!TablesD[4].table = "pipeline_stages" /\ M!Created[26].table = "pipeline_stages"
    /\ M!TablesD[5].table = "products" /\ M!Created[27].table = "products"
    /\ M!TablesD[6].table = "user_roles" /\ M!Created[28].table = "user_roles"
<1>1. /\ M!TablesD[1].table = "campaigns"
      /\ M!TablesD[2].table = "contacts"
      /\ M!TablesD[3].table = "invoices"
      /\ M!TablesD[4].table = "pipeline_stages"
      /\ M!TablesD[5].table = "products"
      /\ M!TablesD[6].table = "user_roles"
    BY DEF M!TablesD, M!T
<1>2. \A k \in 1..6 : M!Created[22 + k] = M!TablesD[k]
    BY CreatedAt
<1>3. /\ 1 \in 1..6 /\ 22 + 1 = 23
      /\ 2 \in 1..6 /\ 22 + 2 = 24
      /\ 3 \in 1..6 /\ 22 + 3 = 25
      /\ 4 \in 1..6 /\ 22 + 4 = 26
      /\ 5 \in 1..6 /\ 22 + 5 = 27
      /\ 6 \in 1..6 /\ 22 + 6 = 28
    OBVIOUS
<1>4. /\ M!Created[23] = M!TablesD[1]
      /\ M!Created[24] = M!TablesD[2]
      /\ M!Created[25] = M!TablesD[3]
      /\ M!Created[26] = M!TablesD[4]
      /\ M!Created[27] = M!TablesD[5]
      /\ M!Created[28] = M!TablesD[6]
    BY <1>2, <1>3
<1> QED BY <1>1, <1>4

LEMMA NamesEAt ==
    /\ M!TablesE[1].table = "campaign_recipients" /\ M!Created[29].table = "campaign_recipients"
    /\ M!TablesE[2].table = "contact_tags" /\ M!Created[30].table = "contact_tags"
    /\ M!TablesE[3].table = "conversations" /\ M!Created[31].table = "conversations"
    /\ M!TablesE[4].table = "custom_field_values" /\ M!Created[32].table = "custom_field_values"
    /\ M!TablesE[5].table = "deals" /\ M!Created[33].table = "deals"
    /\ M!TablesE[6].table = "payments" /\ M!Created[34].table = "payments"
    /\ M!TablesE[7].table = "survey_responses" /\ M!Created[35].table = "survey_responses"
    /\ M!TablesE[8].table = "ai_conversation_contexts"
    /\ M!Created[36].table = "ai_conversation_contexts"
<1>1. /\ M!TablesE[1].table = "campaign_recipients"
      /\ M!TablesE[2].table = "contact_tags"
      /\ M!TablesE[3].table = "conversations"
      /\ M!TablesE[4].table = "custom_field_values"
      /\ M!TablesE[5].table = "deals"
      /\ M!TablesE[6].table = "payments"
      /\ M!TablesE[7].table = "survey_responses"
      /\ M!TablesE[8].table = "ai_conversation_contexts"
    BY DEF M!TablesE, M!T
<1>2. \A k \in 1..8 : M!Created[28 + k] = M!TablesE[k]
    BY CreatedAt
<1>3. /\ 1 \in 1..8 /\ 28 + 1 = 29
      /\ 2 \in 1..8 /\ 28 + 2 = 30
      /\ 3 \in 1..8 /\ 28 + 3 = 31
      /\ 4 \in 1..8 /\ 28 + 4 = 32
      /\ 5 \in 1..8 /\ 28 + 5 = 33
      /\ 6 \in 1..8 /\ 28 + 6 = 34
      /\ 7 \in 1..8 /\ 28 + 7 = 35
      /\ 8 \in 1..8 /\ 28 + 8 = 36
    OBVIOUS
<1>4. /\ M!Created[29] = M!TablesE[1]
      /\ M!Created[30] = M!TablesE[2]
      /\ M!Created[31] = M!TablesE[3]
      /\ M!Created[32] = M!TablesE[4]
      /\ M!Created[33] = M!TablesE[5]
      /\ M!Created[34] = M!TablesE[6]
      /\ M!Created[35] = M!TablesE[7]
      /\ M!Created[36] = M!TablesE[8]
    BY <1>2, <1>3
<1> QED BY <1>1, <1>4

LEMMA NamesFAt ==
    /\ M!TablesF[1].table = "deal_activities" /\ M!Created[37].table = "deal_activities"
    /\ M!TablesF[2].table = "messages" /\ M!Created[38].table = "messages"
    /\ M!TablesF[3].table = "routing_decisions" /\ M!Created[39].table = "routing_decisions"
    /\ M!TablesF[4].table = "shipments" /\ M!Created[40].table = "shipments"
    /\ M!TablesF[5].table = "shipment_tracking_events"
    /\ M!Created[41].table = "shipment_tracking_events"
<1>1. /\ M!TablesF[1].table = "deal_activities"
      /\ M!TablesF[2].table = "messages"
      /\ M!TablesF[3].table = "routing_decisions"
      /\ M!TablesF[4].table = "shipments"
      /\ M!TablesF[5].table = "shipment_tracking_events"
    BY DEF M!TablesF, M!T
<1>2. \A k \in 1..5 : M!Created[36 + k] = M!TablesF[k]
    BY CreatedAt
<1>3. /\ 1 \in 1..5 /\ 36 + 1 = 37
      /\ 2 \in 1..5 /\ 36 + 2 = 38
      /\ 3 \in 1..5 /\ 36 + 3 = 39
      /\ 4 \in 1..5 /\ 36 + 4 = 40
      /\ 5 \in 1..5 /\ 36 + 5 = 41
    OBVIOUS
<1>4. /\ M!Created[37] = M!TablesF[1]
      /\ M!Created[38] = M!TablesF[2]
      /\ M!Created[39] = M!TablesF[3]
      /\ M!Created[40] = M!TablesF[4]
      /\ M!Created[41] = M!TablesF[5]
    BY <1>2, <1>3
<1> QED BY <1>1, <1>4

LEMMA NamesADiffer ==
    /\ \A k \in 1..8 : M!TablesA[k].table \in NamesA
    /\ \A k, l \in 1..8 : M!TablesA[k].table = M!TablesA[l].table => k = l
<1>1. \A k \in 1..8 : k = 1 \/ k = 2 \/ k = 3 \/ k = 4 \/ k = 5 \/ k = 6 \/ k = 7 \/ k = 8
    OBVIOUS
<1> QED BY <1>1, NamesAAt DEF NamesA

LEMMA NamesBDiffer ==
    /\ \A k \in 1..8 : M!TablesB[k].table \in NamesB
    /\ \A k, l \in 1..8 : M!TablesB[k].table = M!TablesB[l].table => k = l
<1>1. \A k \in 1..8 : k = 1 \/ k = 2 \/ k = 3 \/ k = 4 \/ k = 5 \/ k = 6 \/ k = 7 \/ k = 8
    OBVIOUS
<1> QED BY <1>1, NamesBAt DEF NamesB

LEMMA NamesCDiffer ==
    /\ \A k \in 1..6 : M!TablesC[k].table \in NamesC
    /\ \A k, l \in 1..6 : M!TablesC[k].table = M!TablesC[l].table => k = l
<1>1. \A k \in 1..6 : k = 1 \/ k = 2 \/ k = 3 \/ k = 4 \/ k = 5 \/ k = 6
    OBVIOUS
<1> QED BY <1>1, NamesCAt DEF NamesC

LEMMA NamesDDiffer ==
    /\ \A k \in 1..6 : M!TablesD[k].table \in NamesD
    /\ \A k, l \in 1..6 : M!TablesD[k].table = M!TablesD[l].table => k = l
<1>1. \A k \in 1..6 : k = 1 \/ k = 2 \/ k = 3 \/ k = 4 \/ k = 5 \/ k = 6
    OBVIOUS
<1> QED BY <1>1, NamesDAt DEF NamesD

LEMMA NamesEDiffer ==
    /\ \A k \in 1..8 : M!TablesE[k].table \in NamesE
    /\ \A k, l \in 1..8 : M!TablesE[k].table = M!TablesE[l].table => k = l
<1>1. \A k \in 1..8 : k = 1 \/ k = 2 \/ k = 3 \/ k = 4 \/ k = 5 \/ k = 6 \/ k = 7 \/ k = 8
    OBVIOUS
<1> QED BY <1>1, NamesEAt DEF NamesE

LEMMA NamesFDiffer ==
    /\ \A k \in 1..5 : M!TablesF[k].table \in NamesF
    /\ \A k, l \in 1..5 : M!TablesF[k].table = M!TablesF[l].table => k = l
<1>1. \A k \in 1..5 : k = 1 \/ k = 2 \/ k = 3 \/ k = 4 \/ k = 5
    OBVIOUS
<1> QED BY <1>1, NamesFAt DEF NamesF

(* No table is created twice.                                               *)
LEMMA CreatedOnce ==
    ASSUME NEW i \in 1..41, NEW j \in 1..41, M!Created[i].table = M!Created[j].table
    PROVE  i = j
<1>1. ASSUME NEW m \in 1..41
      PROVE
          \/ \E k \in 1..8 : m = k /\ M!Created[m] = M!TablesA[k] /\ M!Created[m].table \in NamesA
          \/ \E k \in 1..8 : m = 8 + k /\ M!Created[m] = M!TablesB[k] /\ M!Created[m].table \in NamesB
          \/ \E k \in 1..6 : m = 16 + k /\ M!Created[m] = M!TablesC[k] /\ M!Created[m].table \in NamesC
          \/ \E k \in 1..6 : m = 22 + k /\ M!Created[m] = M!TablesD[k] /\ M!Created[m].table \in NamesD
          \/ \E k \in 1..8 : m = 28 + k /\ M!Created[m] = M!TablesE[k] /\ M!Created[m].table \in NamesE
          \/ \E k \in 1..5 : m = 36 + k /\ M!Created[m] = M!TablesF[k] /\ M!Created[m].table \in NamesF
  <2>1. CASE \E k \in 1..8 : m = k /\ M!Created[m] = M!TablesA[k]
      BY <2>1, NamesADiffer
  <2>2. CASE \E k \in 1..8 : m = 8 + k /\ M!Created[m] = M!TablesB[k]
      BY <2>2, NamesBDiffer
  <2>3. CASE \E k \in 1..6 : m = 16 + k /\ M!Created[m] = M!TablesC[k]
      BY <2>3, NamesCDiffer
  <2>4. CASE \E k \in 1..6 : m = 22 + k /\ M!Created[m] = M!TablesD[k]
      BY <2>4, NamesDDiffer
  <2>5. CASE \E k \in 1..8 : m = 28 + k /\ M!Created[m] = M!TablesE[k]
      BY <2>5, NamesEDiffer
  <2>6. CASE \E k \in 1..5 : m = 36 + k /\ M!Created[m] = M!TablesF[k]
      BY <2>6, NamesFDiffer
  <2> QED BY <2>1, <2>2, <2>3, <2>4, <2>5, <2>6, Places
<1>2. /\ NamesA \cap (NamesB \cup NamesC \cup NamesD \cup NamesE \cup NamesF) = {}
      /\ NamesB \cap (NamesC \cup NamesD \cup NamesE \cup NamesF) = {}
      /\ NamesC \cap (NamesD \cup NamesE \cup NamesF) = {}
      /\ NamesD \cap (NamesE \cup NamesF) = {}
      /\ NamesE \cap NamesF = {}
    BY DEF NamesA, NamesB, NamesC, NamesD, NamesE, NamesF
<1>3. CASE \E k \in 1..8 : i = k /\ M!Created[i] = M!TablesA[k] /\ M!Created[i].table \in NamesA
  <2>1. \E l \in 1..8 : j = l /\ M!Created[j] = M!TablesA[l]
      BY Zenon, <1>1, <1>2, <1>3
  <2> QED BY <1>3, <2>1, NamesADiffer
<1>4. CASE \E k \in 1..8 : i = 8 + k /\ M!Created[i] = M!TablesB[k] /\ M!Created[i].table \in NamesB
  <2>1. \E l \in 1..8 : j = 8 + l /\ M!Created[j] = M!TablesB[l]
      BY Zenon, <1>1, <1>2, <1>4
  <2> QED BY <1>4, <2>1, NamesBDiffer
<1>5. CASE \E k \in 1..6 : i = 16 + k /\ M!Created[i] = M!TablesC[k] /\ M!Created[i].table \in NamesC
  <2>1. \E l \in 1..6 : j = 16 + l /\ M!Created[j] = M!TablesC[l]
      BY Zenon, <1>1, <1>2, <1>5
  <2> QED BY <1>5, <2>1, NamesCDiffer
<1>6. CASE \E k \in 1..6 : i = 22 + k /\ M!Created[i] = M!TablesD[k] /\ M!Created[i].table \in NamesD
  <2>1. \E l \in 1..6 : j = 22 + l /\ M!Created[j] = M!TablesD[l]
      BY Zenon, <1>1, <1>2, <1>6
  <2> QED BY <1>6, <2>1, NamesDDiffer
<1>7. CASE \E k \in 1..8 : i = 28 + k /\ M!Created[i] = M!TablesE[k] /\ M!Created[i].table \in NamesE
  <2>1. \E l \in 1..8 : j = 28 + l /\ M!Created[j] = M!TablesE[l]
      BY Zenon, <1>1, <1>2, <1>7
  <2> QED BY <1>7, <2>1, NamesEDiffer
<1>8. CASE \E k \in 1..5 : i = 36 + k /\ M!Created[i] = M!TablesF[k] /\ M!Created[i].table \in NamesF
  <2>1. \E l \in 1..5 : j = 36 + l /\ M!Created[j] = M!TablesF[l]
      BY Zenon, <1>1, <1>2, <1>8
  <2> QED BY <1>8, <2>1, NamesFDiffer
<1> QED BY <1>1, <1>3, <1>4, <1>5, <1>6, <1>7, <1>8

(* The keys of each list: which tables they name ...                        *)
LEMMA KeysName ==
    /\ \A t : M!With(t)[1] = t /\ M!Without(t)[1] = t /\ M!Never(t)[1] = t
    /\ M!Owner[1] = "companies"
BY DEF M!With, M!Without, M!Never, M!Owner

LEMMA ParentsA == \A k \in 1..8 : \A r \in M!TablesA[k].refs : r[1] = "companies" /\ k > 1
<1>1. \A k \in 1..8 : k = 1 \/ k = 2 \/ k = 3 \/ k = 4 \/ k = 5 \/ k = 6 \/ k = 7 \/ k = 8
    OBVIOUS
<1> QED BY <1>1, KeysName DEF M!TablesA, M!T

LEMMA ParentsB == \A k \in 1..8 : \A r \in M!TablesB[k].refs : r[1] \in {"companies", "plans"}
<1>1. \A k \in 1..8 : k = 1 \/ k = 2 \/ k = 3 \/ k = 4 \/ k = 5 \/ k = 6 \/ k = 7 \/ k = 8
    OBVIOUS
<1> QED BY <1>1, KeysName DEF M!TablesB, M!T

LEMMA ParentsC ==
    \A k \in 1..6 : \A r \in M!TablesC[k].refs :
        r[1] \in {"companies", "automations"} \/ (r[1] = "users" /\ k > 1)
<1>1. \A k \in 1..6 : k = 1 \/ k = 2 \/ k = 3 \/ k = 4 \/ k = 5 \/ k = 6
    OBVIOUS
<1> QED BY <1>1, KeysName DEF M!TablesC, M!T

LEMMA ParentsD ==
    \A k \in 1..6 : \A r \in M!TablesD[k].refs :
        r[1] \in {"companies", "users", "subscriptions", "pipelines", "product_categories", "roles"}
<1>1. \A k \in 1..6 : k = 1 \/ k = 2 \/ k = 3 \/ k = 4 \/ k = 5 \/ k = 6
    OBVIOUS
<1> QED BY <1>1, KeysName DEF M!TablesD, M!T

LEMMA ParentsE ==
    \A k \in 1..8 : \A r \in M!TablesE[k].refs :
        \/ r[1] \in {"companies", "users", "campaigns", "contacts", "tags", "custom_fields",
                     "pipelines", "pipeline_stages", "invoices", "surveys"}
        \/ r[1] = "conversations" /\ k > 3
<1>1. \A k \in 1..8 : k = 1 \/ k = 2 \/ k = 3 \/ k = 4 \/ k = 5 \/ k = 6 \/ k = 7 \/ k = 8
    OBVIOUS
<1> QED BY <1>1, KeysName DEF M!TablesE, M!T

LEMMA ParentsF ==
    \A k \in 1..5 : \A r \in M!TablesF[k].refs :
        \/ r[1] \in {"companies", "users", "contacts", "deals", "conversations",
                     "shipping_providers"}
        \/ r[1] = "shipments" /\ k > 4
<1>1. \A k \in 1..5 : k = 1 \/ k = 2 \/ k = 3 \/ k = 4 \/ k = 5
    OBVIOUS
<1> QED BY <1>1, KeysName DEF M!TablesF, M!T

(* ... and all of them come before.                                         *)
LEMMA ParentsFirst ==
    ASSUME NEW i \in 1..41, NEW r \in M!Created[i].refs
    PROVE  \E j \in 1..(i - 1) : M!Created[j].table = r[1]
<1>1. CASE \E k \in 1..8 : i = k /\ M!Created[i] = M!TablesA[k]
  <2>1. r[1] = "companies" /\ i > 1
      BY <1>1, ParentsA
  <2>2. 1 \in 1..(i - 1)
      BY <2>1
  <2> QED BY <2>1, <2>2, NamesAAt
<1>2. CASE \E k \in 1..8 : i = 8 + k /\ M!Created[i] = M!TablesB[k]
  <2>1. r[1] \in {"companies", "plans"} /\ i > 8
      BY <1>2, ParentsB
  <2>2. 1 \in 1..(i - 1) /\ 2 \in 1..(i - 1)
      BY <2>1
  <2> QED BY <2>1, <2>2, NamesAAt
<1>3. CASE \E k \in 1..6 : i = 16 + k /\ M!Created[i] = M!TablesC[k]
  <2>1. i > 16 /\ (r[1] \in {"companies", "automations"} \/ (r[1] = "users" /\ i > 17))
      BY <1>3, ParentsC
  <2>2. 1 \in 1..(i - 1) /\ 4 \in 1..(i - 1) /\ (i > 17 => 17 \in 1..(i - 1))
      BY <2>1
  <2> QED BY <2>1, <2>2, NamesAAt, NamesCAt
<1>4. CASE \E k \in 1..6 : i = 22 + k /\ M!Created[i] = M!TablesD[k]
  <2>1. /\ i > 22
        /\ r[1] \in {"companies", "users", "subscriptions", "pipelines", "product_categories",
                     "roles"}
      BY <1>4, ParentsD
  <2>2. /\ 1 \in 1..(i - 1) /\ 17 \in 1..(i - 1) /\ 14 \in 1..(i - 1) /\ 11 \in 1..(i - 1)
        /\ 12 \in 1..(i - 1) /\ 3 \in 1..(i - 1)
      BY <2>1
  <2> QED BY <2>1, <2>2, NamesAAt, NamesBAt, NamesCAt
<1>5. CASE \E k \in 1..8 : i = 28 + k /\ M!Created[i] = M!TablesE[k]
  <2>1. /\ i > 28
        /\ \/ r[1] \in {"companies", "users", "campaigns", "contacts", "tags", "custom_fields",
                        "pipelines", "pipeline_stages", "invoices", "surveys"}
           \/ r[1] = "conversations" /\ i > 31
      BY <1>5, ParentsE
  <2>2. /\ 1 \in 1..(i - 1) /\ 17 \in 1..(i - 1) /\ 23 \in 1..(i - 1) /\ 24 \in 1..(i - 1)
        /\ 16 \in 1..(i - 1) /\ 7 \in 1..(i - 1) /\ 11 \in 1..(i - 1) /\ 26 \in 1..(i - 1)
        /\ 25 \in 1..(i - 1) /\ 15 \in 1..(i - 1) /\ (i > 31 => 31 \in 1..(i - 1))
      BY <2>1
  <2> QED BY <2>1, <2>2, NamesAAt, NamesBAt, NamesCAt, NamesDAt, NamesEAt
<1>6. CASE \E k \in 1..5 : i = 36 + k /\ M!Created[i] = M!TablesF[k]
  <2>1. /\ i > 36
        /\ \/ r[1] \in {"companies", "users", "contacts", "deals", "conversations",
                        "shipping_providers"}
           \/ r[1] = "shipments" /\ i > 40
      BY <1>6, ParentsF
  <2>2. /\ 1 \in 1..(i - 1) /\ 17 \in 1..(i - 1) /\ 24 \in 1..(i - 1) /\ 33 \in 1..(i - 1)
        /\ 31 \in 1..(i - 1) /\ 13 \in 1..(i - 1) /\ (i > 40 => 40 \in 1..(i - 1))
      BY <2>1
  <2> QED BY <2>1, <2>2, NamesAAt, NamesBAt, NamesCAt, NamesDAt, NamesEAt, NamesFAt
<1> QED BY <1>1, <1>2, <1>3, <1>4, <1>5, <1>6, Places

(* A table of a company is on the list of the policies.                     *)
LEMMA OwnerKey ==
    /\ \A t : M!With(t) = M!Owner <=> t = "companies"
    /\ \A t : M!Without(t) # M!Owner /\ M!Never(t) # M!Owner
BY DEF M!With, M!Without, M!Never, M!Owner

LEMMA OwnedListed ==
    ASSUME NEW i \in 1..41, M!Owner \in M!Created[i].refs
    PROVE  M!Created[i].table \in M!TENANT_TABLES
<1>1. \A k \in 1..8 : k = 1 \/ k = 2 \/ k = 3 \/ k = 4 \/ k = 5 \/ k = 6 \/ k = 7 \/ k = 8
    OBVIOUS
<1>2. \A k \in 1..8 : M!Owner \in M!TablesA[k].refs => M!TablesA[k].table \in M!TENANT_TABLES
    BY <1>1 DEF M!TablesA, M!T, M!TENANT_TABLES
<1>3. \A k \in 1..8 : M!Owner \in M!TablesB[k].refs => M!TablesB[k].table \in M!TENANT_TABLES
    BY <1>1 DEF M!TablesB, M!T, M!TENANT_TABLES
<1>4. \A k \in 1..6 : M!Owner \in M!TablesC[k].refs => M!TablesC[k].table \in M!TENANT_TABLES
    BY <1>1, OwnerKey DEF M!TablesC, M!T, M!TENANT_TABLES
<1>5. \A k \in 1..6 : M!Owner \in M!TablesD[k].refs => M!TablesD[k].table \in M!TENANT_TABLES
    BY <1>1, OwnerKey DEF M!TablesD, M!T, M!TENANT_TABLES
<1>6. \A k \in 1..8 : M!Owner \in M!TablesE[k].refs => M!TablesE[k].table \in M!TENANT_TABLES
    BY <1>1, OwnerKey DEF M!TablesE, M!T, M!TENANT_TABLES
<1>7. \A k \in 1..5 : M!Owner \in M!TablesF[k].refs => M!TablesF[k].table \in M!TENANT_TABLES
    BY <1>1, OwnerKey DEF M!TablesF, M!T, M!TENANT_TABLES
<1> QED BY <1>2, <1>3, <1>4, <1>5, <1>6, <1>7, Places

LEMMA ListedThere == M!TENANT_TABLES \subseteq M!Tables
<1>1. ASSUME NEW i \in 1..41
      PROVE  M!Created[i].table \in M!Tables
  <2>1. PICK R : M!Created \in Seq(R)
      BY CreatedAt
  <2>2. DOMAIN M!Created = 1..41
      BY <2>1, CreatedAt
  <2> QED BY <2>2 DEF M!Tables
<1>2. \A n \in 1..41 : M!Created[n].table \in M!Tables
    BY <1>1
<1>3. ASSUME NEW t \in M!TENANT_TABLES
      PROVE  \E n \in 1..41 : M!Created[n].table = t
    BY <1>3, NamesAAt, NamesBAt, NamesCAt, NamesDAt, NamesEAt, NamesFAt DEF M!TENANT_TABLES
<1> QED BY <1>2, <1>3

LEMMA CreatedDomain == DOMAIN M!Created = 1..41
<1>1. PICK R : M!Created \in Seq(R)
    BY CreatedAt
<1> QED BY <1>1, CreatedAt

LEMMA RefsAre ==
    ASSUME NEW i \in 1..41
    PROVE  M!Refs(M!Created[i].table) = M!Created[i].refs
<1> DEFINE t == M!Created[i].table
           row == CHOOSE k \in M!ToSet(M!Created) : k.table = t
<1>1. \A k : k \in M!ToSet(M!Created) <=> \E j \in 1..41 : k = M!Created[j]
    BY CreatedDomain DEF M!ToSet
<1>2. \E k \in M!ToSet(M!Created) : k.table = t
    BY <1>1
<1>3. row \in M!ToSet(M!Created) /\ row.table = t
    BY <1>2
<1>4. M!Refs(t) = row.refs
    BY DEF M!Refs
<1> HIDE DEF row
<1>5. PICK j \in 1..41 : row = M!Created[j]
    BY <1>1, <1>3
<1>6. j = i
    BY <1>3, <1>5, CreatedOnce
<1> QED BY <1>4, <1>5, <1>6

LEMMA FirstStands ==
    ASSUME NEW k \in 0..41, NEW t \in First(k)
    PROVE  M!Parents(t) \subseteq First(k)
<1>1. PICK i \in 1..k : t = M!Created[i].table
    BY DEF First
<1>2. i \in 1..41
    OBVIOUS
<1>3. ASSUME NEW r \in M!Refs(t)
      PROVE  r[1] \in First(k)
  <2>1. r \in M!Created[i].refs
      BY <1>1, <1>2, <1>3, RefsAre
  <2>2. PICK j \in 1..(i - 1) : M!Created[j].table = r[1]
      BY <1>2, <2>1, ParentsFirst
  <2>3. j \in 1..k
      BY <1>2
  <2> QED BY <2>2, <2>3 DEF First
<1> QED BY <1>3 DEF M!Parents

LEMMA FirstSteps ==
    /\ First(0) = {} /\ First(41) = M!Tables
    /\ \A k \in 0..41 : First(k) \subseteq M!Tables
    /\ \A k \in 0..40 : First(k + 1) = First(k) \cup {M!Created[k + 1].table}
    /\ \A k \in 0..40 : First(k) = First(k + 1) \ {M!Created[k + 1].table}
<1>1. First(0) = {}
    BY DEF First
<1>2. First(41) = M!Tables
    BY CreatedDomain DEF First, M!Tables
<1>3. ASSUME NEW k \in 0..41
      PROVE  First(k) \subseteq M!Tables
  <2>1. \A i \in 1..k : i \in 1..41
      OBVIOUS
  <2> QED BY <1>2, <2>1 DEF First
<1>4. ASSUME NEW k \in 0..40
      PROVE  First(k + 1) = First(k) \cup {M!Created[k + 1].table}
  <2>1. \A i : i \in 1..(k + 1) <=> i \in 1..k \/ i = k + 1
      OBVIOUS
  <2> QED BY <2>1 DEF First
<1>5. ASSUME NEW k \in 0..40
      PROVE  M!Created[k + 1].table \notin First(k)
  <2>1. ASSUME NEW i \in 1..k, M!Created[k + 1].table = M!Created[i].table
        PROVE  FALSE
    <3>1. i \in 1..41 /\ k + 1 \in 1..41 /\ i # k + 1
        OBVIOUS
    <3> QED BY <2>1, <3>1, CreatedOnce
  <2> QED BY <2>1 DEF First
<1> QED BY <1>1, <1>2, <1>3, <1>4, <1>5

LEMMA IsSequence ==
    ASSUME NEW R, NEW n \in Nat, NEW f \in [1..n -> R]
    PROVE  f \in Seq(R) /\ Len(f) = n
OBVIOUS

LEMMA DroppedAt ==
    /\ Len(M!Dropped) = 41
    /\ \A k \in 1..41 : M!Dropped[k] = M!Created[42 - k].table
<1> DEFINE names == [k \in DOMAIN M!Created |-> M!Created[k].table]
<1>1. names = [k \in 1..41 |-> M!Created[k].table]
    BY CreatedDomain
<1>2. names \in Seq(M!Tables) /\ Len(names) = 41
  <2>1. \A k \in 1..41 : M!Created[k].table \in M!Tables
      BY CreatedDomain DEF M!Tables
  <2> HIDE DEF names
  <2>2. names \in [1..41 -> M!Tables]
      BY <1>1, <2>1
  <2> QED BY <2>2, IsSequence
<1>3. \A k \in 1..41 : names[k] = M!Created[k].table
    BY <1>1
<1>4. M!Dropped = M!Reverse(names)
    BY DEF M!Dropped
<1> HIDE DEF names
<1>5. M!Dropped = [k \in 1..41 |-> names[(41 - k) + 1]]
    BY <1>2, <1>4 DEF M!Reverse
<1>6. \A k \in 1..41 : (41 - k) + 1 = 42 - k /\ 42 - k \in 1..41
    OBVIOUS
<1>7. M!Dropped \in Seq(M!Tables) /\ Len(M!Dropped) = 41
  <2>1. \A k \in 1..41 : names[k] \in M!Tables
      BY <1>3, CreatedDomain DEF M!Tables
  <2>2. \A k \in 1..41 : names[(41 - k) + 1] \in M!Tables
      BY <1>6, <2>1
  <2>3. M!Dropped \in [1..41 -> M!Tables]
      BY <1>5, <2>2
  <2> QED BY <2>3, IsSequence
<1> QED BY <1>3, <1>5, <1>6, <1>7

LEMMA SetsListed ==
    /\ M!TENANT_TABLES \in SUBSET M!Tables /\ M!EXPECTED_RLS_TABLES \in SUBSET M!Tables
    /\ M!TENANT_TABLES \ {"users"} = M!EXPECTED_RLS_TABLES
    /\ M!EXPECTED_RLS_TABLES \cup M!EXPECTED_RLS_TABLES = M!EXPECTED_RLS_TABLES
    /\ M!EXPECTED_RLS_TABLES \cup {"users"} = M!TENANT_TABLES
    /\ M!EXPECTED_RLS_TABLES \subseteq M!TENANT_TABLES
<1>1. "users" \in M!TENANT_TABLES
    BY DEF M!TENANT_TABLES
<1> QED BY <1>1, ListedThere DEF M!EXPECTED_RLS_TABLES

(* One revision up and one down: s and t agree on ...                       *)
SameTables(s, t) == t.rev = s.rev /\ t.tables = s.tables
SamePolicies(s, t) == t.rls = s.rls /\ t.strict = s.strict
SameGrants(s, t) == t.grants = s.grants /\ t.defaults = s.defaults
SameRest(s, t) ==
    t.resolver = s.resolver /\ t.numbers = s.numbers /\ t.public = s.public /\ t.indexes = s.indexes

LEMMA EnableRlsDoes ==
    ASSUME NEW s \in M!Database
    PROVE  /\ M!EnableRls(s) \in M!Database /\ SameTables(s, M!EnableRls(s))
           /\ M!EnableRls(s).rls = M!TENANT_TABLES /\ M!EnableRls(s).strict = TRUE
           /\ SameGrants(s, M!EnableRls(s)) /\ SameRest(s, M!EnableRls(s))
BY SetsListed DEF M!EnableRls, M!Database, SameTables, SameGrants, SameRest

LEMMA DisableRlsDoes ==
    ASSUME NEW s \in M!Database
    PROVE  /\ M!DisableRls(s) \in M!Database /\ SameTables(s, M!DisableRls(s))
           /\ M!DisableRls(s).rls = s.rls \ M!TENANT_TABLES
           /\ SameGrants(s, M!DisableRls(s)) /\ SameRest(s, M!DisableRls(s))
           /\ M!DisableRls(s).strict = s.strict
BY SetsListed DEF M!DisableRls, M!Database, SameTables, SameGrants, SameRest

LEMMA GrantAppDoes ==
    ASSUME NEW s \in M!Database
    PROVE  /\ M!GrantApp(s) \in M!Database /\ SameTables(s, M!GrantApp(s))
           /\ M!GrantApp(s).grants = TRUE /\ M!GrantApp(s).defaults = TRUE
           /\ SamePolicies(s, M!GrantApp(s)) /\ SameRest(s, M!GrantApp(s))
BY SetsListed DEF M!GrantApp, M!Database, SameTables, SamePolicies, SameRest

LEMMA RevokeAppDoes ==
    ASSUME NEW s \in M!Database
    PROVE  /\ M!RevokeApp(s) \in M!Database /\ SameTables(s, M!RevokeApp(s))
           /\ M!RevokeApp(s).grants = FALSE /\ M!RevokeApp(s).defaults = FALSE
           /\ SamePolicies(s, M!RevokeApp(s)) /\ SameRest(s, M!RevokeApp(s))
BY SetsListed DEF M!RevokeApp, M!Database, SameTables, SamePolicies, SameRest

LEMMA ExcludeUsersDoes ==
    ASSUME NEW s \in M!Database
    PROVE  /\ M!ExcludeUsers(s) \in M!Database /\ SameTables(s, M!ExcludeUsers(s))
           /\ M!ExcludeUsers(s).rls = s.rls \ {"users"}
           /\ SameGrants(s, M!ExcludeUsers(s)) /\ SameRest(s, M!ExcludeUsers(s))
           /\ M!ExcludeUsers(s).strict = s.strict
BY SetsListed DEF M!ExcludeUsers, M!Database, SameTables, SameGrants, SameRest

LEMMA IncludeUsersDoes ==
    ASSUME NEW s \in M!Database
    PROVE  /\ M!IncludeUsers(s) \in M!Database /\ SameTables(s, M!IncludeUsers(s))
           /\ M!IncludeUsers(s).rls = s.rls \cup {"users"}
           /\ SameGrants(s, M!IncludeUsers(s)) /\ SameRest(s, M!IncludeUsers(s))
           /\ M!IncludeUsers(s).strict = s.strict
BY SetsListed DEF M!IncludeUsers, M!Database, SameTables, SameGrants, SameRest

LEMMA AddResolverDoes ==
    ASSUME NEW s \in M!Database
    PROVE  /\ M!AddResolver(s) \in M!Database /\ SameTables(s, M!AddResolver(s))
           /\ M!AddResolver(s).resolver = TRUE
           /\ SamePolicies(s, M!AddResolver(s)) /\ SameGrants(s, M!AddResolver(s))
           /\ M!AddResolver(s).numbers = s.numbers /\ M!AddResolver(s).public = s.public
           /\ M!AddResolver(s).indexes = s.indexes
BY SetsListed DEF M!AddResolver, M!Database, SameTables, SamePolicies, SameGrants

LEMMA DropResolverDoes ==
    ASSUME NEW s \in M!Database
    PROVE  /\ M!DropResolver(s) \in M!Database /\ SameTables(s, M!DropResolver(s))
           /\ M!DropResolver(s).resolver = FALSE
           /\ SamePolicies(s, M!DropResolver(s)) /\ SameGrants(s, M!DropResolver(s))
           /\ M!DropResolver(s).numbers = s.numbers /\ M!DropResolver(s).public = s.public
           /\ M!DropResolver(s).indexes = s.indexes
BY SetsListed DEF M!DropResolver, M!Database, SameTables, SamePolicies, SameGrants

LEMMA HardenDoes ==
    ASSUME NEW s \in M!Database
    PROVE  /\ M!Harden(s) \in M!Database /\ SameTables(s, M!Harden(s))
           /\ M!Harden(s).rls = s.rls \cup M!EXPECTED_RLS_TABLES /\ M!Harden(s).strict = FALSE
           /\ SameGrants(s, M!Harden(s)) /\ SameRest(s, M!Harden(s))
BY SetsListed DEF M!Harden, M!Database, SameTables, SameGrants, SameRest

LEMMA SoftenDoes ==
    ASSUME NEW s \in M!Database
    PROVE  /\ M!Soften(s) \in M!Database /\ SameTables(s, M!Soften(s))
           /\ M!Soften(s).rls = s.rls \cup M!EXPECTED_RLS_TABLES /\ M!Soften(s).strict = TRUE
           /\ SameGrants(s, M!Soften(s)) /\ SameRest(s, M!Soften(s))
BY SetsListed DEF M!Soften, M!Database, SameTables, SameGrants, SameRest

LEMMA NumberPerCompanyDoes ==
    ASSUME NEW s \in M!Database
    PROVE  /\ M!NumberPerCompany(s) \in M!Database /\ SameTables(s, M!NumberPerCompany(s))
           /\ M!NumberPerCompany(s).numbers = "company"
           /\ SamePolicies(s, M!NumberPerCompany(s)) /\ SameGrants(s, M!NumberPerCompany(s))
           /\ M!NumberPerCompany(s).resolver = s.resolver /\ M!NumberPerCompany(s).public = s.public
           /\ M!NumberPerCompany(s).indexes = s.indexes
BY SetsListed DEF M!NumberPerCompany, M!Database, SameTables, SamePolicies, SameGrants

LEMMA NumberGloballyDoes ==
    ASSUME NEW s \in M!Database
    PROVE  /\ M!NumberGlobally(s) \in M!Database /\ SameTables(s, M!NumberGlobally(s))
           /\ M!NumberGlobally(s).numbers = "global"
           /\ SamePolicies(s, M!NumberGlobally(s)) /\ SameGrants(s, M!NumberGlobally(s))
           /\ M!NumberGlobally(s).resolver = s.resolver /\ M!NumberGlobally(s).public = s.public
           /\ M!NumberGlobally(s).indexes = s.indexes
BY SetsListed DEF M!NumberGlobally, M!Database, SameTables, SamePolicies, SameGrants

LEMMA PublicPagesDoes ==
    ASSUME NEW s \in M!Database
    PROVE  /\ M!PublicPages(s) \in M!Database /\ SameTables(s, M!PublicPages(s))
           /\ M!PublicPages(s).public = TRUE
           /\ SamePolicies(s, M!PublicPages(s)) /\ SameGrants(s, M!PublicPages(s))
           /\ M!PublicPages(s).resolver = s.resolver /\ M!PublicPages(s).numbers = s.numbers
           /\ M!PublicPages(s).indexes = s.indexes
BY SetsListed DEF M!PublicPages, M!Database, SameTables, SamePolicies, SameGrants

LEMMA PrivatePagesDoes ==
    ASSUME NEW s \in M!Database
    PROVE  /\ M!PrivatePages(s) \in M!Database /\ SameTables(s, M!PrivatePages(s))
           /\ M!PrivatePages(s).public = FALSE
           /\ SamePolicies(s, M!PrivatePages(s)) /\ SameGrants(s, M!PrivatePages(s))
           /\ M!PrivatePages(s).resolver = s.resolver /\ M!PrivatePages(s).numbers = s.numbers
           /\ M!PrivatePages(s).indexes = s.indexes
BY SetsListed DEF M!PrivatePages, M!Database, SameTables, SamePolicies, SameGrants

LEMMA AddIndexesDoes ==
    ASSUME NEW s \in M!Database
    PROVE  /\ M!AddIndexes(s) \in M!Database /\ SameTables(s, M!AddIndexes(s))
           /\ M!AddIndexes(s).indexes = TRUE
           /\ SamePolicies(s, M!AddIndexes(s)) /\ SameGrants(s, M!AddIndexes(s))
           /\ M!AddIndexes(s).resolver = s.resolver /\ M!AddIndexes(s).numbers = s.numbers
           /\ M!AddIndexes(s).public = s.public
BY SetsListed DEF M!AddIndexes, M!Database, SameTables, SamePolicies, SameGrants

LEMMA DropIndexesDoes ==
    ASSUME NEW s \in M!Database
    PROVE  /\ M!DropIndexes(s) \in M!Database /\ SameTables(s, M!DropIndexes(s))
           /\ M!DropIndexes(s).indexes = FALSE
           /\ SamePolicies(s, M!DropIndexes(s)) /\ SameGrants(s, M!DropIndexes(s))
           /\ M!DropIndexes(s).resolver = s.resolver /\ M!DropIndexes(s).numbers = s.numbers
           /\ M!DropIndexes(s).public = s.public
BY SetsListed DEF M!DropIndexes, M!Database, SameTables, SamePolicies, SameGrants

LEMMA DoneFits ==
    ASSUME NEW s \in M!Database, s.rev + 1 \in 0..M!Latest, NEW t, t = [s EXCEPT !.rev = @ + 1]
    PROVE  /\ t \in M!Database /\ t.rev = s.rev + 1 /\ t.tables = s.tables
           /\ SamePolicies(s, t) /\ SameGrants(s, t) /\ SameRest(s, t)
BY DEF M!Database, SamePolicies, SameGrants, SameRest

LEMMA UndoneFits ==
    ASSUME NEW s \in M!Database, s.rev - 1 \in 0..M!Latest, NEW t, t = [s EXCEPT !.rev = @ - 1]
    PROVE  /\ t \in M!Database /\ t.rev = s.rev - 1 /\ t.tables = s.tables
           /\ SamePolicies(s, t) /\ SameGrants(s, t) /\ SameRest(s, t)
BY DEF M!Database, SamePolicies, SameGrants, SameRest

LEMMA UpFits ==
    ASSUME NEW s \in M!Database, Fits(s), s.rev > 0, s.rev < M!Latest
    PROVE  /\ M!Up(s) \in M!Database /\ Fits(M!Up(s))
           /\ M!Up(s).rev = s.rev + 1 /\ M!Up(s).tables = s.tables
<1>0. s.rev = 1 \/ s.rev = 2 \/ s.rev = 3 \/ s.rev = 4 \/ s.rev = 5
        \/ s.rev = 6 \/ s.rev = 7 \/ s.rev = 8
    BY DEF M!Database, M!Latest
<1>1. CASE s.rev = 1
  <2>1. M!Up(s) = [M!EnableRls(s) EXCEPT !.rev = @ + 1]
      BY <1>1 DEF M!Up
  <2>2. /\ M!EnableRls(s) \in M!Database /\ SameTables(s, M!EnableRls(s))
        /\ M!EnableRls(s).rls = M!TENANT_TABLES /\ M!EnableRls(s).strict = TRUE
        /\ SameGrants(s, M!EnableRls(s)) /\ SameRest(s, M!EnableRls(s))
      BY EnableRlsDoes
  <2>3. M!EnableRls(s).rev + 1 \in 0..M!Latest
      BY <1>1, <2>2 DEF SameTables, M!Latest
  <2>4. /\ M!Up(s) \in M!Database
        /\ M!Up(s).rev = M!EnableRls(s).rev + 1
        /\ M!Up(s).tables = M!EnableRls(s).tables
        /\ SamePolicies(M!EnableRls(s), M!Up(s))
        /\ SameGrants(M!EnableRls(s), M!Up(s))
        /\ SameRest(M!EnableRls(s), M!Up(s))
      BY <2>1, <2>2, <2>3, DoneFits
  <2> QED
      BY <1>1, <2>2, <2>4, SetsListed
         DEF Fits, SameTables, SamePolicies, SameGrants, SameRest
<1>2. CASE s.rev = 2
  <2>1. M!Up(s) = [M!GrantApp(s) EXCEPT !.rev = @ + 1]
      BY <1>2 DEF M!Up
  <2>2. /\ M!GrantApp(s) \in M!Database /\ SameTables(s, M!GrantApp(s))
        /\ M!GrantApp(s).grants = TRUE /\ M!GrantApp(s).defaults = TRUE
        /\ SamePolicies(s, M!GrantApp(s)) /\ SameRest(s, M!GrantApp(s))
      BY GrantAppDoes
  <2>3. M!GrantApp(s).rev + 1 \in 0..M!Latest
      BY <1>2, <2>2 DEF SameTables, M!Latest
  <2>4. /\ M!Up(s) \in M!Database
        /\ M!Up(s).rev = M!GrantApp(s).rev + 1
        /\ M!Up(s).tables = M!GrantApp(s).tables
        /\ SamePolicies(M!GrantApp(s), M!Up(s))
        /\ SameGrants(M!GrantApp(s), M!Up(s))
        /\ SameRest(M!GrantApp(s), M!Up(s))
      BY <2>1, <2>2, <2>3, DoneFits
  <2> QED
      BY <1>2, <2>2, <2>4, SetsListed
         DEF Fits, SameTables, SamePolicies, SameGrants, SameRest
<1>3. CASE s.rev = 3
  <2>1. M!Up(s) = [M!ExcludeUsers(s) EXCEPT !.rev = @ + 1]
      BY <1>3 DEF M!Up
  <2>2. /\ M!ExcludeUsers(s) \in M!Database /\ SameTables(s, M!ExcludeUsers(s))
        /\ M!ExcludeUsers(s).rls = s.rls \ {"users"}
        /\ SameGrants(s, M!ExcludeUsers(s)) /\ SameRest(s, M!ExcludeUsers(s))
        /\ M!ExcludeUsers(s).strict = s.strict
      BY ExcludeUsersDoes
  <2>3. M!ExcludeUsers(s).rev + 1 \in 0..M!Latest
      BY <1>3, <2>2 DEF SameTables, M!Latest
  <2>4. /\ M!Up(s) \in M!Database
        /\ M!Up(s).rev = M!ExcludeUsers(s).rev + 1
        /\ M!Up(s).tables = M!ExcludeUsers(s).tables
        /\ SamePolicies(M!ExcludeUsers(s), M!Up(s))
        /\ SameGrants(M!ExcludeUsers(s), M!Up(s))
        /\ SameRest(M!ExcludeUsers(s), M!Up(s))
      BY <2>1, <2>2, <2>3, DoneFits
  <2> QED
      BY <1>3, <2>2, <2>4, SetsListed
         DEF Fits, SameTables, SamePolicies, SameGrants, SameRest
<1>4. CASE s.rev = 4
  <2>1. M!Up(s) = [M!AddResolver(s) EXCEPT !.rev = @ + 1]
      BY <1>4 DEF M!Up
  <2>2. /\ M!AddResolver(s) \in M!Database /\ SameTables(s, M!AddResolver(s))
        /\ M!AddResolver(s).resolver = TRUE
        /\ SamePolicies(s, M!AddResolver(s)) /\ SameGrants(s, M!AddResolver(s))
        /\ M!AddResolver(s).numbers = s.numbers /\ M!AddResolver(s).public = s.public
        /\ M!AddResolver(s).indexes = s.indexes
      BY AddResolverDoes
  <2>3. M!AddResolver(s).rev + 1 \in 0..M!Latest
      BY <1>4, <2>2 DEF SameTables, M!Latest
  <2>4. /\ M!Up(s) \in M!Database
        /\ M!Up(s).rev = M!AddResolver(s).rev + 1
        /\ M!Up(s).tables = M!AddResolver(s).tables
        /\ SamePolicies(M!AddResolver(s), M!Up(s))
        /\ SameGrants(M!AddResolver(s), M!Up(s))
        /\ SameRest(M!AddResolver(s), M!Up(s))
      BY <2>1, <2>2, <2>3, DoneFits
  <2> QED
      BY <1>4, <2>2, <2>4, SetsListed
         DEF Fits, SameTables, SamePolicies, SameGrants, SameRest
<1>5. CASE s.rev = 5
  <2>1. M!Up(s) = [M!Harden(s) EXCEPT !.rev = @ + 1]
      BY <1>5 DEF M!Up
  <2>2. /\ M!Harden(s) \in M!Database /\ SameTables(s, M!Harden(s))
        /\ M!Harden(s).rls = s.rls \cup M!EXPECTED_RLS_TABLES /\ M!Harden(s).strict = FALSE
        /\ SameGrants(s, M!Harden(s)) /\ SameRest(s, M!Harden(s))
      BY HardenDoes
  <2>3. M!Harden(s).rev + 1 \in 0..M!Latest
      BY <1>5, <2>2 DEF SameTables, M!Latest
  <2>4. /\ M!Up(s) \in M!Database
        /\ M!Up(s).rev = M!Harden(s).rev + 1
        /\ M!Up(s).tables = M!Harden(s).tables
        /\ SamePolicies(M!Harden(s), M!Up(s))
        /\ SameGrants(M!Harden(s), M!Up(s))
        /\ SameRest(M!Harden(s), M!Up(s))
      BY <2>1, <2>2, <2>3, DoneFits
  <2> QED
      BY <1>5, <2>2, <2>4, SetsListed
         DEF Fits, SameTables, SamePolicies, SameGrants, SameRest
<1>6. CASE s.rev = 6
  <2>1. M!Up(s) = [M!NumberPerCompany(s) EXCEPT !.rev = @ + 1]
      BY <1>6 DEF M!Up
  <2>2. /\ M!NumberPerCompany(s) \in M!Database /\ SameTables(s, M!NumberPerCompany(s))
        /\ M!NumberPerCompany(s).numbers = "company"
        /\ SamePolicies(s, M!NumberPerCompany(s)) /\ SameGrants(s, M!NumberPerCompany(s))
        /\ M!NumberPerCompany(s).resolver = s.resolver /\ M!NumberPerCompany(s).public = s.public
        /\ M!NumberPerCompany(s).indexes = s.indexes
      BY NumberPerCompanyDoes
  <2>3. M!NumberPerCompany(s).rev + 1 \in 0..M!Latest
      BY <1>6, <2>2 DEF SameTables, M!Latest
  <2>4. /\ M!Up(s) \in M!Database
        /\ M!Up(s).rev = M!NumberPerCompany(s).rev + 1
        /\ M!Up(s).tables = M!NumberPerCompany(s).tables
        /\ SamePolicies(M!NumberPerCompany(s), M!Up(s))
        /\ SameGrants(M!NumberPerCompany(s), M!Up(s))
        /\ SameRest(M!NumberPerCompany(s), M!Up(s))
      BY <2>1, <2>2, <2>3, DoneFits
  <2> QED
      BY <1>6, <2>2, <2>4, SetsListed
         DEF Fits, SameTables, SamePolicies, SameGrants, SameRest
<1>7. CASE s.rev = 7
  <2>1. M!Up(s) = [M!PublicPages(s) EXCEPT !.rev = @ + 1]
      BY <1>7 DEF M!Up
  <2>2. /\ M!PublicPages(s) \in M!Database /\ SameTables(s, M!PublicPages(s))
        /\ M!PublicPages(s).public = TRUE
        /\ SamePolicies(s, M!PublicPages(s)) /\ SameGrants(s, M!PublicPages(s))
        /\ M!PublicPages(s).resolver = s.resolver /\ M!PublicPages(s).numbers = s.numbers
        /\ M!PublicPages(s).indexes = s.indexes
      BY PublicPagesDoes
  <2>3. M!PublicPages(s).rev + 1 \in 0..M!Latest
      BY <1>7, <2>2 DEF SameTables, M!Latest
  <2>4. /\ M!Up(s) \in M!Database
        /\ M!Up(s).rev = M!PublicPages(s).rev + 1
        /\ M!Up(s).tables = M!PublicPages(s).tables
        /\ SamePolicies(M!PublicPages(s), M!Up(s))
        /\ SameGrants(M!PublicPages(s), M!Up(s))
        /\ SameRest(M!PublicPages(s), M!Up(s))
      BY <2>1, <2>2, <2>3, DoneFits
  <2> QED
      BY <1>7, <2>2, <2>4, SetsListed
         DEF Fits, SameTables, SamePolicies, SameGrants, SameRest
<1>8. CASE s.rev = 8
  <2>1. M!Up(s) = [M!AddIndexes(s) EXCEPT !.rev = @ + 1]
      BY <1>8 DEF M!Up
  <2>2. /\ M!AddIndexes(s) \in M!Database /\ SameTables(s, M!AddIndexes(s))
        /\ M!AddIndexes(s).indexes = TRUE
        /\ SamePolicies(s, M!AddIndexes(s)) /\ SameGrants(s, M!AddIndexes(s))
        /\ M!AddIndexes(s).resolver = s.resolver /\ M!AddIndexes(s).numbers = s.numbers
        /\ M!AddIndexes(s).public = s.public
      BY AddIndexesDoes
  <2>3. M!AddIndexes(s).rev + 1 \in 0..M!Latest
      BY <1>8, <2>2 DEF SameTables, M!Latest
  <2>4. /\ M!Up(s) \in M!Database
        /\ M!Up(s).rev = M!AddIndexes(s).rev + 1
        /\ M!Up(s).tables = M!AddIndexes(s).tables
        /\ SamePolicies(M!AddIndexes(s), M!Up(s))
        /\ SameGrants(M!AddIndexes(s), M!Up(s))
        /\ SameRest(M!AddIndexes(s), M!Up(s))
      BY <2>1, <2>2, <2>3, DoneFits
  <2> QED
      BY <1>8, <2>2, <2>4, SetsListed
         DEF Fits, SameTables, SamePolicies, SameGrants, SameRest
<1> QED BY <1>0, <1>1, <1>2, <1>3, <1>4, <1>5, <1>6, <1>7, <1>8

LEMMA DownFits ==
    ASSUME NEW s \in M!Database, Fits(s), s.rev > 1
    PROVE  /\ M!Down(s) \in M!Database /\ Fits(M!Down(s))
           /\ M!Down(s).rev = s.rev - 1 /\ M!Down(s).tables = s.tables
<1>0. s.rev = 2 \/ s.rev = 3 \/ s.rev = 4 \/ s.rev = 5 \/ s.rev = 6
        \/ s.rev = 7 \/ s.rev = 8 \/ s.rev = 9
    BY DEF M!Database, M!Latest
<1>1. CASE s.rev = 2
  <2>1. M!Down(s) = [M!DisableRls(s) EXCEPT !.rev = @ - 1]
      BY <1>1 DEF M!Down
  <2>2. /\ M!DisableRls(s) \in M!Database /\ SameTables(s, M!DisableRls(s))
        /\ M!DisableRls(s).rls = s.rls \ M!TENANT_TABLES
        /\ SameGrants(s, M!DisableRls(s)) /\ SameRest(s, M!DisableRls(s))
        /\ M!DisableRls(s).strict = s.strict
      BY DisableRlsDoes
  <2>3. M!DisableRls(s).rev - 1 \in 0..M!Latest
      BY <1>1, <2>2 DEF SameTables, M!Latest
  <2>4. /\ M!Down(s) \in M!Database
        /\ M!Down(s).rev = M!DisableRls(s).rev - 1
        /\ M!Down(s).tables = M!DisableRls(s).tables
        /\ SamePolicies(M!DisableRls(s), M!Down(s))
        /\ SameGrants(M!DisableRls(s), M!Down(s))
        /\ SameRest(M!DisableRls(s), M!Down(s))
      BY <2>1, <2>2, <2>3, UndoneFits
  <2> QED
      BY <1>1, <2>2, <2>4, SetsListed
         DEF Fits, SameTables, SamePolicies, SameGrants, SameRest
<1>2. CASE s.rev = 3
  <2>1. M!Down(s) = [M!RevokeApp(s) EXCEPT !.rev = @ - 1]
      BY <1>2 DEF M!Down
  <2>2. /\ M!RevokeApp(s) \in M!Database /\ SameTables(s, M!RevokeApp(s))
        /\ M!RevokeApp(s).grants = FALSE /\ M!RevokeApp(s).defaults = FALSE
        /\ SamePolicies(s, M!RevokeApp(s)) /\ SameRest(s, M!RevokeApp(s))
      BY RevokeAppDoes
  <2>3. M!RevokeApp(s).rev - 1 \in 0..M!Latest
      BY <1>2, <2>2 DEF SameTables, M!Latest
  <2>4. /\ M!Down(s) \in M!Database
        /\ M!Down(s).rev = M!RevokeApp(s).rev - 1
        /\ M!Down(s).tables = M!RevokeApp(s).tables
        /\ SamePolicies(M!RevokeApp(s), M!Down(s))
        /\ SameGrants(M!RevokeApp(s), M!Down(s))
        /\ SameRest(M!RevokeApp(s), M!Down(s))
      BY <2>1, <2>2, <2>3, UndoneFits
  <2> QED
      BY <1>2, <2>2, <2>4, SetsListed
         DEF Fits, SameTables, SamePolicies, SameGrants, SameRest
<1>3. CASE s.rev = 4
  <2>1. M!Down(s) = [M!IncludeUsers(s) EXCEPT !.rev = @ - 1]
      BY <1>3 DEF M!Down
  <2>2. /\ M!IncludeUsers(s) \in M!Database /\ SameTables(s, M!IncludeUsers(s))
        /\ M!IncludeUsers(s).rls = s.rls \cup {"users"}
        /\ SameGrants(s, M!IncludeUsers(s)) /\ SameRest(s, M!IncludeUsers(s))
        /\ M!IncludeUsers(s).strict = s.strict
      BY IncludeUsersDoes
  <2>3. M!IncludeUsers(s).rev - 1 \in 0..M!Latest
      BY <1>3, <2>2 DEF SameTables, M!Latest
  <2>4. /\ M!Down(s) \in M!Database
        /\ M!Down(s).rev = M!IncludeUsers(s).rev - 1
        /\ M!Down(s).tables = M!IncludeUsers(s).tables
        /\ SamePolicies(M!IncludeUsers(s), M!Down(s))
        /\ SameGrants(M!IncludeUsers(s), M!Down(s))
        /\ SameRest(M!IncludeUsers(s), M!Down(s))
      BY <2>1, <2>2, <2>3, UndoneFits
  <2> QED
      BY <1>3, <2>2, <2>4, SetsListed
         DEF Fits, SameTables, SamePolicies, SameGrants, SameRest
<1>4. CASE s.rev = 5
  <2>1. M!Down(s) = [M!DropResolver(s) EXCEPT !.rev = @ - 1]
      BY <1>4 DEF M!Down
  <2>2. /\ M!DropResolver(s) \in M!Database /\ SameTables(s, M!DropResolver(s))
        /\ M!DropResolver(s).resolver = FALSE
        /\ SamePolicies(s, M!DropResolver(s)) /\ SameGrants(s, M!DropResolver(s))
        /\ M!DropResolver(s).numbers = s.numbers /\ M!DropResolver(s).public = s.public
        /\ M!DropResolver(s).indexes = s.indexes
      BY DropResolverDoes
  <2>3. M!DropResolver(s).rev - 1 \in 0..M!Latest
      BY <1>4, <2>2 DEF SameTables, M!Latest
  <2>4. /\ M!Down(s) \in M!Database
        /\ M!Down(s).rev = M!DropResolver(s).rev - 1
        /\ M!Down(s).tables = M!DropResolver(s).tables
        /\ SamePolicies(M!DropResolver(s), M!Down(s))
        /\ SameGrants(M!DropResolver(s), M!Down(s))
        /\ SameRest(M!DropResolver(s), M!Down(s))
      BY <2>1, <2>2, <2>3, UndoneFits
  <2> QED
      BY <1>4, <2>2, <2>4, SetsListed
         DEF Fits, SameTables, SamePolicies, SameGrants, SameRest
<1>5. CASE s.rev = 6
  <2>1. M!Down(s) = [M!Soften(s) EXCEPT !.rev = @ - 1]
      BY <1>5 DEF M!Down
  <2>2. /\ M!Soften(s) \in M!Database /\ SameTables(s, M!Soften(s))
        /\ M!Soften(s).rls = s.rls \cup M!EXPECTED_RLS_TABLES /\ M!Soften(s).strict = TRUE
        /\ SameGrants(s, M!Soften(s)) /\ SameRest(s, M!Soften(s))
      BY SoftenDoes
  <2>3. M!Soften(s).rev - 1 \in 0..M!Latest
      BY <1>5, <2>2 DEF SameTables, M!Latest
  <2>4. /\ M!Down(s) \in M!Database
        /\ M!Down(s).rev = M!Soften(s).rev - 1
        /\ M!Down(s).tables = M!Soften(s).tables
        /\ SamePolicies(M!Soften(s), M!Down(s))
        /\ SameGrants(M!Soften(s), M!Down(s))
        /\ SameRest(M!Soften(s), M!Down(s))
      BY <2>1, <2>2, <2>3, UndoneFits
  <2> QED
      BY <1>5, <2>2, <2>4, SetsListed
         DEF Fits, SameTables, SamePolicies, SameGrants, SameRest
<1>6. CASE s.rev = 7
  <2>1. M!Down(s) = [M!NumberGlobally(s) EXCEPT !.rev = @ - 1]
      BY <1>6 DEF M!Down
  <2>2. /\ M!NumberGlobally(s) \in M!Database /\ SameTables(s, M!NumberGlobally(s))
        /\ M!NumberGlobally(s).numbers = "global"
        /\ SamePolicies(s, M!NumberGlobally(s)) /\ SameGrants(s, M!NumberGlobally(s))
        /\ M!NumberGlobally(s).resolver = s.resolver /\ M!NumberGlobally(s).public = s.public
        /\ M!NumberGlobally(s).indexes = s.indexes
      BY NumberGloballyDoes
  <2>3. M!NumberGlobally(s).rev - 1 \in 0..M!Latest
      BY <1>6, <2>2 DEF SameTables, M!Latest
  <2>4. /\ M!Down(s) \in M!Database
        /\ M!Down(s).rev = M!NumberGlobally(s).rev - 1
        /\ M!Down(s).tables = M!NumberGlobally(s).tables
        /\ SamePolicies(M!NumberGlobally(s), M!Down(s))
        /\ SameGrants(M!NumberGlobally(s), M!Down(s))
        /\ SameRest(M!NumberGlobally(s), M!Down(s))
      BY <2>1, <2>2, <2>3, UndoneFits
  <2> QED
      BY <1>6, <2>2, <2>4, SetsListed
         DEF Fits, SameTables, SamePolicies, SameGrants, SameRest
<1>7. CASE s.rev = 8
  <2>1. M!Down(s) = [M!PrivatePages(s) EXCEPT !.rev = @ - 1]
      BY <1>7 DEF M!Down
  <2>2. /\ M!PrivatePages(s) \in M!Database /\ SameTables(s, M!PrivatePages(s))
        /\ M!PrivatePages(s).public = FALSE
        /\ SamePolicies(s, M!PrivatePages(s)) /\ SameGrants(s, M!PrivatePages(s))
        /\ M!PrivatePages(s).resolver = s.resolver /\ M!PrivatePages(s).numbers = s.numbers
        /\ M!PrivatePages(s).indexes = s.indexes
      BY PrivatePagesDoes
  <2>3. M!PrivatePages(s).rev - 1 \in 0..M!Latest
      BY <1>7, <2>2 DEF SameTables, M!Latest
  <2>4. /\ M!Down(s) \in M!Database
        /\ M!Down(s).rev = M!PrivatePages(s).rev - 1
        /\ M!Down(s).tables = M!PrivatePages(s).tables
        /\ SamePolicies(M!PrivatePages(s), M!Down(s))
        /\ SameGrants(M!PrivatePages(s), M!Down(s))
        /\ SameRest(M!PrivatePages(s), M!Down(s))
      BY <2>1, <2>2, <2>3, UndoneFits
  <2> QED
      BY <1>7, <2>2, <2>4, SetsListed
         DEF Fits, SameTables, SamePolicies, SameGrants, SameRest
<1>8. CASE s.rev = 9
  <2>1. M!Down(s) = [M!DropIndexes(s) EXCEPT !.rev = @ - 1]
      BY <1>8 DEF M!Down
  <2>2. /\ M!DropIndexes(s) \in M!Database /\ SameTables(s, M!DropIndexes(s))
        /\ M!DropIndexes(s).indexes = FALSE
        /\ SamePolicies(s, M!DropIndexes(s)) /\ SameGrants(s, M!DropIndexes(s))
        /\ M!DropIndexes(s).resolver = s.resolver /\ M!DropIndexes(s).numbers = s.numbers
        /\ M!DropIndexes(s).public = s.public
      BY DropIndexesDoes
  <2>3. M!DropIndexes(s).rev - 1 \in 0..M!Latest
      BY <1>8, <2>2 DEF SameTables, M!Latest
  <2>4. /\ M!Down(s) \in M!Database
        /\ M!Down(s).rev = M!DropIndexes(s).rev - 1
        /\ M!Down(s).tables = M!DropIndexes(s).tables
        /\ SamePolicies(M!DropIndexes(s), M!Down(s))
        /\ SameGrants(M!DropIndexes(s), M!Down(s))
        /\ SameRest(M!DropIndexes(s), M!Down(s))
      BY <2>1, <2>2, <2>3, UndoneFits
  <2> QED
      BY <1>8, <2>2, <2>4, SetsListed
         DEF Fits, SameTables, SamePolicies, SameGrants, SameRest
<1> QED BY <1>0, <1>1, <1>2, <1>3, <1>4, <1>5, <1>6, <1>7, <1>8

-----------------------------------------------------------------------------
(* The steps.                                                               *)
Commanding == [to : 0..M!Latest, so : M!Database, at : 0..40]

LEMMA InitMig == M!Init => MigInv
<1> SUFFICES ASSUME M!Init PROVE MigInv
    OBVIOUS
<1>1. PICK d \in BOOLEAN : stored = M!Empty(d)
    BY DEF M!Init
<1>2. stored \in M!Database /\ stored.rev = 0 /\ stored.tables = {} /\ Fits(stored)
    BY <1>1 DEF M!Empty, M!Database, Fits, M!Latest
<1>3. stored.tables = First(There(stored, 0))
    BY <1>2, FirstSteps DEF There
<1> QED BY <1>2, <1>3 DEF MigInv, StoredFits, CommandFits, M!Init

LEMMA StartMig == ASSUME MigInv, NEW to \in 0..M!Latest, M!Start(to) PROVE MigInv'
<1>1. /\ command' = [to |-> to, so |-> stored, at |-> 0]
      /\ stored' = stored /\ clash' = clash
    BY DEF M!Start
<1>2. /\ command'.to = to /\ command'.so = stored /\ command'.at = 0
      /\ command' \in [to : 0..M!Latest, so : M!Database, at : 0..40]
    BY <1>1 DEF MigInv, StoredFits
<1> QED BY <1>1, <1>2 DEF MigInv, StoredFits, CommandFits

LEMMA FinishMig == ASSUME MigInv, M!Finish PROVE MigInv'
<1>1. /\ command # M!Idle /\ command.to = command.so.rev
      /\ stored' = command.so /\ clash' = (clash /\ stored'.rev > 0) /\ command' = M!Idle
    BY DEF M!Finish
<1>2. /\ command.so \in M!Database /\ Fits(command.so)
      /\ command.so.tables = First(There(command.so, command.at))
      /\ command.at \in 0..40
      /\ command.at > 0 => \/ command.so.rev = 0 /\ command.to > 0
                           \/ command.so.rev = 1 /\ command.to = 0
      /\ clash => command.so.rev >= 7
    BY <1>1 DEF MigInv, CommandFits
<1>3. command.at = 0
    BY <1>1, <1>2 DEF M!Database
<1>4. clash' \in BOOLEAN /\ (clash' => clash)
    BY <1>1
<1> QED BY <1>1, <1>2, <1>3, <1>4 DEF MigInv, StoredFits, CommandFits

LEMMA FailMig == ASSUME MigInv, M!Fail PROVE MigInv'
BY DEF MigInv, StoredFits, CommandFits, M!Fail

LEMMA SameNumberMig == ASSUME MigInv, M!SameNumber PROVE MigInv'
<1>1. /\ command = M!Idle /\ stored.rev > 0 /\ stored.numbers = "company" /\ clash' = TRUE
      /\ stored' = stored /\ command' = command
    BY DEF M!SameNumber
<1>2. stored.rev >= 7
    BY <1>1 DEF MigInv, StoredFits, Fits
<1> QED BY <1>1, <1>2 DEF MigInv, StoredFits, CommandFits

LEMMA CreateMig == ASSUME MigInv, M!CreateTable PROVE MigInv'
<1> DEFINE k == command.at + 1
           at == IF k = Len(M!Created) THEN 0 ELSE k
           rev == IF k = Len(M!Created) THEN 1 ELSE 0
           s == command.so
           t == M!WithTable(s, k)
<1>1. /\ command # M!Idle /\ command.to > s.rev /\ s.rev = 0
      /\ command' = [command EXCEPT !.at = at, !.so = t]
      /\ UNCHANGED <<stored, clash>>
    BY DEF M!CreateTable
<1>2. /\ command \in Commanding /\ s \in M!Database /\ Fits(s)
      /\ s.tables = First(command.at) /\ command.at \in 0..40 /\ ~clash
      /\ stored.defaults \in BOOLEAN /\ clash \in BOOLEAN
    BY <1>1 DEF MigInv, StoredFits, CommandFits, There, Commanding, M!Database
<1>3. (k = 41 /\ at = 0 /\ rev = 1) \/ (k \in 1..40 /\ at = k /\ rev = 0)
  <2>1. Len(M!Created) = 41
      BY CreatedAt
  <2>2. k = 41 \/ (k \in 1..40 /\ k # 41)
      BY <1>2
  <2> QED BY <2>1, <2>2
<1>4. s.tables \cup {M!Created[k].table} = First(k) /\ First(k) \in SUBSET M!Tables
  <2>1. k \in 0..41
      BY <1>2
  <2> QED BY <1>2, <2>1, FirstSteps
<1>5. t = [s EXCEPT !.tables = First(k), !.grants = stored.defaults, !.rev = rev]
    BY <1>4 DEF M!WithTable
<1>6. at \in 0..40 /\ rev \in 0..M!Latest
    BY <1>3 DEF M!Latest
<1> HIDE DEF t, rev, at
<1>7. /\ t \in M!Database /\ t.tables = First(k) /\ t.rev = rev
      /\ SamePolicies(s, t) /\ SameRest(s, t)
  <2>1. /\ s \in M!Database /\ First(k) \in SUBSET M!Tables
        /\ stored.defaults \in BOOLEAN /\ rev \in 0..M!Latest
      BY <1>2, <1>4, <1>6
  <2> HIDE DEF s, k
  <2> DEFINE kept == First(k)
             b == stored.defaults
  <2>2. /\ kept \in SUBSET M!Tables /\ b \in BOOLEAN
        /\ t = [s EXCEPT !.tables = kept, !.grants = b, !.rev = rev]
      BY <1>5, <2>1
  <2> HIDE DEF kept, b
  <2>3. /\ t \in M!Database /\ t.tables = kept /\ t.rev = rev
        /\ SamePolicies(s, t) /\ SameRest(s, t)
      BY <2>1, <2>2 DEF M!Database, SamePolicies, SameRest
  <2> USE DEF kept
  <2> QED BY <2>3
<1>8. Fits(t)
    BY <1>1, <1>2, <1>3, <1>7 DEF Fits, SamePolicies, SameRest
<1>9. command' \in Commanding /\ command'.so = t /\ command'.to = command.to /\ command'.at = at
  <2> HIDE DEF s
  <2>1. t \in M!Database
      BY <1>7
  <2> QED BY <1>1, <1>2, <1>6, <2>1 DEF Commanding
<1>10. t.tables = First(There(t, at))
    BY <1>3, <1>7 DEF There
<1>11. at > 0 => t.rev = 0 /\ command.to > 0
    BY <1>1, <1>3, <1>7
<1>12. CommandFits'
    BY <1>1, <1>2, <1>8, <1>9, <1>10, <1>11 DEF CommandFits, Commanding
<1> QED BY <1>1, <1>12 DEF MigInv, StoredFits

LEMMA DropMig == ASSUME MigInv, M!DropTable PROVE MigInv'
<1> DEFINE k == command.at + 1
           at == IF k = Len(M!Dropped) THEN 0 ELSE k
           rev == IF k = Len(M!Dropped) THEN 0 ELSE 1
           s == command.so
           g == s.grants /\ k # Len(M!Dropped)
           t == M!WithoutTable(s, k)
<1>1. /\ command # M!Idle /\ command.to < s.rev /\ s.rev = 1
      /\ command' = [command EXCEPT !.at = at, !.so = t]
      /\ UNCHANGED <<stored, clash>>
    BY DEF M!DropTable
<1>2. /\ command \in Commanding /\ s \in M!Database /\ Fits(s) /\ command.to \in 0..M!Latest
      /\ s.tables = First(41 - command.at) /\ command.at \in 0..40 /\ ~clash
      /\ clash \in BOOLEAN
    BY <1>1 DEF MigInv, StoredFits, CommandFits, There, Commanding
<1>3. (k = 41 /\ at = 0 /\ rev = 0) \/ (k \in 1..40 /\ at = k /\ rev = 1)
    BY <1>2, DroppedAt
<1>4. s.tables \ {M!Dropped[k]} = First(41 - k) /\ First(41 - k) \in SUBSET M!Tables
  <2>1. /\ k \in 1..41 /\ 42 - k = (41 - k) + 1 /\ 41 - k \in 0..40 /\ 41 - k \in 0..41
        /\ 41 - command.at = (41 - k) + 1
      BY <1>2
  <2>2. M!Dropped[k] = M!Created[42 - k].table
      BY <2>1, DroppedAt
  <2> QED BY <1>2, <2>1, <2>2, FirstSteps
<1>5. t = [s EXCEPT !.tables = First(41 - k), !.grants = g, !.rev = rev]
    BY <1>4 DEF M!WithoutTable
<1>6. at \in 0..40 /\ rev \in 0..M!Latest /\ g \in BOOLEAN
    BY <1>3 DEF M!Latest
<1> HIDE DEF t, rev, at, g
<1>7. /\ t \in M!Database /\ t.tables = First(41 - k) /\ t.rev = rev
      /\ SamePolicies(s, t) /\ SameRest(s, t)
  <2>1. /\ s \in M!Database /\ First(41 - k) \in SUBSET M!Tables
        /\ g \in BOOLEAN /\ rev \in 0..M!Latest
      BY <1>2, <1>4, <1>6
  <2> HIDE DEF s, k
  <2> DEFINE kept == First(41 - k)
             b == g
  <2>2. /\ kept \in SUBSET M!Tables /\ b \in BOOLEAN
        /\ t = [s EXCEPT !.tables = kept, !.grants = b, !.rev = rev]
      BY <1>5, <2>1
  <2> HIDE DEF kept, b
  <2>3. /\ t \in M!Database /\ t.tables = kept /\ t.rev = rev
        /\ SamePolicies(s, t) /\ SameRest(s, t)
      BY <2>1, <2>2 DEF M!Database, SamePolicies, SameRest
  <2> USE DEF kept
  <2> QED BY <2>3
<1>8. Fits(t)
    BY <1>1, <1>2, <1>3, <1>7 DEF Fits, SamePolicies, SameRest
<1>9. command' \in Commanding /\ command'.so = t /\ command'.to = command.to /\ command'.at = at
  <2> HIDE DEF s
  <2>1. t \in M!Database
      BY <1>7
  <2> QED BY <1>1, <1>2, <1>6, <2>1 DEF Commanding
<1>10. t.tables = First(There(t, at))
    BY <1>3, <1>7 DEF There
<1>11. at > 0 => t.rev = 1 /\ command.to = 0
    BY <1>1, <1>2, <1>3, <1>7 DEF M!Latest
<1>12. CommandFits'
    BY <1>1, <1>2, <1>8, <1>9, <1>10, <1>11 DEF CommandFits, Commanding
<1> QED BY <1>1, <1>12 DEF MigInv, StoredFits

LEMMA StepMig == ASSUME MigInv, M!Step PROVE MigInv'
<1> DEFINE s == command.so
<1>1. command # M!Idle /\ UNCHANGED <<stored, clash>>
    BY DEF M!Step
<1>2. /\ command \in Commanding /\ s \in M!Database /\ Fits(s) /\ command.to \in 0..M!Latest
      /\ s.tables = First(There(s, command.at)) /\ command.at \in 0..40
      /\ command.at > 0 => \/ s.rev = 0 /\ command.to > 0
                           \/ s.rev = 1 /\ command.to = 0
      /\ clash => s.rev >= 7
    BY <1>1 DEF MigInv, CommandFits, Commanding
<1>3. ASSUME NEW t \in M!Database, command' = [command EXCEPT !.so = t], Fits(t),
             t.tables = s.tables, t.rev > 0, s.rev > 0, command.at = 0, clash => t.rev >= 7
      PROVE  MigInv'
  <2>1. /\ command' \in Commanding /\ command'.so = t /\ command'.at = 0
      BY <1>2, <1>3 DEF Commanding
  <2>2. There(s, 0) = 41 /\ There(t, 0) = 41
      BY <1>3 DEF There
  <2>3. CommandFits'
      BY <1>1, <1>2, <1>3, <2>1, <2>2 DEF CommandFits, Commanding
  <2> QED BY <1>1, <2>3 DEF MigInv, StoredFits
<1>4. CASE /\ command.to > s.rev /\ s.rev > 0
           /\ command' = [command EXCEPT !.so = M!Up(@)]
  <2>1. s.rev \in 0..M!Latest /\ s.rev < M!Latest /\ command.at = 0
      BY <1>2, <1>4 DEF M!Latest, M!Database
  <2>2. /\ M!Up(s) \in M!Database
        /\ Fits(M!Up(s))
        /\ M!Up(s).rev = s.rev + 1
        /\ M!Up(s).tables = s.tables
      BY <1>2, <1>4, <2>1, UpFits
  <2>3. command' = [command EXCEPT !.so = M!Up(s)]
      BY <1>4
  <2> HIDE DEF s
  <2>4. M!Up(s).rev > 0 /\ (clash => M!Up(s).rev >= 7)
      BY <1>2, <2>1, <2>2 DEF M!Latest
  <2> QED BY <1>3, <1>4, <2>1, <2>2, <2>3, <2>4
<1>5. CASE /\ command.to < s.rev /\ s.rev > 1
           /\ s.rev = 7 => ~clash
           /\ command' = [command EXCEPT !.so = M!Down(@)]
  <2>1. s.rev \in 0..M!Latest /\ command.at = 0
      BY <1>2, <1>5 DEF M!Latest, M!Database
  <2>2. /\ M!Down(s) \in M!Database
        /\ Fits(M!Down(s))
        /\ M!Down(s).rev = s.rev - 1
        /\ M!Down(s).tables = s.tables
      BY <1>2, <1>5, <2>1, DownFits
  <2>3. command' = [command EXCEPT !.so = M!Down(s)]
      BY <1>5
  <2> HIDE DEF s
  <2>4. M!Down(s).rev > 0 /\ (clash => M!Down(s).rev >= 7)
      BY <1>2, <1>5, <2>1, <2>2 DEF M!Latest
  <2> QED BY <1>3, <1>5, <2>1, <2>2, <2>3, <2>4
<1> QED BY <1>4, <1>5 DEF M!Step

LEMMA NextMig == MigInv /\ [M!Next]_(M!vars) => MigInv'
<1> SUFFICES ASSUME MigInv, [M!Next]_(M!vars) PROVE MigInv'
    OBVIOUS
<1>1. CASE UNCHANGED M!vars
    BY <1>1 DEF M!vars, MigInv, StoredFits, CommandFits
<1> QED BY <1>1, StartMig, CreateMig, DropMig, StepMig, FinishMig, FailMig, SameNumberMig DEF M!Next

LEMMA MigSound ==
    ASSUME MigInv
    PROVE  M!TypeOK /\ M!MigrationsSound
<1>1. M!TypeOK
    BY DEF MigInv, StoredFits, CommandFits, M!TypeOK
<1>2. There(stored, 0) \in 0..41 /\ stored \in M!Database /\ Fits(stored)
      /\ stored.tables = First(There(stored, 0)) /\ (clash => stored.rev >= 7)
    BY DEF There, MigInv, StoredFits
<1>3. M!ReferencesStand
  <2>1. ASSUME command # M!Idle
        PROVE  There(command.so, command.at) \in 0..41
      BY <2>1 DEF There, MigInv, CommandFits
  <2>2. ASSUME NEW s \in {stored} \cup {command.so : k \in {command} \ {M!Idle}}
        PROVE  \A t \in s.tables : M!Parents(t) \subseteq s.tables
    <3>1. CASE s = stored BY <1>2, <3>1, FirstStands
    <3>2. CASE command # M!Idle /\ s = command.so
      <4>1. s.tables = First(There(command.so, command.at))
          BY <3>2 DEF MigInv, CommandFits
      <4> QED BY <2>1, <3>2, <4>1, FirstStands
    <3> QED BY <2>2, <3>1, <3>2
  <2> QED BY <2>2 DEF M!ReferencesStand
<1>4. M!SameEitherWay
  <2>1. stored.tables = IF stored.rev = 0 THEN {} ELSE M!Tables
    <3>1. CASE stored.rev = 0 BY <1>2, <3>1, FirstSteps DEF There
    <3>2. CASE stored.rev # 0
      <4>1. There(stored, 0) = 41
          BY <3>2 DEF There
      <4> QED BY <1>2, <3>2, <4>1, FirstSteps
    <3> QED BY <3>1, <3>2
  <2> QED BY <1>2, <2>1 DEF M!SameEitherWay, Fits
<1>5. M!PassMeansIsolated
  <2>1. ASSUME NEW t \in stored.tables \ {"users"}, M!Owner \in M!Refs(t), M!RlsStatus(stored) = "pass"
        PROVE  t \in stored.rls
    <3>1. t \in M!Tables
        BY <1>2, FirstSteps
    <3>2. PICK i \in 1..41 : t = M!Created[i].table
        BY <3>1, CreatedDomain DEF M!Tables
    <3>3. t \in M!TENANT_TABLES
        BY <2>1, <3>2, RefsAre, OwnedListed
    <3>4. t \in M!EXPECTED_RLS_TABLES
        BY <3>3 DEF M!EXPECTED_RLS_TABLES
    <3> QED BY <2>1, <3>4 DEF M!RlsStatus
  <2>2. clash => stored.numbers = "company"
      BY <1>2 DEF Fits
  <2> QED BY <2>1, <2>2 DEF M!PassMeansIsolated
<1> QED BY <1>1, <1>3, <1>4, <1>5 DEF M!MigrationsSound

LEMMA MigrationsAlone == M!Spec => [](M!TypeOK /\ M!MigrationsSound)
<1>1. M!Init => MigInv
    BY InitMig
<1>2. MigInv /\ [M!Next]_(M!vars) => MigInv'
    BY NextMig
<1>3. MigInv => M!TypeOK /\ M!MigrationsSound
    BY MigSound
<1> QED BY <1>1, <1>2, <1>3, PTL DEF M!Spec

-----------------------------------------------------------------------------
(* A behaviour of Operations is, for each part, one of that part.           *)
LEMMA IsShipments == Spec => S!Spec
<1>1. Init => S!Init
  BY DEF Init
<1>2. [Next]_<<part, shipmentsVars, retentionVars, realtimeVars, migrationsVars,
               complianceVars>> => [S!Next]_(S!vars)
  BY DEF Next, ShipmentsStep, RetentionStep, RealtimeStep, MigrationsStep, ComplianceStep,
         shipmentsVars, S!vars
<1> QED
  BY <1>1, <1>2, PTL DEF Spec, S!Spec

LEMMA IsRetention == Spec => P!Spec
<1>1. Init => P!Init
  BY DEF Init
<1>2. [Next]_<<part, shipmentsVars, retentionVars, realtimeVars, migrationsVars,
               complianceVars>> => [P!Next]_(P!vars)
  BY DEF Next, ShipmentsStep, RetentionStep, RealtimeStep, MigrationsStep, ComplianceStep,
         retentionVars, P!vars
<1> QED
  BY <1>1, <1>2, PTL DEF Spec, P!Spec

LEMMA IsRealtime == Spec => E!Spec
<1>1. Init => E!Init
  BY DEF Init
<1>2. [Next]_<<part, shipmentsVars, retentionVars, realtimeVars, migrationsVars,
               complianceVars>> => [E!Next]_(E!vars)
  BY DEF Next, ShipmentsStep, RetentionStep, RealtimeStep, MigrationsStep, ComplianceStep,
         realtimeVars, E!vars
<1> QED
  BY <1>1, <1>2, PTL DEF Spec, E!Spec

LEMMA IsMigrations == Spec => M!Spec
<1>1. Init => M!Init
  BY DEF Init
<1>2. [Next]_<<part, shipmentsVars, retentionVars, realtimeVars, migrationsVars,
               complianceVars>> => [M!Next]_(M!vars)
  BY DEF Next, ShipmentsStep, RetentionStep, RealtimeStep, MigrationsStep, ComplianceStep,
         migrationsVars, M!vars
<1> QED
  BY <1>1, <1>2, PTL DEF Spec, M!Spec

(* Whatever staff, refreshes and notices do beside each other, the status   *)
(* is in the history, an event of the carrier is there once unless two      *)
(* refreshes overlapped, and nobody is told more often than staff asked,    *)
(* workers were lost and updates undone.                                    *)
THEOREM ShipmentsHold == Spec => []ShipmentsSound
<1>1. S!ShipmentsSound => ShipmentsSound
  BY DEF ShipmentsSound
<1> QED
  BY <1>1, IsShipments, ShipmentsAlone, PTL

(* Wherever a run is lost or a tenant fails, and whatever staff and         *)
(* customers do in between, a purge deletes what was due or what it could   *)
(* not have seen change, leaves nothing that hangs on a deleted row, and    *)
(* never touches invoices, payments, audit entries, deals, shipments and    *)
(* answers.  A run that answers ok has tried every tenant; one that answers *)
(* error has done nothing or left out a tenant with unreadable settings.    *)
THEOREM RetentionHolds == Spec => RetentionSound
<1>1. P!TypeOK /\ P!PurgeSound => (part = "retention" => P!PurgeSound)
  OBVIOUS
<1> QED
  BY <1>1, IsRetention, PurgesAlone, KeptAlone, PTL DEF RetentionSound

(* For any facts and any numbers of contacts: the page calls a tenant       *)
(* compliant exactly when no check warns or fails and non-compliant exactly *)
(* when one fails, in whatever order they come, does not contradict the     *)
(* report on residency, and passes no rate below 79.95 percent.             *)
THEOREM ComplianceHolds == Spec => []ComplianceSound
<1>1. F!TypeOK /\ F!ComplianceSound => ComplianceSound
  BY DEF ComplianceSound
<1> QED
  BY <1>1, IsCompliance, ComplianceAlone, PTL

(* For any pods, users, sockets and breaks of the connection to Redis: a    *)
(* client is sent the events of its company alone, and one of them twice    *)
(* only if its publish raised after Redis had taken it; an open socket is   *)
(* registered once, whatever was pruned around it; and when its pod has     *)
(* nothing left to read or send, it has every event Redis took for it.      *)
THEOREM EventsHold == Spec => []EventsSound
<1>1. E!TypeOK /\ E!EventsSound => EventsSound
  BY DEF EventsSound
<1> QED
  BY <1>1, IsRealtime, EventsAlone, PTL

(* However many commands run, fail or end half-way up or down the nine      *)
(* revisions: a table is never there without those it references, the       *)
(* database of a revision is the same whichever way it was reached, the     *)
(* compliance page passes it only when every table with a company forces    *)
(* its policies, and two companies share an invoice number only where the   *)
(* key lets them.                                                           *)
THEOREM MigrationsHold == Spec => []MigrationsSound
<1>1. M!TypeOK /\ M!MigrationsSound => MigrationsSound
  BY DEF MigrationsSound
<1> QED
  BY <1>1, IsMigrations, MigrationsAlone, PTL

(* Every variable of the five parts keeps its type.                         *)
THEOREM PartsAreTyped == Spec => []PartsTyped
<1>1. /\ S!TypeOK /\ S!ShipmentsSound
      /\ P!TypeOK /\ P!PurgeSound
      /\ E!TypeOK /\ E!EventsSound
      /\ M!TypeOK /\ M!MigrationsSound
      /\ F!TypeOK /\ F!ComplianceSound
      => PartsTyped
  BY DEF PartsTyped
<1> QED
  BY <1>1, IsShipments, ShipmentsAlone, IsRetention, PurgesAlone, IsRealtime, EventsAlone,
     IsMigrations, MigrationsAlone, IsCompliance, ComplianceAlone, PTL
=============================================================================
