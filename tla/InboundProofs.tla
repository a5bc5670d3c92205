--------------------------- MODULE InboundProofs ---------------------------
(***************************************************************************)
(* Proofs about Inbound, for any customers, messages, requests, agents and  *)
(* scenes.                                                                  *)
(***************************************************************************)
EXTENDS Inbound, FiniteSetTheorems, WellFoundedInduction, TLAPS

Row == [phone : Phones, open : BOOLEAN, agent : Agents \cup {Nobody},
        unread : Nat, total : Nat, shown : Nat, hand : Agents \cup {Nobody}]
Handler == [at : Ats, i : Nat, tries : Nat, new : BOOLEAN, conv : Nat, unread : Nat,
            pick : Agents \cup {Nobody}, held : BOOLEAN]

Shape ==
    /\ contacts \in [Phones -> {"none", "live", "deleted"}]
    /\ convs \in Seq(Row)
    /\ stored \in [Msgs -> Nat]
    /\ req \in [Requests -> Handler]
    /\ reader \in [Readers -> [at : {"idle", "loaded", "done"}, conv : Nat,
                               unread : Nat, seen : Nat]]
    /\ active \subseteq Agents
    /\ onDuty \subseteq Agents
    /\ scene \in Scenes

(* Where a handler stands in its payload, and what it has stored of it.     *)
Stands(q, h) ==
    /\ h.i \in 1..Len(Payload[q]) /\ h.tries <= scene.tries /\ h.conv <= Len(convs)
    /\ h.at \notin {"commit", "dispatch"} => h.pick = Nobody
    /\ h.at \in Running => \A i \in 1..(h.i - 1) : Kept(q, i)
    /\ h.at = "dispatch" => stored[Payload[q][h.i]] > 0
    /\ h.at = "ok" => \A i \in DOMAIN Payload[q] : Kept(q, i)
    /\ h.at = "rejected" /\ "delete" \notin scene.staff =>
          contacts[Sender[Payload[q][h.i]]] = "live"

(* What a handler that runs alone knows of the conversation it will write.  *)
Knows(q, h) ==
    h.at \in {"route", "commit"} =>
        /\ h.conv = 0 /\ "reopen" \notin scene.staff =>
              OpenConvs(Sender[Payload[q][h.i]]) = {}
        /\ h.conv # 0 /\ "assign" \notin scene.staff /\ (h.at = "route" \/ h.pick # Nobody) =>
              convs[h.conv].agent = Nobody
        /\ h.pick # Nobody /\ {"assign", "reopen"} \cap scene.staff = {} =>
              Load[h.pick] < Limit[h.pick]

Opens(h) == h.at \in {"route", "commit"} /\ h.conv = 0

HandlersInv == \A q \in Requests : Stands(q, req[q])

AloneInv ==
    scene.alone =>
        /\ \A q, o \in Requests : req[q].at \in Running /\ req[o].at \in Running => q = o
        /\ \A q \in Requests : Knows(q, req[q])

(* The conversations handlers are about to open are within the bound.       *)
LengthInv ==
    Len(convs) + Cardinality({q \in Requests : Opens(req[q])})
        <= MaxConvs + Cardinality(Requests)

ContactsInv == "delete" \notin scene.staff => \A p \in Phones : contacts[p] # "deleted"

(* A conversation has messages, which its readers have seen.                *)
BadgeInv ==
    /\ \A c \in 1..Len(convs) :
          convs[c].total > 0 /\ (convs[c].shown = 0 => convs[c].unread > 0)
    /\ \A s \in Readers :
          reader[s].at = "loaded" => reader[s].conv \in 1..Len(convs) /\ reader[s].seen > 0

SingleInv ==
    scene.alone /\ "reopen" \notin scene.staff =>
        \A p \in Phones : \A c, d \in OpenConvs(p) : c = d

IInv == /\ Shape /\ HandlersInv /\ AloneInv /\ LengthInv /\ ContactsInv /\ BadgeInv
        /\ SingleInv /\ LoadWithinLimit

-----------------------------------------------------------------------------
(* Operators *)

(* A non-empty set of conversations has a latest one.                       *)
LEMMA LatestIn ==
  ASSUME NEW n \in Nat, NEW S \in SUBSET (1..n), S # {} PROVE Max(S) \in S
<1> DEFINE D == {m \in Nat : \E x \in S : m = n - x}
<1>1. D \subseteq Nat /\ D # {}
  <2>1. PICK x \in S : TRUE
    OBVIOUS
  <2>2. n - x \in Nat
    BY <2>1
  <2> QED
    BY <2>1, <2>2
<1>2. PICK m \in D : \A k \in D : ~ (<<k, m>> \in OpToRel(<, Nat))
  BY <1>1, NatLessThanWellFounded, WFMin
<1>3. \A k \in D : ~ (k < m)
  BY <1>1, <1>2 DEF OpToRel
<1>4. PICK x \in S : m = n - x
  OBVIOUS
<1>5. \A y \in S : x >= y
  <2> SUFFICES ASSUME NEW y \in S PROVE x >= y
    OBVIOUS
  <2>1. n - y \in D
    OBVIOUS
  <2>2. ~ (n - y < n - x)
    BY <1>3, <1>4, <2>1
  <2> QED
    BY <2>2
<1> QED
  BY <1>5 DEF Max

LEMMA MaxOfTwo ==
  ASSUME NEW a \in Nat, NEW b \in Nat
  PROVE  Max({a, b}) \in {a, b} /\ Max({a, b}) >= a /\ Max({a, b}) >= b
<1>1. \E x \in {a, b} : \A y \in {a, b} : x >= y
  OBVIOUS
<1>2. Max({a, b}) \in {a, b} /\ \A y \in {a, b} : Max({a, b}) >= y
  BY <1>1 DEF Max
<1> QED
  BY <1>2

(* The conversation a handler finds is an open one of its customer.         *)
LEMMA LatestOpen ==
  ASSUME Shape, NEW p \in Phones
  PROVE  \/ Latest(OpenConvs(p)) = 0 /\ OpenConvs(p) = {}
         \/ /\ Latest(OpenConvs(p)) \in OpenConvs(p)
            /\ Latest(OpenConvs(p)) \in 1..Len(convs)
            /\ Latest(OpenConvs(p)) # 0
<1>1. Len(convs) \in Nat /\ DOMAIN convs = 1..Len(convs)
  BY DEF Shape
<1>2. OpenConvs(p) \in SUBSET (1..Len(convs))
  BY <1>1 DEF OpenConvs, ConvsOf
<1>3. CASE OpenConvs(p) = {}
  BY <1>3 DEF Latest
<1>4. CASE OpenConvs(p) # {}
  <2>1. Max(OpenConvs(p)) \in OpenConvs(p)
    BY <1>1, <1>2, <1>4, LatestIn
  <2> QED
    BY <1>1, <1>2, <1>4, <2>1 DEF Latest
<1> QED
  BY <1>3, <1>4

(* The engine returns an agent below the limit, or nobody.                  *)
LEMMA EngineKeepsLimit ==
  ASSUME NEW load, NEW prev, NEW here, NEW duty,
         NEW a \in Assignable(prev, here, duty, load), a # Nobody
  PROVE  a \in Agents /\ load[a] < Limit[a]
  BY DEF Assignable, StickyAgent, ScoringFallback, Free

LEMMA LoadsAreFinite ==
  ASSUME Shape
  PROVE  \A a : /\ IsFiniteSet({c \in DOMAIN convs : convs[c].open /\ convs[c].agent = a})
                /\ Cardinality({c \in DOMAIN convs : convs[c].open /\ convs[c].agent = a}) \in Nat
<1>1. DOMAIN convs = 1..Len(convs) /\ Len(convs) \in Nat
  BY DEF Shape
<1>2. IsFiniteSet(DOMAIN convs)
  BY <1>1, FS_Interval
<1> QED
  BY <1>2, FS_Subset, FS_CardinalityType

LEMMA PayloadTyped ==
  ASSUME NEW q \in Requests
  PROVE  /\ Payload[q] \in Seq(Msgs) /\ Len(Payload[q]) \in Nat \ {0}
         /\ DOMAIN Payload[q] = 1..Len(Payload[q])
         /\ \A i \in 1..Len(Payload[q]) : Payload[q][i] \in Msgs /\ Sender[Payload[q][i]] \in Phones
  BY PayloadType, SenderType

-----------------------------------------------------------------------------
(* Handlers before they commit *)

(* A handler moves on, and nothing else.                                    *)
LEMMA MoveStep ==
  ASSUME IInv, NEW q \in Requests, NEW h \in Handler,
         req' = [req EXCEPT ![q] = h],
         UNCHANGED <<contacts, convs, stored, reader, others>>,
         Stands(q, h), scene.alone => Knows(q, h),
         scene.alone /\ h.at \in Running =>
            req[q].at \in Running \/ \A o \in Requests : req[o].at \notin Running,
         Opens(h) => Opens(req[q]) \/ Len(convs) < MaxConvs
  PROVE  IInv'
<1>1. /\ req \in [Requests -> Handler] /\ req' \in [Requests -> Handler]
      /\ req'[q] = h /\ \A o \in Requests \ {q} : req'[o] = req[o]
  BY DEF IInv, Shape
<1>2. Shape'
  BY <1>1 DEF IInv, Shape, others
<1>3. HandlersInv'
  BY <1>1 DEF IInv, HandlersInv, Stands, Kept, others
<1>4. AloneInv'
  <2> SUFFICES ASSUME scene.alone
               PROVE  /\ \A o, p \in Requests :
                            req'[o].at \in Running /\ req'[p].at \in Running => o = p
                      /\ \A o \in Requests : Knows(o, req'[o])
    BY DEF AloneInv, Knows, OpenConvs, ConvsOf, Load, others
  <2>1. \A o, p \in Requests : req[o].at \in Running /\ req[p].at \in Running => o = p
    BY DEF IInv, AloneInv
  <2>2. \A o \in Requests : Knows(o, req[o])
    BY DEF IInv, AloneInv
  <2> QED
    BY <1>1, <2>1, <2>2
<1>5. LengthInv'
  <2> DEFINE A == {o \in Requests : Opens(req[o])}
             B == {o \in Requests : Opens(req'[o])}
  <2>1. IsFiniteSet(A) /\ IsFiniteSet(B) /\ Cardinality(A) \in Nat /\ Cardinality(B) \in Nat
    BY RequestsFinite, FS_Subset, FS_CardinalityType
  <2>2. B \subseteq Requests /\ Cardinality(B) <= Cardinality(Requests)
    BY RequestsFinite, FS_Subset
  <2>3. Len(convs) + Cardinality(A) <= MaxConvs + Cardinality(Requests) /\ Len(convs) \in Nat
    BY DEF IInv, LengthInv, Shape
  <2>4. Cardinality(Requests) \in Nat
    BY RequestsFinite, FS_CardinalityType
  <2>5. Len(convs) + Cardinality(B) <= MaxConvs + Cardinality(Requests)
    <3>1. CASE Len(convs) < MaxConvs
      BY <2>1, <2>2, <2>3, <2>4, <3>1, MaxConvsIsNat
    <3>2. CASE Opens(h) => Opens(req[q])
      <4>1. B \subseteq A
        BY <1>1, <3>2
      <4>2. Cardinality(B) <= Cardinality(A)
        BY <2>1, <4>1, FS_Subset
      <4> QED
        BY <2>1, <2>3, <2>4, <4>2, MaxConvsIsNat
    <3> QED
      BY <3>1, <3>2
  <2>6. {o \in Requests : Opens(req[o])}' = B
    BY DEF Opens
  <2> QED
    BY <2>5, <2>6 DEF LengthInv
<1>6. ContactsInv' /\ BadgeInv' /\ SingleInv' /\ LoadWithinLimit'
  BY DEF IInv, ContactsInv, BadgeInv, SingleInv, LoadWithinLimit, OpenConvs, ConvsOf, Load,
         others
<1> QED
  BY <1>2, <1>3, <1>4, <1>5, <1>6 DEF IInv

LEMMA HandlerNow ==
  ASSUME IInv, NEW q \in Requests
  PROVE  req[q] \in Handler /\ Stands(q, req[q]) /\ (scene.alone => Knows(q, req[q]))
  BY DEF IInv, Shape, HandlersInv, AloneInv

LEMMA DeliverInv == ASSUME IInv, NEW q \in Requests, Deliver(q) PROVE IInv'
<1> DEFINE h == [Fresh EXCEPT !.at = "contact", !.tries = req[q].tries + 1]
<1>1. req[q].tries \in Nat /\ req[q].tries < scene.tries /\ scene.tries \in Nat
  BY HandlerNow, ScenesType DEF Deliver, Handler, IInv, Shape
<1>2. /\ h \in Handler /\ h.at = "contact" /\ h.tries = req[q].tries + 1
      /\ h.i = 1 /\ h.conv = 0 /\ h.pick = Nobody
  <2> DEFINE t == req[q].tries + 1
  <2>1. "contact" \in Ats /\ t \in Nat
    BY <1>1 DEF Ats
  <2>2. h = [Fresh EXCEPT !.at = "contact", !.tries = t]
    OBVIOUS
  <2> HIDE DEF t, h
  <2>3. h \in Handler /\ h.at = "contact" /\ h.tries = t /\ h.i = 1 /\ h.conv = 0 /\ h.pick = Nobody
    BY <2>1, <2>2 DEF Fresh, Handler
  <2> QED
    BY <2>3 DEF t
<1> HIDE DEF h
<1>3. Stands(q, h)
  BY <1>1, <1>2, PayloadTyped DEF Stands, IInv, Shape
<1>4. Knows(q, h) /\ ~Opens(h)
  BY <1>2 DEF Knows, Opens
<1> QED
  BY <1>2, <1>3, <1>4, MoveStep DEF Deliver, h, Running

LEMMA AbortInv == ASSUME IInv, NEW q \in Requests, Abort(q) PROVE IInv'
<1> DEFINE h == [Fresh EXCEPT !.tries = req[q].tries, !.at = "error"]
<1>1. req[q].tries \in Nat /\ req[q].tries <= scene.tries
  BY HandlerNow DEF Handler, Stands
<1>2. /\ h \in Handler /\ h.at = "error" /\ h.tries = req[q].tries
      /\ h.i = 1 /\ h.conv = 0 /\ h.pick = Nobody
  BY <1>1 DEF Fresh, Handler, Ats
<1> HIDE DEF h
<1>3. Stands(q, h)
  BY <1>1, <1>2, PayloadTyped DEF Stands, Running, IInv, Shape
<1>4. Knows(q, h) /\ ~Opens(h) /\ h.at \notin Running
  BY <1>2 DEF Knows, Opens, Running
<1> QED
  BY <1>2, <1>3, <1>4, MoveStep DEF Abort, h

LEMMA FindContactInv == ASSUME IInv, NEW q \in Requests, FindContact(q) PROVE IInv'
<1> DEFINE s == IF contacts[Phone(q)] = "live" THEN "conv" ELSE "insert"
           h == [req[q] EXCEPT !.at = s]
<1>1. req[q] \in Handler /\ Stands(q, req[q]) /\ req[q].at = "contact"
      /\ req' = [req EXCEPT ![q] = h]
  BY HandlerNow DEF FindContact, Go
<1>2. s \in {"conv", "insert"}
  OBVIOUS
<1> HIDE DEF s
<1>3. /\ h \in Handler /\ h.at \in {"conv", "insert"} /\ h.tries = req[q].tries
      /\ h.i = req[q].i /\ h.conv = req[q].conv /\ h.pick = req[q].pick
  BY <1>1, <1>2 DEF Handler, Ats
<1> HIDE DEF h
<1>4. Stands(q, h)
  BY <1>1, <1>3 DEF Stands, Running
<1>5. Knows(q, h) /\ ~Opens(h)
  BY <1>3 DEF Knows, Opens
<1> QED
  BY <1>1, <1>3, <1>4, <1>5, MoveStep DEF FindContact, Running

LEMMA InsertContactInv == ASSUME IInv, NEW q \in Requests, InsertContact(q) PROVE IInv'
<1> DEFINE new == contacts[Phone(q)] = "none"
           h == [req[q] EXCEPT !.at = IF new THEN "conv" ELSE "rejected", !.new = new]
<1>1. req[q] \in Handler /\ Stands(q, req[q]) /\ req[q].at = "insert"
      /\ req' = [req EXCEPT ![q] = h]
  BY HandlerNow DEF InsertContact
<1>2. /\ h \in Handler /\ h.at = (IF new THEN "conv" ELSE "rejected")
      /\ h.tries = req[q].tries
      /\ h.i = req[q].i /\ h.conv = req[q].conv /\ h.pick = req[q].pick
  BY <1>1 DEF Handler, Ats
<1> HIDE DEF h
<1>3. Phone(q) = Sender[Payload[q][h.i]] /\ Phone(q) \in Phones
  BY <1>1, <1>2, PayloadTyped DEF Phone, Msg, Stands
<1>4. "delete" \notin scene.staff => contacts[Phone(q)] \in {"none", "live"}
  BY <1>3 DEF IInv, Shape, ContactsInv
<1>5. Stands(q, h)
  BY <1>1, <1>2, <1>3, <1>4 DEF Stands, Running
<1>6. Knows(q, h) /\ ~Opens(h)
  BY <1>2 DEF Knows, Opens
<1> QED
  BY <1>1, <1>2, <1>5, <1>6, MoveStep DEF InsertContact, Running

LEMMA FindConvInv == ASSUME IInv, NEW q \in Requests, FindConv(q) PROVE IInv'
<1> DEFINE p == Sender[Payload[q][req[q].i]]
           c == Latest(OpenConvs(p))
           s == IF c = 0 \/ convs[c].agent = Nobody THEN "route" ELSE "commit"
           u == IF c = 0 THEN 0 ELSE convs[c].unread
           h == [req[q] EXCEPT !.at = s, !.conv = c, !.unread = u]
<1>1. req[q] \in Handler /\ Stands(q, req[q]) /\ req[q].at = "conv"
      /\ req' = [req EXCEPT ![q] = h] /\ (c = 0 => Len(convs) < MaxConvs)
  BY HandlerNow DEF FindConv, Phone, Msg
<1>2. p \in Phones
  BY <1>1, PayloadTyped DEF Stands
<1> HIDE DEF p
<1>3. \/ c = 0 /\ OpenConvs(p) = {}
      \/ c \in OpenConvs(p) /\ c \in 1..Len(convs) /\ c # 0
  BY <1>2, LatestOpen DEF IInv
<1> HIDE DEF c
<1>4. /\ c \in Nat /\ c <= Len(convs) /\ u \in Nat /\ s \in {"route", "commit"}
      /\ c # 0 /\ s = "route" => convs[c].agent = Nobody
  <2>1. Len(convs) \in Nat /\ \A d \in 1..Len(convs) : convs[d] \in Row
    BY DEF IInv, Shape
  <2>2. c # 0 => convs[c].unread \in Nat
    BY <1>3, <2>1 DEF Row
  <2> QED
    BY <1>3, <2>1, <2>2
<1> HIDE DEF s, u
<1>5. /\ h \in Handler /\ h.at = s /\ h.conv = c /\ h.tries = req[q].tries
      /\ h.i = req[q].i /\ h.pick = Nobody
  BY <1>1, <1>4 DEF Handler, Ats, Stands
<1> HIDE DEF h
<1>6. Stands(q, h)
  BY <1>1, <1>4, <1>5 DEF Stands, Running
<1>7. Knows(q, h)
  BY <1>3, <1>4, <1>5 DEF Knows, p
<1> QED
  BY <1>1, <1>4, <1>5, <1>6, <1>7, MoveStep DEF FindConv, Running, Opens

LEMMA RouteInv == ASSUME IInv, NEW q \in Requests, Route(q) PROVE IInv'
<1>1. req[q] \in Handler /\ Stands(q, req[q]) /\ req[q].at = "route"
      /\ (scene.alone => Knows(q, req[q]))
  BY HandlerNow DEF Route
<1>2. PICK a \in Assignable(Previous(Phone(q)), active, onDuty, Load) :
         req' = [req EXCEPT ![q].at = "commit", ![q].pick = a, ![q].held = req[q].conv # 0]
  BY DEF Route
<1>3. a \in Agents \cup {Nobody} /\ (a # Nobody => Load[a] < Limit[a])
  BY EngineKeepsLimit
<1> DEFINE h == [req[q] EXCEPT !.at = "commit", !.pick = a, !.held = req[q].conv # 0]
<1>4. req' = [req EXCEPT ![q] = h]
  BY <1>2
<1>5. /\ h \in Handler /\ h.at = "commit" /\ h.conv = req[q].conv /\ h.tries = req[q].tries
      /\ h.i = req[q].i /\ h.pick = a
  BY <1>1, <1>3 DEF Handler, Ats
<1> HIDE DEF h
<1>6. Stands(q, h)
  BY <1>1, <1>5 DEF Stands, Running
<1>7. scene.alone => Knows(q, h)
  BY <1>1, <1>3, <1>5 DEF Knows
<1> QED
  BY <1>1, <1>4, <1>5, <1>6, <1>7, MoveStep DEF Route, Running, Opens

(* The next message, or the 200, of a handler that has stored what it had   *)
(* to of this one.                                                          *)
LEMMA AdvanceInv ==
  ASSUME IInv, NEW q \in Requests, req[q].at \in {"contact", "dispatch"}, Advance(q),
         Kept(q, req[q].i), UNCHANGED <<contacts, convs, stored, reader, others>>
  PROVE  IInv'
<1> DEFINE last == req[q].i = Len(Payload[q])
           h == [Fresh EXCEPT !.tries = req[q].tries, !.at = IF last THEN "ok" ELSE "contact",
                              !.i = IF last THEN 1 ELSE req[q].i + 1]
<1>1. req[q] \in Handler /\ Stands(q, req[q]) /\ req' = [req EXCEPT ![q] = h]
  BY HandlerNow DEF Advance
<1>2. /\ h \in Handler /\ h.at = (IF last THEN "ok" ELSE "contact") /\ h.tries = req[q].tries
      /\ h.i = (IF last THEN 1 ELSE req[q].i + 1) /\ h.conv = 0 /\ h.pick = Nobody
  <2> DEFINE a == IF last THEN "ok" ELSE "contact"
             j == IF last THEN 1 ELSE req[q].i + 1
  <2>1. a \in Ats /\ j \in Nat /\ req[q].tries \in Nat
    BY <1>1 DEF Handler, Ats
  <2>2. h = [Fresh EXCEPT !.tries = req[q].tries, !.at = a, !.i = j]
    OBVIOUS
  <2> HIDE DEF a, j
  <2>3. /\ h \in Handler /\ h.at = a /\ h.tries = req[q].tries /\ h.i = j /\ h.conv = 0
        /\ h.pick = Nobody
    BY <2>1, <2>2 DEF Fresh, Handler
  <2> QED
    BY <2>3 DEF a, j
<1> HIDE DEF h
<1>3. \A i \in 1..req[q].i : Kept(q, i)
  BY <1>1 DEF Stands, Running, Handler
<1>4. Stands(q, h)
  <2>1. CASE last
    BY <1>1, <1>2, <1>3, <2>1, PayloadTyped DEF Stands, Running, IInv, Shape
  <2>2. CASE ~last
    <3>1. /\ h.at = "contact" /\ h.i = req[q].i + 1 /\ h.tries = req[q].tries
          /\ h.conv = 0 /\ h.pick = Nobody
      BY <1>2, <2>2
    <3>2. Len(Payload[q]) \in Nat /\ Len(convs) \in Nat
      BY PayloadTyped DEF IInv, Shape
    <3>3. /\ req[q].i \in 1..Len(Payload[q]) /\ req[q].i # Len(Payload[q])
          /\ req[q].tries <= scene.tries
      BY <1>1, <2>2 DEF Stands
    <3>4. h.i \in 1..Len(Payload[q]) /\ 1..(h.i - 1) = 1..req[q].i
      BY <3>1, <3>2, <3>3
    <3> QED
      BY <1>3, <3>1, <3>2, <3>3, <3>4 DEF Stands
  <2> QED
    BY <2>1, <2>2
<1>5. Knows(q, h) /\ ~Opens(h)
  BY <1>2 DEF Knows, Opens
<1> QED
  BY <1>1, <1>2, <1>4, <1>5, MoveStep DEF Running

LEMMA SkipInv == ASSUME IInv, NEW q \in Requests, Skip(q) PROVE IInv'
  BY AdvanceInv DEF Skip, Kept, Msg

LEMMA DispatchInv == ASSUME IInv, NEW q \in Requests, Dispatch(q) PROVE IInv'
<1>1. Kept(q, req[q].i)
  BY HandlerNow DEF Dispatch, Stands, Kept
<1> QED
  BY <1>1, AdvanceInv DEF Dispatch

-----------------------------------------------------------------------------
(* Conversations *)

Held(a) == {c \in DOMAIN convs : convs[c].open /\ convs[c].agent = a}

LEMMA HeldCounts ==
  ASSUME Shape
  PROVE  /\ \A a \in Agents : Load[a] = Cardinality(Held(a))
         /\ \A a : IsFiniteSet(Held(a)) /\ Cardinality(Held(a)) \in Nat
  BY LoadsAreFinite DEF Load, Held

(* Staff change a conversation, and no handler runs.                        *)
LEMMA ConvStep ==
  ASSUME IInv, NEW c \in 1..Len(convs), NEW w \in Row,
         convs' = [convs EXCEPT ![c] = w],
         UNCHANGED <<contacts, stored, req, others>>,
         reader' \in [Readers -> [at : {"idle", "loaded", "done"}, conv : Nat,
                                 unread : Nat, seen : Nat]],
         \A s \in Readers : reader'[s] = reader[s] \/ reader'[s].at = "done",
         w.phone = convs[c].phone, w.total = convs[c].total,
         w.shown = 0 => convs[c].shown = 0 /\ w.unread > 0,
         w.open => convs[c].open \/ "reopen" \in scene.staff,
         w.agent = convs[c].agent \/ "assign" \in scene.staff
  PROVE  IInv'
<1>1. /\ convs \in Seq(Row) /\ convs' \in Seq(Row) /\ Len(convs') = Len(convs)
      /\ Len(convs) \in Nat /\ convs'[c] = w
      /\ \A d \in 1..Len(convs) : d # c => convs'[d] = convs[d]
      /\ DOMAIN convs = 1..Len(convs) /\ DOMAIN convs' = 1..Len(convs)
  BY DEF IInv, Shape
<1>2. Shape'
  BY <1>1 DEF IInv, Shape, others
<1>3. HandlersInv'
  BY <1>1 DEF IInv, HandlersInv, Stands, Kept, others
<1>4. "reopen" \notin scene.staff => \A p : OpenConvs(p)' \subseteq OpenConvs(p)
  BY <1>1 DEF OpenConvs, ConvsOf
<1>5. {"assign", "reopen"} \cap scene.staff = {} => \A a \in Agents : Load'[a] <= Load[a]
  <2> SUFFICES ASSUME {"assign", "reopen"} \cap scene.staff = {}, NEW a \in Agents
               PROVE  Load'[a] <= Load[a]
    OBVIOUS
  <2>1. Held(a)' \subseteq Held(a)
    BY <1>1 DEF Held
  <2>2. Cardinality(Held(a)') <= Cardinality(Held(a))
    BY <2>1, HeldCounts, FS_Subset DEF IInv
  <2>3. Load'[a] = Cardinality(Held(a)')
    BY DEF Load, Held
  <2> QED
    BY <2>2, <2>3, HeldCounts DEF IInv
<1>6. \A a \in Agents : Load[a] \in Nat /\ Load'[a] \in Nat /\ Limit[a] \in Nat
  <2>1. \A a \in Agents : Load[a] \in Nat
    BY HeldCounts DEF IInv
  <2>2. \A a \in Agents : Load'[a] \in Nat
    <3>1. IsFiniteSet(DOMAIN convs')
      BY <1>1, FS_Interval
    <3> QED
      BY <3>1, FS_Subset, FS_CardinalityType DEF Load
  <2> QED
    BY <2>1, <2>2, LimitIsNat
<1>7. AloneInv'
  <2> SUFFICES ASSUME scene.alone, NEW q \in Requests PROVE Knows(q, req[q])'
    BY DEF IInv, AloneInv, others
  <2> DEFINE h == req[q]
  <2>1. h \in Handler /\ Stands(q, h) /\ Knows(q, h) /\ UNCHANGED <<req, scene>>
    BY HandlerNow DEF others
  <2> SUFFICES ASSUME h.at \in {"route", "commit"}
               PROVE  /\ h.conv = 0 /\ "reopen" \notin scene.staff =>
                            OpenConvs(Sender[Payload[q][h.i]])' = {}
                      /\ h.conv # 0 /\ "assign" \notin scene.staff
                            /\ (h.at = "route" \/ h.pick # Nobody) =>
                            convs'[h.conv].agent = Nobody
                      /\ h.pick # Nobody /\ {"assign", "reopen"} \cap scene.staff = {} =>
                            Load'[h.pick] < Limit[h.pick]
    BY <2>1 DEF Knows, OpenConvs, ConvsOf
  <2>2. h.conv = 0 /\ "reopen" \notin scene.staff => OpenConvs(Sender[Payload[q][h.i]])' = {}
    BY <1>4, <2>1 DEF Knows
  <2>3. h.conv # 0 => h.conv \in 1..Len(convs)
    BY <1>1, <2>1 DEF Handler, Stands
  <2>4. ASSUME h.conv # 0, "assign" \notin scene.staff, h.at = "route" \/ h.pick # Nobody
        PROVE  convs'[h.conv].agent = Nobody
    BY <1>1, <2>1, <2>3, <2>4 DEF Knows
  <2>5. ASSUME h.pick # Nobody, {"assign", "reopen"} \cap scene.staff = {}
        PROVE  Load'[h.pick] < Limit[h.pick]
    <3>1. h.pick \in Agents /\ Load[h.pick] < Limit[h.pick]
      BY <2>1, <2>5 DEF Knows, Handler
    <3> QED
      BY <1>5, <1>6, <2>5, <3>1
  <2> QED
    BY <2>2, <2>4, <2>5
<1>8. LengthInv' /\ ContactsInv'
  BY <1>1 DEF IInv, LengthInv, ContactsInv, others
<1>9. BadgeInv'
  <2>1. \A d \in 1..Len(convs) : convs[d].total > 0 /\ (convs[d].shown = 0 => convs[d].unread > 0)
    BY DEF IInv, BadgeInv
  <2>2. \A s \in Readers : reader'[s].at = "loaded" => reader'[s] = reader[s]
    OBVIOUS
  <2> QED
    BY <1>1, <2>1, <2>2 DEF IInv, BadgeInv
<1>10. SingleInv'
  BY <1>4 DEF IInv, SingleInv, others
<1>11. LoadWithinLimit'
  BY <1>5, <1>6 DEF IInv, LoadWithinLimit, others
<1> QED
  BY <1>2, <1>3, <1>7, <1>8, <1>9, <1>10, <1>11 DEF IInv

(* What hangs on conversations and handlers stays as they do.               *)
LEMMA Frame ==
  ASSUME IInv, UNCHANGED <<convs, stored, req, scene>>,
         "delete" \notin scene.staff => contacts' = contacts
  PROVE  HandlersInv' /\ AloneInv' /\ LengthInv' /\ ContactsInv' /\ SingleInv' /\ LoadWithinLimit'
<1>1. HandlersInv'
  BY DEF IInv, HandlersInv, Stands, Kept
<1>2. /\ \A p : OpenConvs(p)' = OpenConvs(p)
      /\ Load' = Load
  BY DEF OpenConvs, ConvsOf, Load
<1>3. AloneInv'
  BY <1>2 DEF IInv, AloneInv, Knows
<1>4. LengthInv'
  BY DEF IInv, LengthInv, Opens
<1>5. ContactsInv'
  BY DEF IInv, ContactsInv
<1>6. SingleInv'
  BY <1>2 DEF IInv, SingleInv
<1>7. LoadWithinLimit'
  BY <1>2 DEF IInv, LoadWithinLimit
<1> QED
  BY <1>1, <1>3, <1>4, <1>5, <1>6, <1>7

LEMMA ReadInv == ASSUME IInv, NEW s \in Readers, ReadLoad(s) \/ ReadReset(s) PROVE IInv'
<1>0. /\ convs \in Seq(Row) /\ DOMAIN convs = 1..Len(convs) /\ Len(convs) \in Nat
      /\ reader \in [Readers -> [at : {"idle", "loaded", "done"}, conv : Nat,
                                 unread : Nat, seen : Nat]]
  BY DEF IInv, Shape
<1>1. CASE ReadLoad(s)
  <2>1. PICK c \in 1..Len(convs) :
           reader' = [reader EXCEPT ![s] = [at |-> "loaded", conv |-> c,
                        unread |-> convs[c].unread, seen |-> convs[c].total]]
    BY <1>0, <1>1 DEF ReadLoad
  <2>2. convs[c] \in Row /\ convs[c].total > 0
    BY <1>0 DEF IInv, BadgeInv
  <2>3. Shape'
    <3> DEFINE r == [at |-> "loaded", conv |-> c, unread |-> convs[c].unread,
                     seen |-> convs[c].total]
    <3>1. r \in [at : {"idle", "loaded", "done"}, conv : Nat, unread : Nat, seen : Nat]
      BY <2>2 DEF Row
    <3>2. reader' = [reader EXCEPT ![s] = r]
      BY <2>1
    <3> HIDE DEF r
    <3>3. reader' \in [Readers -> [at : {"idle", "loaded", "done"}, conv : Nat,
                                   unread : Nat, seen : Nat]]
      BY <1>0, <3>1, <3>2
    <3> QED
      BY <1>1, <3>3 DEF ReadLoad, IInv, Shape, others
  <2>4. BadgeInv'
    BY <1>0, <1>1, <2>1, <2>2 DEF ReadLoad, IInv, BadgeInv
  <2>5. HandlersInv' /\ AloneInv' /\ LengthInv' /\ ContactsInv' /\ SingleInv' /\ LoadWithinLimit'
    BY <1>1, Frame DEF ReadLoad, others
  <2> QED
    BY <2>3, <2>4, <2>5 DEF IInv
<1>2. CASE ReadReset(s)
  <2> DEFINE c == reader[s].conv
             u == IF reader[s].unread = 0 THEN convs[c].unread ELSE 0
             sh == Max({convs[c].shown, reader[s].seen})
             w == [convs[c] EXCEPT !.unread = u, !.shown = sh]
  <2>1. c \in 1..Len(convs) /\ reader[s].seen > 0 /\ reader[s].seen \in Nat
    BY <1>0, <1>2 DEF ReadReset, IInv, BadgeInv
  <2>2. convs[c] \in Row
    BY <1>0, <2>1
  <2>3. u \in Nat
    BY <2>2 DEF Row
  <2>4. sh \in Nat /\ sh >= reader[s].seen
    BY <2>1, <2>2, MaxOfTwo DEF Row
  <2>5. convs' = [convs EXCEPT ![c] = w]
    BY <1>0, <1>2, <2>1, <2>2 DEF ReadReset, Row
  <2> HIDE DEF u, sh
  <2>6. /\ w \in Row /\ w.phone = convs[c].phone /\ w.total = convs[c].total
        /\ w.open = convs[c].open /\ w.agent = convs[c].agent /\ w.shown = sh
    BY <2>2, <2>3, <2>4 DEF Row
  <2>7. w.shown # 0
    BY <2>1, <2>4, <2>6
  <2>8. reader' = [reader EXCEPT ![s].at = "done"] /\ UNCHANGED <<contacts, stored, req, others>>
    BY <1>2 DEF ReadReset
  <2>9. /\ reader' \in [Readers -> [at : {"idle", "loaded", "done"}, conv : Nat,
                                    unread : Nat, seen : Nat]]
        /\ \A t \in Readers : reader'[t] = reader[t] \/ reader'[t].at = "done"
    BY <1>0, <2>8
  <2> HIDE DEF c, w
  <2> QED
    BY <2>1, <2>5, <2>6, <2>7, <2>8, <2>9, ConvStep
<1> QED
  BY <1>1, <1>2

LEMMA StaffInv ==
  ASSUME IInv, NEW c \in DOMAIN convs,
         \/ \E a \in Agents : Assign(c, a)
         \/ \E open \in BOOLEAN : SetOpen(c, open)
  PROVE  IInv'
<1>0. /\ convs \in Seq(Row) /\ c \in 1..Len(convs) /\ convs[c] \in Row
      /\ reader \in [Readers -> [at : {"idle", "loaded", "done"}, conv : Nat,
                                 unread : Nat, seen : Nat]]
      /\ convs[c].shown = 0 => convs[c].unread > 0
  BY DEF IInv, Shape, BadgeInv
<1>1. ASSUME NEW a \in Agents, Assign(c, a) PROVE IInv'
  <2> DEFINE x == IF Routing(c) THEN Nobody ELSE a
             w == [convs[c] EXCEPT !.agent = a, !.hand = x]
  <2>1. convs' = [convs EXCEPT ![c] = w] /\ UNCHANGED <<contacts, stored, req, reader, others>>
        /\ "assign" \in scene.staff
    BY <1>0, <1>1 DEF Assign
  <2>3. x \in Agents \cup {Nobody}
    OBVIOUS
  <2> HIDE DEF x
  <2>2. /\ w \in Row /\ w.phone = convs[c].phone /\ w.total = convs[c].total
        /\ w.open = convs[c].open /\ w.shown = convs[c].shown /\ w.unread = convs[c].unread
    BY <1>0, <2>3 DEF Row
  <2> HIDE DEF w
  <2> QED
    BY <1>0, <2>1, <2>2, ConvStep
<1>2. ASSUME NEW open \in BOOLEAN, SetOpen(c, open) PROVE IInv'
  <2> DEFINE w == [convs[c] EXCEPT !.open = open]
  <2>1. convs' = [convs EXCEPT ![c] = w] /\ UNCHANGED <<contacts, stored, req, reader, others>>
        /\ (open => "reopen" \in scene.staff)
    BY <1>2 DEF SetOpen
  <2>2. /\ w \in Row /\ w.phone = convs[c].phone /\ w.total = convs[c].total /\ w.open = open
        /\ w.agent = convs[c].agent /\ w.shown = convs[c].shown /\ w.unread = convs[c].unread
    BY <1>0 DEF Row
  <2> HIDE DEF w
  <2> QED
    BY <1>0, <2>1, <2>2, ConvStep
<1> QED
  BY <1>1, <1>2

LEMMA DeleteInv == ASSUME IInv, NEW p \in Phones, DeleteContact(p) PROVE IInv'
<1>1. /\ "delete" \in scene.staff /\ contacts' \in [Phones -> {"none", "live", "deleted"}]
      /\ UNCHANGED <<convs, stored, req, reader, others>>
  BY DEF DeleteContact, IInv, Shape
<1>2. Shape'
  BY <1>1 DEF IInv, Shape, others
<1>3. BadgeInv'
  BY <1>1 DEF IInv, BadgeInv
<1> QED
  BY <1>1, <1>2, <1>3, Frame DEF IInv, others

LEMMA AgentInv == ASSUME IInv, NEW a \in Agents, ChangeAgent(a) PROVE IInv'
<1>1. /\ active' \subseteq Agents /\ onDuty' \subseteq Agents
      /\ UNCHANGED <<contacts, convs, stored, req, reader, scene>>
  BY DEF ChangeAgent, IInv, Shape
<1>2. Shape'
  BY <1>1 DEF IInv, Shape
<1>3. BadgeInv'
  BY <1>1 DEF IInv, BadgeInv
<1> QED
  BY <1>1, <1>2, <1>3, Frame DEF IInv

-----------------------------------------------------------------------------
(* The commit *)

(* A commit writes one row, and appends it when there was no conversation.  *)
LEMMA CommitWrites ==
  ASSUME IInv, NEW q \in Requests, Commit(q)
  PROVE  \E k \in 1..(Len(convs) + 1), w \in Row :
            /\ convs' \in Seq(Row) /\ DOMAIN convs' = 1..Len(convs') /\ convs'[k] = w
            /\ \A d \in 1..Len(convs) : d # k => convs'[d] = convs[d]
            /\ w.total > 0 /\ w.unread > 0
            /\ \/ /\ req[q].conv = 0 /\ k = Len(convs) + 1 /\ Len(convs') = Len(convs) + 1
                  /\ w.phone = Sender[Payload[q][req[q].i]] /\ w.agent = req[q].pick
                  /\ w.hand = Nobody
               \/ /\ req[q].conv # 0 /\ k = req[q].conv /\ k \in 1..Len(convs) /\ Len(convs') = Len(convs)
                  /\ w.phone = convs[k].phone /\ w.open = convs[k].open
                  /\ w.agent = IF req[q].pick = Nobody THEN convs[k].agent ELSE req[q].pick
                  /\ w.hand = convs[k].hand
<1> DEFINE n == Len(convs)
           p == Sender[Payload[q][req[q].i]]
<1>1. /\ req[q] \in Handler /\ Stands(q, req[q]) /\ n \in Nat
      /\ convs \in Seq(Row) /\ DOMAIN convs = 1..n
  BY HandlerNow DEF IInv, Shape
<1>2. p \in Phones /\ p = Phone(q)
  BY <1>1, PayloadTyped DEF Stands, Phone, Msg
<1> HIDE DEF n, p
<1>3. CASE req[q].conv = 0
  <2> DEFINE w == [phone |-> Phone(q), open |-> TRUE, agent |-> req[q].pick, unread |-> 1,
                   total |-> 1, shown |-> 0, hand |-> Nobody]
  <2>1. convs' = Append(convs, w)
    BY <1>3 DEF Commit, Written
  <2>2. w \in Row /\ w.phone = p /\ w.agent = req[q].pick /\ w.total = 1 /\ w.unread = 1
        /\ w.hand = Nobody
    BY <1>1, <1>2 DEF Row, Handler
  <2> HIDE DEF w
  <2>3. /\ convs' \in Seq(Row) /\ Len(convs') = n + 1 /\ convs'[n + 1] = w
        /\ \A d \in 1..n : convs'[d] = convs[d]
    BY <1>1, <2>1, <2>2
  <2>4. DOMAIN convs' = 1..Len(convs') /\ n + 1 \in 1..(n + 1)
    BY <1>1, <2>3
  <2> QED
    BY <1>3, <2>2, <2>3, <2>4 DEF n, p
<1>4. CASE req[q].conv # 0
  <2> DEFINE k == req[q].conv
             u == req[q].unread + 1
             t == convs[k].total + 1
             a == IF req[q].pick = Nobody THEN convs[k].agent ELSE req[q].pick
             w == [convs[k] EXCEPT !.unread = u, !.total = t, !.agent = a]
  <2>1. k \in 1..n /\ convs[k] \in Row /\ u \in Nat /\ u > 0
    BY <1>1, <1>4 DEF Handler, Stands
  <2>2. t \in Nat /\ t > 0 /\ a \in Agents \cup {Nobody}
    <3>1. convs[k].total \in Nat /\ convs[k].agent \in Agents \cup {Nobody}
      BY <2>1 DEF Row
    <3>2. req[q].pick \in Agents \cup {Nobody}
      BY <1>1 DEF Handler
    <3> QED
      BY <3>1, <3>2
  <2>3. convs' = [convs EXCEPT ![k] = w]
    BY <1>4 DEF Commit, Written
  <2> HIDE DEF u, t, a
  <2>4. /\ w \in Row /\ w.phone = convs[k].phone /\ w.open = convs[k].open /\ w.agent = a
        /\ w.total = t /\ w.unread = u /\ w.hand = convs[k].hand
    BY <2>1, <2>2 DEF Row
  <2> HIDE DEF w
  <2>5. /\ convs' \in Seq(Row) /\ Len(convs') = n /\ DOMAIN convs' = 1..n /\ convs'[k] = w
        /\ \A d \in 1..n : d # k => convs'[d] = convs[d]
    BY <1>1, <2>1, <2>3, <2>4
  <2>6. k \in 1..(n + 1) /\ t > 0 /\ u > 0
    BY <1>1, <2>1, <2>2
  <2>7. w.agent = IF req[q].pick = Nobody THEN convs[k].agent ELSE req[q].pick
    BY <2>4 DEF a
  <2> HIDE DEF a, k
  <2>8. req[q].conv = k /\ k # 0
    BY <1>4 DEF k
  <2> QED
    BY <2>1, <2>4, <2>5, <2>6, <2>7, <2>8 DEF n
<1> QED
  BY <1>3, <1>4

LEMMA CommitInv == ASSUME IInv, NEW q \in Requests, Commit(q) PROVE IInv'
<1> DEFINE h == req[q]
           m == Payload[q][req[q].i]
           p == Sender[Payload[q][req[q].i]]
           n == Len(convs)
           g == [req[q] EXCEPT !.at = "dispatch", !.new = FALSE, !.held = FALSE]
<1>1. /\ h \in Handler /\ Stands(q, h) /\ h.at = "commit" /\ (scene.alone => Knows(q, h))
      /\ req' = [req EXCEPT ![q] = g] /\ UNCHANGED <<reader, active, onDuty, scene>>
      /\ n \in Nat /\ convs \in Seq(Row) /\ DOMAIN convs = 1..n
      /\ req \in [Requests -> Handler]
  <2>1. h \in Handler /\ Stands(q, h) /\ h.at = "commit" /\ (scene.alone => Knows(q, h))
    BY HandlerNow DEF Commit
  <2>2. req \in [Requests -> Handler] /\ n \in Nat /\ convs \in Seq(Row) /\ DOMAIN convs = 1..n
    BY DEF IInv, Shape
  <2>3. req' = [req EXCEPT ![q] = g] /\ UNCHANGED <<reader, active, onDuty, scene>>
    BY <2>2 DEF Commit, others
  <2> QED
    BY <2>1, <2>2, <2>3
<1>2. m \in Msgs /\ p \in Phones /\ Msg(q) = m /\ Phone(q) = p
  BY <1>1, PayloadTyped DEF Stands, Phone, Msg
<1>3. /\ g \in Handler /\ g.at = "dispatch" /\ g.i = h.i /\ g.tries = h.tries
      /\ g.conv = h.conv /\ g.pick = h.pick
  BY <1>1 DEF Handler, Ats
<1> HIDE DEF g
<1>4. /\ req' \in [Requests -> Handler] /\ req'[q] = g
      /\ \A o \in Requests \ {q} : req'[o] = req[o]
  BY <1>1, <1>3
<1>5. /\ stored' \in [Msgs -> Nat] /\ stored'[m] > 0
      /\ \A x \in Msgs : stored[x] > 0 => stored'[x] > 0
  <2>1. stored \in [Msgs -> Nat] /\ stored' = [stored EXCEPT ![m] = stored[m] + 1]
    BY <1>2 DEF Commit, IInv, Shape
  <2> HIDE DEF m
  <2> QED
    BY <1>2, <2>1
<1>6. /\ contacts' \in [Phones -> {"none", "live", "deleted"}]
      /\ \A x \in Phones : /\ contacts[x] = "live" => contacts'[x] = "live"
                           /\ contacts[x] # "deleted" => contacts'[x] # "deleted"
  <2>1. /\ contacts \in [Phones -> {"none", "live", "deleted"}]
        /\ contacts' = [contacts EXCEPT ![p] = IF req[q].new THEN "live" ELSE @]
    BY <1>2 DEF Commit, IInv, Shape
  <2> HIDE DEF p
  <2> QED
    BY <1>2, <2>1
<1>7. PICK k \in 1..(n + 1), w \in Row :
            /\ convs' \in Seq(Row) /\ DOMAIN convs' = 1..Len(convs') /\ convs'[k] = w
            /\ \A d \in 1..n : d # k => convs'[d] = convs[d]
            /\ w.total > 0 /\ w.unread > 0
            /\ \/ /\ h.conv = 0 /\ k = n + 1 /\ Len(convs') = n + 1
                  /\ w.phone = p /\ w.agent = h.pick
               \/ /\ h.conv # 0 /\ k = h.conv /\ k \in 1..n /\ Len(convs') = n
                  /\ w.phone = convs[k].phone /\ w.open = convs[k].open
                  /\ w.agent = IF h.pick = Nobody THEN convs[k].agent ELSE h.pick
  BY CommitWrites
<1> HIDE DEF h, m, p, n
<1>8. /\ Len(convs') \in Nat /\ n <= Len(convs')
      /\ \A e \in 1..Len(convs') : e = k \/ e \in 1..n
      /\ (Len(convs') = n \/ (Len(convs') = n + 1 /\ h.conv = 0))
  <2>1. /\ n \in Nat
        /\ \/ h.conv = 0 /\ k = n + 1 /\ Len(convs') = n + 1
           \/ Len(convs') = n
    BY <1>1, <1>7
  <2> QED
    BY <2>1
<1>9. Shape'
  BY <1>1, <1>4, <1>5, <1>6, <1>7 DEF IInv, Shape
<1>10. HandlersInv'
  <2>1. \A o \in Requests \ {q} : Stands(o, req[o])'
    <3> SUFFICES ASSUME NEW o \in Requests \ {q} PROVE Stands(o, req[o])'
      OBVIOUS
    <3>1. Stands(o, req[o]) /\ req[o] \in Handler /\ req'[o] = req[o]
      BY <1>4, HandlerNow
    <3>2. req[o].conv <= Len(convs')
      BY <1>1, <1>8, <3>1 DEF Stands, Handler, n
    <3>3. \A i \in 1..Len(Payload[o]) :
             Payload[o][i] \in Msgs /\ Sender[Payload[o][i]] \in Phones
      BY PayloadTyped
    <3>4. 1..(req[o].i - 1) \subseteq 1..Len(Payload[o]) /\ DOMAIN Payload[o] = 1..Len(Payload[o])
      BY <3>1, PayloadTyped DEF Stands, Handler
    <3>5. \A i \in 1..Len(Payload[o]) :
             /\ stored[Payload[o][i]] > 0 => stored'[Payload[o][i]] > 0
             /\ Kept(o, i) => Kept(o, i)'
      BY <1>5, <3>3 DEF Kept
    <3>6. contacts[Sender[Payload[o][req[o].i]]] = "live" =>
             contacts'[Sender[Payload[o][req[o].i]]] = "live"
      BY <1>6, <3>1, <3>3 DEF Stands
    <3> QED
      BY <1>1, <3>1, <3>2, <3>4, <3>5, <3>6 DEF Stands
  <2>2. Stands(q, req[q])'
    <3>1. g.i \in 1..Len(Payload[q]) /\ g.tries <= scene'.tries /\ g.conv <= Len(convs')
      BY <1>1, <1>3, <1>8 DEF Stands, Handler, n
    <3>2. \A i \in 1..(g.i - 1) : Payload[q][i] \in Msgs /\ Kept(q, i)
      BY <1>1, <1>3, PayloadTyped DEF Stands, Running, Handler
    <3>3. \A i \in 1..(g.i - 1) : Kept(q, i)'
      BY <1>5, <3>2 DEF Kept
    <3>4. stored'[Payload[q][g.i]] > 0
      BY <1>3, <1>5 DEF m, h
    <3> QED
      BY <1>3, <1>4, <3>1, <3>3, <3>4 DEF Stands
  <2> QED
    BY <2>1, <2>2 DEF HandlersInv
<1>11. scene.alone => \A o \in Requests \ {q} : req[o].at \notin Running
  BY <1>1 DEF IInv, AloneInv, Running, h
<1>12. AloneInv'
  <2> SUFFICES ASSUME scene.alone
               PROVE  /\ \A o, r \in Requests :
                            req'[o].at \in Running /\ req'[r].at \in Running => o = r
                      /\ \A o \in Requests : Knows(o, req[o])'
    BY <1>1 DEF AloneInv
  <2>1. \A o \in Requests \ {q} : req'[o].at \notin Running
    BY <1>4, <1>11
  <2>2. \A o \in Requests : req'[o].at \notin {"route", "commit"}
    BY <1>3, <1>4, <2>1 DEF Running
  <2> QED
    BY <2>1, <2>2 DEF Knows
<1>13. LengthInv'
  <2> DEFINE A == {o \in Requests : Opens(req[o])}
             B == {o \in Requests : Opens(req'[o])}
  <2>1. IsFiniteSet(A) /\ Cardinality(A) \in Nat /\ Cardinality(Requests) \in Nat
    BY RequestsFinite, FS_Subset, FS_CardinalityType
  <2>2. B = A \ {q}
    BY <1>3, <1>4 DEF Opens
  <2>3. n + Cardinality(A) <= MaxConvs + Cardinality(Requests)
    BY DEF IInv, LengthInv, n
  <2>4. Cardinality(B) = IF q \in A THEN Cardinality(A) - 1 ELSE Cardinality(A)
    BY <2>1, <2>2, FS_RemoveElement
  <2>5. h.conv = 0 => q \in A
    BY <1>1 DEF Opens, h
  <2> HIDE DEF A, B
  <2>6. Len(convs') + Cardinality(B) <= MaxConvs + Cardinality(Requests)
    BY <1>1, <1>8, <2>1, <2>3, <2>4, <2>5, MaxConvsIsNat
  <2>7. {o \in Requests : Opens(req[o])}' = B
    BY DEF Opens, B
  <2> QED
    BY <2>6, <2>7 DEF LengthInv
<1>14. ContactsInv'
  BY <1>1, <1>6 DEF IInv, ContactsInv
<1>15. BadgeInv'
  <2>1. \A d \in 1..n : convs[d].total > 0 /\ (convs[d].shown = 0 => convs[d].unread > 0)
    BY DEF IInv, BadgeInv, n
  <2>2. \A d \in 1..Len(convs') : d = k \/ d \in 1..n
    BY <1>8
  <2>3. \A d \in 1..Len(convs') : convs'[d].total > 0 /\ (convs'[d].shown = 0 => convs'[d].unread > 0)
    BY <1>7, <2>1, <2>2
  <2>4. 1..n \subseteq 1..Len(convs')
    BY <1>1, <1>8
  <2> QED
    BY <1>1, <2>3, <2>4 DEF IInv, BadgeInv, n
<1>16. SingleInv'
  <2> SUFFICES ASSUME scene.alone, "reopen" \notin scene.staff, NEW x \in Phones,
                      NEW c \in OpenConvs(x)', NEW d \in OpenConvs(x)'
               PROVE  c = d
    BY <1>1 DEF SingleInv
  <2>1. \A a, b \in OpenConvs(x) : a = b
    BY DEF IInv, SingleInv
  <2>2. h.conv = 0 => OpenConvs(p) = {}
    BY <1>1 DEF Knows, h, p
  <2>3. /\ c \in 1..Len(convs') /\ convs'[c].phone = x /\ convs'[c].open
        /\ d \in 1..Len(convs') /\ convs'[d].phone = x /\ convs'[d].open
    BY <1>7 DEF OpenConvs, ConvsOf
  <2>4. \A e \in 1..n : e \in OpenConvs(x) <=> convs[e].phone = x /\ convs[e].open
    BY <1>1 DEF OpenConvs, ConvsOf
  <2>5. CASE h.conv # 0
    <3>1. c \in OpenConvs(x) /\ d \in OpenConvs(x)
      BY <1>7, <2>3, <2>4, <2>5
    <3> QED
      BY <2>1, <3>1
  <2>6. CASE h.conv = 0 /\ x = p
    <3>1. \A e \in 1..n : ~(convs[e].phone = x /\ convs[e].open)
      BY <2>2, <2>4, <2>6
    <3>2. \A e \in 1..Len(convs') : convs'[e].phone = x /\ convs'[e].open => e = k
      <4> SUFFICES ASSUME NEW e \in 1..Len(convs'), convs'[e].phone = x, convs'[e].open, e # k
                   PROVE  FALSE
        OBVIOUS
      <4>1. e \in 1..n
        BY <1>1, <1>7, <2>6
      <4>2. convs'[e] = convs[e]
        BY <1>7, <4>1
      <4> QED
        BY <3>1, <4>1, <4>2
    <3> QED
      BY <2>3, <3>2
  <2>7. CASE h.conv = 0 /\ x # p
    <3>1. c # k /\ d # k
      BY <1>7, <2>3, <2>7
    <3>2. c \in 1..n /\ d \in 1..n
      BY <1>1, <1>7, <2>3, <2>7, <3>1
    <3>3. c \in OpenConvs(x) /\ d \in OpenConvs(x)
      BY <1>7, <2>3, <2>4, <3>1, <3>2
    <3> QED
      BY <2>1, <3>3
  <2> QED
    BY <2>5, <2>6, <2>7
<1>17. LoadWithinLimit'
  <2> SUFFICES ASSUME scene.alone, {"assign", "reopen"} \cap scene.staff = {}, NEW a \in Agents
               PROVE  Load'[a] <= Limit[a]
    BY <1>1 DEF LoadWithinLimit
  <2>1. /\ Load[a] <= Limit[a] /\ Load[a] = Cardinality(Held(a)) /\ Limit[a] \in Nat
        /\ IsFiniteSet(Held(a)) /\ Cardinality(Held(a)) \in Nat
    BY HeldCounts, LimitIsNat DEF IInv, LoadWithinLimit
  <2>2. Load'[a] = Cardinality(Held(a)')
    BY DEF Load, Held
  <2>3. CASE a = h.pick
    <3>1. Load[a] < Limit[a]
      BY <1>1, <2>3, NobodyIsNoAgent DEF Knows
    <3>2. Held(a)' \subseteq Held(a) \cup {k}
      <4> SUFFICES ASSUME NEW e \in Held(a)', e # k PROVE e \in Held(a)
        OBVIOUS
      <4>1. e \in 1..Len(convs') /\ convs'[e].open /\ convs'[e].agent = a
        BY <1>7 DEF Held
      <4>2. e \in 1..n
        BY <1>8, <4>1
      <4> QED
        BY <1>1, <1>7, <4>1, <4>2 DEF Held
    <3>3. /\ IsFiniteSet(Held(a) \cup {k})
          /\ Cardinality(Held(a) \cup {k}) <= Cardinality(Held(a)) + 1
          /\ Cardinality(Held(a) \cup {k}) \in Nat
      <4> DEFINE S == Held(a)
      <4>1. IsFiniteSet(S) /\ Cardinality(S) \in Nat
        BY <2>1
      <4> HIDE DEF S
      <4>2. /\ IsFiniteSet(S \cup {k})
            /\ Cardinality(S \cup {k}) = IF k \in S THEN Cardinality(S) ELSE Cardinality(S) + 1
        BY <4>1, FS_AddElement
      <4>3. /\ IsFiniteSet(S \cup {k}) /\ Cardinality(S \cup {k}) <= Cardinality(S) + 1
            /\ Cardinality(S \cup {k}) \in Nat
        BY <4>1, <4>2
      <4> QED
        BY <4>3 DEF S
    <3>4. Cardinality(Held(a)') <= Cardinality(Held(a) \cup {k}) /\ Cardinality(Held(a)') \in Nat
      BY <3>2, <3>3, FS_Subset, FS_CardinalityType
    <3> QED
      BY <2>1, <2>2, <3>1, <3>3, <3>4
  <2>4. CASE a # h.pick
    <3>1. Held(a)' \subseteq Held(a)
      <4> SUFFICES ASSUME NEW e \in Held(a)' PROVE e \in Held(a)
        OBVIOUS
      <4>1. e \in 1..Len(convs') /\ convs'[e].open /\ convs'[e].agent = a
        BY <1>7 DEF Held
      <4>2. CASE e # k
        <5>1. e \in 1..n
          BY <1>8, <4>1, <4>2
        <5> QED
          BY <1>1, <1>7, <4>1, <4>2, <5>1 DEF Held
      <4>3. CASE e = k
        <5>1. h.conv # 0 /\ k \in 1..n /\ convs[k].open /\ convs[k].agent = a
          BY <1>7, <2>4, <4>1, <4>3
        <5> QED
          BY <1>1, <4>3, <5>1 DEF Held
      <4> QED
        BY <4>2, <4>3
    <3>2. Cardinality(Held(a)') <= Cardinality(Held(a)) /\ Cardinality(Held(a)') \in Nat
      BY <2>1, <3>1, FS_Subset, FS_CardinalityType
    <3> QED
      BY <2>1, <2>2, <3>2
  <2> QED
    BY <2>3, <2>4
<1> QED
  BY <1>9, <1>10, <1>12, <1>13, <1>14, <1>15, <1>16, <1>17 DEF IInv

-----------------------------------------------------------------------------
(* The inductive invariant, and what follows from it *)

LEMMA InitInv == ASSUME Init PROVE IInv
<1>1. /\ convs = <<>> /\ Len(convs) = 0 /\ convs \in Seq(Row) /\ DOMAIN convs = {}
      /\ 1..Len(convs) = {}
  BY DEF Init
<1>2. /\ Fresh \in Handler /\ Fresh.at = "idle" /\ Fresh.i = 1 /\ Fresh.tries = 0
      /\ Fresh.conv = 0 /\ Fresh.pick = Nobody
  BY DEF Fresh, Handler, Ats
<1>3. req \in [Requests -> Handler] /\ \A q \in Requests : req[q] = Fresh
  BY <1>2 DEF Init
<1>4. Shape
  <2>1. [at |-> "idle", conv |-> 0, unread |-> 0, seen |-> 0]
           \in [at : {"idle", "loaded", "done"}, conv : Nat, unread : Nat, seen : Nat]
    OBVIOUS
  <2>2. reader \in [Readers -> [at : {"idle", "loaded", "done"}, conv : Nat,
                                unread : Nat, seen : Nat]]
    BY <2>1 DEF Init
  <2> QED
    BY <1>1, <1>3, <2>2 DEF Init, Shape
<1>5. HandlersInv
  <2> SUFFICES ASSUME NEW q \in Requests PROVE Stands(q, Fresh)
    BY <1>3 DEF HandlersInv
  <2>1. scene.tries \in Nat
    BY ScenesType DEF Init
  <2> QED
    BY <1>1, <1>2, <2>1, PayloadTyped DEF Stands, Running
<1>6. AloneInv
  BY <1>2, <1>3 DEF AloneInv, Knows, Running
<1>7. LengthInv
  <2>1. {q \in Requests : Opens(req[q])} = {}
    BY <1>2, <1>3 DEF Opens
  <2>2. Cardinality({q \in Requests : Opens(req[q])}) = 0
    BY <2>1, FS_EmptySet
  <2>3. Cardinality(Requests) \in Nat
    BY RequestsFinite, FS_CardinalityType
  <2> QED
    BY <1>1, <2>2, <2>3, MaxConvsIsNat DEF LengthInv
<1>8. ContactsInv
  BY DEF Init, ContactsInv
<1>9. BadgeInv
  <2>1. \A s \in Readers : reader[s].at = "idle"
    BY DEF Init
  <2> QED
    BY <1>1, <2>1 DEF BadgeInv
<1>10. SingleInv
  BY <1>1 DEF SingleInv, OpenConvs, ConvsOf
<1>11. LoadWithinLimit
  <2> SUFFICES ASSUME NEW a \in Agents PROVE Load[a] <= Limit[a]
    BY DEF LoadWithinLimit
  <2>1. {c \in DOMAIN convs : convs[c].open /\ convs[c].agent = a} = {}
    BY <1>1
  <2>2. Load[a] = 0
    BY <2>1, FS_EmptySet DEF Load
  <2> QED
    BY <2>2, LimitIsNat
<1> QED
  BY <1>4, <1>5, <1>6, <1>7, <1>8, <1>9, <1>10, <1>11 DEF IInv

LEMMA NextInv == ASSUME IInv, [Next]_vars PROVE IInv'
<1>1. ASSUME NEW q \in Requests, Deliver(q) \/ Handle(q) \/ Abort(q) PROVE IInv'
  BY <1>1, DeliverInv, SkipInv, FindContactInv, InsertContactInv, FindConvInv, RouteInv, CommitInv,
     DispatchInv, AbortInv DEF Handle
<1>2. ASSUME NEW s \in Readers, ReadLoad(s) \/ ReadReset(s) PROVE IInv'
  BY <1>2, ReadInv
<1>3. ASSUME NEW c \in DOMAIN convs, \/ \E a \in Agents : Assign(c, a)
                                     \/ \E open \in BOOLEAN : SetOpen(c, open)
      PROVE  IInv'
  BY <1>3, StaffInv
<1>4. ASSUME NEW p \in Phones, DeleteContact(p) PROVE IInv'
  BY <1>4, DeleteInv
<1>5. ASSUME NEW a \in Agents, ChangeAgent(a) PROVE IInv'
  BY <1>5, AgentInv
<1>6. CASE UNCHANGED vars
  <2>1. UNCHANGED <<contacts, convs, stored, req, reader, active, onDuty, scene>>
    BY <1>6 DEF vars
  <2>2. Shape'
    BY <2>1 DEF IInv, Shape
  <2>3. BadgeInv'
    BY <2>1 DEF IInv, BadgeInv
  <2> QED
    BY <2>1, <2>2, <2>3, Frame DEF IInv
<1> QED
  BY <1>1, <1>2, <1>3, <1>4, <1>5, <1>6 DEF Next

LEMMA SpecInv == Spec => []IInv
<1>1. Init => IInv
  BY InitInv
<1>2. IInv /\ [Next]_vars => IInv'
  BY NextInv
<1> QED
  BY <1>1, <1>2, PTL DEF Spec

(* Every variable keeps its type; the conversations stay within the bound   *)
(* though every handler that found room may open one.                       *)
THEOREM TypeCorrect == Spec => []TypeOK
<1>1. IInv => TypeOK
  <2> SUFFICES ASSUME IInv PROVE TypeOK
    OBVIOUS
  <2>1. Len(convs) \in Nat /\ DOMAIN convs = 1..Len(convs) /\ \A c \in 1..Len(convs) : convs[c] \in Row
    BY DEF IInv, Shape
  <2>2. Len(convs) <= MaxConvs + Cardinality(Requests)
    <3> DEFINE A == {q \in Requests : Opens(req[q])}
    <3>1. Cardinality(A) \in Nat /\ Cardinality(Requests) \in Nat
      BY RequestsFinite, FS_Subset, FS_CardinalityType
    <3>2. Len(convs) + Cardinality(A) <= MaxConvs + Cardinality(Requests)
      BY DEF IInv, LengthInv
    <3> HIDE DEF A
    <3> QED
      BY <2>1, <3>1, <3>2, MaxConvsIsNat
  <2>3. ASSUME NEW q \in Requests
        PROVE  /\ req[q] \in [at : Ats, i : 1..Len(Payload[q]), tries : 0..scene.tries,
                              new : BOOLEAN, conv : Nat, unread : Nat,
                              pick : Agents \cup {Nobody}, held : BOOLEAN]
               /\ req[q].conv \in 0..Len(convs)
    <3>1. req[q] \in Handler /\ Stands(q, req[q]) /\ scene.tries \in Nat
      BY HandlerNow, ScenesType DEF IInv, Shape
    <3>2. /\ req[q].i \in 1..Len(Payload[q]) /\ req[q].tries \in 0..scene.tries
          /\ req[q].conv \in 0..Len(convs)
      BY <2>1, <3>1 DEF Stands, Handler
    <3> QED
      BY <3>1, <3>2 DEF Handler
  <2> QED
    BY <2>1, <2>2, <2>3 DEF TypeOK, IInv, Shape, Row
<1> QED
  BY <1>1, SpecInv, PTL

(* Whatever crashes, redeliveries and races come before: a request that was *)
(* answered 200 has all its messages stored, one rejected on the insert     *)
(* finds the contact when it is delivered again, and what nobody has seen   *)
(* has a badge.                                                             *)
THEOREM DeliveriesCorrect == Spec => []DeliveriesSound
<1>1. IInv => DeliveriesSound
  <2> SUFFICES ASSUME IInv PROVE DeliveriesSound
    OBVIOUS
  <2>1. AnsweredIsStored
    BY HandlerNow DEF AnsweredIsStored, Stands
  <2>2. RejectedCanRetry
    BY HandlerNow DEF RejectedCanRetry, Stands, Phone, Msg
  <2>3. BadgeShown
    BY DEF BadgeShown, IInv, BadgeInv, Shape
  <2> QED
    BY <2>1, <2>2, <2>3 DEF DeliveriesSound
<1> QED
  BY <1>1, SpecInv, PTL

(* Handlers that run one at a time open one conversation per contact, and   *)
(* the engine loads no agent beyond the limit.                              *)
THEOREM RoutingCorrect == Spec => []RoutingSound
<1>1. IInv => RoutingSound
  <2> SUFFICES ASSUME IInv, scene.alone, "reopen" \notin scene.staff, NEW p \in Phones
               PROVE  Cardinality(OpenConvs(p)) <= 1
    BY DEF RoutingSound, OneOpenConversation, IInv
  <2>1. \A c, d \in OpenConvs(p) : c = d
    BY DEF IInv, SingleInv
  <2>2. CASE OpenConvs(p) = {}
    <3>1. Cardinality(OpenConvs(p)) = 0
      BY <2>2, FS_EmptySet
    <3> QED
      BY <3>1
  <2>3. CASE OpenConvs(p) # {}
    <3>1. PICK c \in OpenConvs(p) : TRUE
      BY <2>3
    <3>2. OpenConvs(p) = {c}
      BY <2>1, <3>1
    <3>3. Cardinality(OpenConvs(p)) = 1
      BY <3>2, FS_Singleton
    <3> QED
      BY <3>3
  <2> QED
    BY <2>2, <2>3
<1> QED
  BY <1>1, SpecInv, PTL

(* A handler that will write an agent to a conversation that is there has   *)
(* read it as unassigned; once it has asked the engine it holds the row.    *)
HandInv ==
    /\ \A c \in 1..Len(convs) : convs[c].hand # Nobody => convs[c].agent = convs[c].hand
    /\ \A q \in Requests :
          /\ req[q].at = "route" => req[q].pick = Nobody
          /\ req[q].conv # 0 /\ req[q].at = "route" => convs[req[q].conv].hand = Nobody
          /\ req[q].conv # 0 /\ req[q].at = "commit" /\ req[q].pick # Nobody =>
                req[q].held /\ convs[req[q].conv].hand = Nobody

(* Handlers that move on without a write.                                   *)
LEMMA HandMoves ==
  ASSUME IInv, HandInv, NEW q \in Requests, NEW h \in Handler, req' = [req EXCEPT ![q] = h],
         convs' = convs,
         h.at = "route" => h.pick = Nobody,
         h.conv # 0 /\ h.at = "route" => convs[h.conv].hand = Nobody,
         h.conv # 0 /\ h.at = "commit" /\ h.pick # Nobody =>
            h.held /\ convs[h.conv].hand = Nobody
  PROVE  HandInv'
<1>1. req'[q] = h /\ \A o \in Requests \ {q} : req'[o] = req[o]
  BY DEF IInv, Shape
<1> QED
  BY <1>1 DEF HandInv

(* The row that a handler finds unassigned was not assigned by hand since.  *)
LEMMA HandFound ==
  ASSUME IInv, HandInv, NEW q \in Requests, FindConv(q)
  PROVE  HandInv'
<1> DEFINE p == Sender[Payload[q][req[q].i]]
           c == Latest(OpenConvs(p))
           s == IF c = 0 \/ convs[c].agent = Nobody THEN "route" ELSE "commit"
           u == IF c = 0 THEN 0 ELSE convs[c].unread
           h == [req[q] EXCEPT !.at = s, !.conv = c, !.unread = u]
<1>1. req[q] \in Handler /\ Stands(q, req[q]) /\ req[q].at = "conv"
      /\ req' = [req EXCEPT ![q] = h] /\ convs' = convs
  BY HandlerNow DEF FindConv, Phone, Msg
<1>2. p \in Phones
  BY <1>1, PayloadTyped DEF Stands
<1> HIDE DEF p
<1>3. c = 0 \/ c \in 1..Len(convs)
  BY <1>2, LatestOpen DEF IInv
<1> HIDE DEF c
<1>4. c \in Nat /\ u \in Nat /\ s \in {"route", "commit"}
  <2>1. Len(convs) \in Nat /\ \A d \in 1..Len(convs) : convs[d] \in Row
    BY DEF IInv, Shape
  <2> QED
    BY <1>3, <2>1 DEF Row
<1>5. c # 0 /\ s = "route" => convs[c].hand = Nobody
  BY <1>3 DEF HandInv
<1> HIDE DEF s, u
<1>6. /\ h \in Handler /\ h.at = s /\ h.conv = c /\ h.pick = req[q].pick
      /\ h.pick = Nobody
  BY <1>1, <1>4 DEF Handler, Ats, Stands
<1> HIDE DEF h
<1> QED
  BY <1>1, <1>5, <1>6, HandMoves

LEMMA HandRouted ==
  ASSUME IInv, HandInv, NEW q \in Requests, Route(q)
  PROVE  HandInv'
<1>1. PICK a \in Assignable(Previous(Phone(q)), active, onDuty, Load) :
         req' = [req EXCEPT ![q].at = "commit", ![q].pick = a, ![q].held = req[q].conv # 0]
  BY DEF Route
<1>2. a \in Agents \cup {Nobody}
  BY EngineKeepsLimit
<1> DEFINE h == [req[q] EXCEPT !.at = "commit", !.pick = a, !.held = req[q].conv # 0]
<1>3. req' = [req EXCEPT ![q] = h] /\ convs' = convs /\ req[q] \in Handler
  BY <1>1, HandlerNow DEF Route
<1>4. /\ h \in Handler /\ h.at = "commit" /\ h.conv = req[q].conv
      /\ h.held = (req[q].conv # 0)
  BY <1>2, <1>3 DEF Handler, Ats
<1> HIDE DEF h
<1>5. req[q].conv # 0 => convs[req[q].conv].hand = Nobody
  BY DEF HandInv, Route
<1> QED
  BY <1>3, <1>4, <1>5, HandMoves

LEMMA HandCommitted ==
  ASSUME IInv, HandInv, NEW q \in Requests, Commit(q)
  PROVE  HandInv'
<1> DEFINE n == Len(convs)
           g == [req[q] EXCEPT !.at = "dispatch", !.new = FALSE, !.held = FALSE]
<1>1. PICK k \in 1..(n + 1), w \in Row :
            /\ convs' \in Seq(Row) /\ DOMAIN convs' = 1..Len(convs') /\ convs'[k] = w
            /\ \A d \in 1..n : d # k => convs'[d] = convs[d]
            /\ \/ req[q].conv = 0 /\ k = n + 1 /\ Len(convs') = n + 1 /\ w.hand = Nobody
               \/ /\ req[q].conv # 0 /\ k = req[q].conv /\ k \in 1..n /\ Len(convs') = n
                  /\ w.agent = IF req[q].pick = Nobody THEN convs[k].agent ELSE req[q].pick
                  /\ w.hand = convs[k].hand
  BY CommitWrites
<1>2. /\ n \in Nat /\ req[q].at = "commit" /\ req' = [req EXCEPT ![q] = g]
      /\ req \in [Requests -> Handler] /\ \A o \in Requests : req[o].conv \in Nat /\ req[o].conv <= n
  <2>1. n \in Nat /\ req \in [Requests -> Handler] /\ req[q].at = "commit"
    BY DEF IInv, Shape, Commit
  <2>2. req' = [req EXCEPT ![q] = g]
    BY <2>1 DEF Commit
  <2>3. \A o \in Requests : req[o].conv \in Nat /\ req[o].conv <= n
    BY HandlerNow DEF Handler, Stands
  <2> QED
    BY <2>1, <2>2, <2>3
<1>3. g.at = "dispatch" /\ req'[q] = g /\ \A o \in Requests \ {q} : req'[o] = req[o]
  BY <1>2 DEF Handler
<1> HIDE DEF g, n
<1>4. \A c \in 1..Len(convs') : c = k \/ c \in 1..n
  <2>1. n \in Nat /\ ((Len(convs') = n + 1 /\ k = n + 1) \/ Len(convs') = n)
    BY <1>1, <1>2
  <2>2. CASE Len(convs') = n + 1 /\ k = n + 1
    <3>1. \A c \in 1..(n + 1) : c = n + 1 \/ c \in 1..n
      BY <2>1
    <3> QED
      BY <2>2, <3>1
  <2>3. CASE Len(convs') = n
    BY <2>3
  <2> QED
    BY <2>1, <2>2, <2>3
<1>5. ASSUME NEW c \in 1..n PROVE convs'[c].hand = convs[c].hand
  <2>1. CASE c # k
    BY <1>1, <2>1
  <2>2. CASE c = k
    <3>1. k # n + 1
      BY <1>2, <2>2
    <3> QED
      BY <1>1, <2>2, <3>1
  <2> QED
    BY <2>1, <2>2
<1>6. ASSUME NEW c \in 1..Len(convs'), convs'[c].hand # Nobody
      PROVE  convs'[c].agent = convs'[c].hand
  <2>1. CASE c # k
    BY <1>1, <1>4, <1>6, <2>1 DEF HandInv, n
  <2>2. CASE c = k
    <3>1. /\ req[q].conv # 0 /\ k = req[q].conv /\ k \in 1..n
          /\ w.agent = IF req[q].pick = Nobody THEN convs[k].agent ELSE req[q].pick
          /\ w.hand = convs[k].hand /\ w.hand # Nobody
      BY <1>1, <1>6, <2>2
    <3>2. req[q].pick = Nobody
      BY <1>2, <3>1 DEF HandInv
    <3> QED
      BY <1>1, <2>2, <3>1, <3>2 DEF HandInv, n
  <2> QED
    BY <2>1, <2>2
<1>7. ASSUME NEW o \in Requests
      PROVE  /\ req'[o].at = "route" => req'[o].pick = Nobody
             /\ req'[o].conv # 0 /\ req'[o].at = "route" => convs'[req'[o].conv].hand = Nobody
             /\ req'[o].conv # 0 /\ req'[o].at = "commit" /\ req'[o].pick # Nobody =>
                   req'[o].held /\ convs'[req'[o].conv].hand = Nobody
  <2>1. CASE o = q
    BY <1>3, <2>1
  <2>2. CASE o # q
    <3>1. req'[o] = req[o] /\ (req[o].conv # 0 => req[o].conv \in 1..n)
      BY <1>2, <1>3, <2>2
    <3> QED
      BY <1>5, <3>1 DEF HandInv
  <2> QED
    BY <2>1, <2>2
<1> QED
  BY <1>6, <1>7 DEF HandInv

(* An assignment by hand waits for a handler that holds the row.            *)
LEMMA HandAssigned ==
  ASSUME IInv, HandInv, NEW c \in DOMAIN convs, NEW a \in Agents, Assign(c, a)
  PROVE  HandInv'
<1>0. /\ convs \in Seq(Row) /\ DOMAIN convs = 1..Len(convs) /\ c \in 1..Len(convs)
      /\ convs[c] \in Row /\ req' = req
  BY DEF IInv, Shape, Assign
<1> DEFINE x == IF Routing(c) THEN Nobody ELSE a
<1>1. /\ Len(convs') = Len(convs) /\ convs'[c].agent = a /\ convs'[c].hand = x
      /\ \A d \in 1..Len(convs) : d # c => convs'[d] = convs[d]
  <2> DEFINE w == [convs[c] EXCEPT !.agent = a, !.hand = x]
  <2>1. convs' = [convs EXCEPT ![c] = w]
    BY <1>0 DEF Assign
  <2>2. w.agent = a /\ w.hand = x
    BY <1>0 DEF Row
  <2> HIDE DEF w
  <2> QED
    BY <1>0, <2>1, <2>2
<1>2. ASSUME NEW q \in Requests, req[q].conv = c, req[q].at = "route"
      PROVE  x = Nobody
  BY <1>2 DEF Routing
<1>3. ASSUME NEW q \in Requests, req[q].conv = c, c # 0, req[q].at = "commit", req[q].pick # Nobody
      PROVE  FALSE
  BY <1>3 DEF HandInv, Assign, Locked
<1>4. \A q \in Requests : req[q].conv # 0 => req[q].conv \in 1..Len(convs)
  <2> SUFFICES ASSUME NEW q \in Requests, req[q].conv # 0 PROVE req[q].conv \in 1..Len(convs)
    OBVIOUS
  <2>1. req[q] \in Handler /\ Stands(q, req[q])
    BY HandlerNow
  <2> QED
    BY <1>0, <2>1 DEF Handler, Stands
<1> HIDE DEF x
<1>5. \A d \in 1..Len(convs) : d # c => convs'[d].hand = convs[d].hand /\ convs'[d].agent = convs[d].agent
  BY <1>1
<1>6. x # Nobody => x = a
  BY DEF x
<1>7. \A d \in 1..Len(convs') : convs'[d].hand # Nobody => convs'[d].agent = convs'[d].hand
  BY <1>0, <1>1, <1>5, <1>6 DEF HandInv
<1>8. ASSUME NEW q \in Requests
      PROVE  /\ req[q].at = "route" => req[q].pick = Nobody
             /\ req[q].conv # 0 /\ req[q].at = "route" => convs'[req[q].conv].hand = Nobody
             /\ req[q].conv # 0 /\ req[q].at = "commit" /\ req[q].pick # Nobody =>
                   req[q].held /\ convs'[req[q].conv].hand = Nobody
  <2>1. CASE req[q].conv = c
    BY <1>1, <1>2, <1>3, <2>1 DEF HandInv
  <2>2. CASE req[q].conv # c
    BY <1>4, <1>5, <2>2 DEF HandInv
  <2> QED
    BY <2>1, <2>2
<1> QED
  BY <1>0, <1>7, <1>8 DEF HandInv

(* Other changes of a conversation leave its agent alone.                   *)
LEMMA HandBeside ==
  ASSUME IInv, HandInv, UNCHANGED req, Len(convs') = Len(convs),
         \A c \in 1..Len(convs) :
            convs'[c].agent = convs[c].agent /\ convs'[c].hand = convs[c].hand
  PROVE  HandInv'
<1>1. \A q \in Requests : req[q].conv # 0 => req[q].conv \in 1..Len(convs)
  <2> SUFFICES ASSUME NEW q \in Requests, req[q].conv # 0 PROVE req[q].conv \in 1..Len(convs)
    OBVIOUS
  <2>1. req[q] \in Handler /\ Stands(q, req[q]) /\ Len(convs) \in Nat
    BY HandlerNow DEF IInv, Shape
  <2> QED
    BY <2>1 DEF Handler, Stands
<1> QED
  BY <1>1 DEF HandInv

LEMMA HandNext == ASSUME IInv, HandInv, [Next]_vars PROVE HandInv'
<1>0. convs \in Seq(Row) /\ DOMAIN convs = 1..Len(convs) /\ req \in [Requests -> Handler]
  BY DEF IInv, Shape
<1>1. ASSUME NEW q \in Requests, \/ Deliver(q) \/ Abort(q) \/ Skip(q) \/ FindContact(q)
                                 \/ InsertContact(q) \/ Dispatch(q)
      PROVE  HandInv'
  <2>1. convs' = convs /\ \A o \in Requests \ {q} : req'[o] = req[o]
    BY <1>0, <1>1 DEF Deliver, Abort, Skip, FindContact, Go, InsertContact, Dispatch, Advance
  <2>2. req'[q].at \notin {"route", "commit"}
    <3>1. CASE Deliver(q) \/ Abort(q)
      BY <1>0, <3>1 DEF Deliver, Abort, Fresh
    <3>2. CASE FindContact(q) \/ InsertContact(q)
      BY <1>0, <3>2 DEF FindContact, Go, InsertContact, Handler
    <3>3. CASE Skip(q) \/ Dispatch(q)
      <4> DEFINE a == IF req[q].i = Len(Payload[q]) THEN "ok" ELSE "contact"
                 j == IF req[q].i = Len(Payload[q]) THEN 1 ELSE req[q].i + 1
      <4>1. req' = [req EXCEPT ![q] = [Fresh EXCEPT !.tries = req[q].tries, !.at = a, !.i = j]]
        BY <3>3 DEF Skip, Dispatch, Advance
      <4>2. a \notin {"route", "commit"}
        OBVIOUS
      <4> HIDE DEF a, j
      <4> QED
        BY <1>0, <4>1, <4>2 DEF Fresh
    <3> QED
      BY <1>1, <3>1, <3>2, <3>3
  <2> QED
    BY <2>1, <2>2 DEF HandInv
<1>2. ASSUME NEW q \in Requests, FindConv(q) \/ Route(q) \/ Commit(q) PROVE HandInv'
  BY <1>2, HandFound, HandRouted, HandCommitted
<1>3. ASSUME NEW c \in DOMAIN convs, NEW a \in Agents, Assign(c, a) PROVE HandInv'
  BY <1>3, HandAssigned
<1>4. ASSUME NEW c \in DOMAIN convs, NEW open \in BOOLEAN, SetOpen(c, open) PROVE HandInv'
  <2> DEFINE w == [convs[c] EXCEPT !.open = open]
  <2>1. convs[c] \in Row /\ convs' = [convs EXCEPT ![c] = w] /\ req' = req
    BY <1>0, <1>4 DEF SetOpen
  <2>2. w.agent = convs[c].agent /\ w.hand = convs[c].hand
    BY <2>1 DEF Row
  <2> HIDE DEF w
  <2>3. Len(convs') = Len(convs) /\ \A d \in 1..Len(convs) : convs'[d] = IF d = c THEN w ELSE convs[d]
    BY <1>0, <2>1
  <2> QED
    BY <2>1, <2>2, <2>3, HandBeside
<1>5. ASSUME NEW s \in Readers, ReadReset(s) PROVE HandInv'
  <2> DEFINE c == reader[s].conv
             u == IF reader[s].unread = 0 THEN convs[c].unread ELSE 0
             sh == Max({convs[c].shown, reader[s].seen})
             w == [convs[c] EXCEPT !.unread = u, !.shown = sh]
  <2>1. /\ convs' = [convs EXCEPT ![c].unread = u, ![c].shown = sh] /\ req' = req
        /\ c \in 1..Len(convs) /\ convs[c] \in Row
    BY <1>0, <1>5 DEF ReadReset, IInv, BadgeInv
  <2> HIDE DEF c, u, sh
  <2>2. w.agent = convs[c].agent /\ w.hand = convs[c].hand
    BY <2>1 DEF Row
  <2>3. convs' = [convs EXCEPT ![c] = w]
    BY <1>0, <2>1
  <2> HIDE DEF w
  <2>5. c \in 1..Len(convs)
    BY <2>1
  <2>4. Len(convs') = Len(convs) /\ \A d \in 1..Len(convs) : convs'[d] = IF d = c THEN w ELSE convs[d]
    BY <1>0, <2>3, <2>5
  <2> QED
    BY <2>1, <2>2, <2>4, HandBeside
<1>6. CASE UNCHANGED <<req, convs>>
  BY <1>6 DEF HandInv
<1> QED
  BY <1>1, <1>2, <1>3, <1>4, <1>5, <1>6
     DEF Next, Handle, ReadLoad, DeleteContact, ChangeAgent, vars

(* With any handlers and staff running, what was assigned by hand stays,    *)
(* unless a handler had read the conversation as unassigned and not yet     *)
(* locked it: the engine is asked for no other, and its answer is written   *)
(* under the lock that assignments wait for.                                *)
THEOREM HandAssignments == Spec => []HandAssignmentsStay
<1>1. Init => HandInv
  <2> SUFFICES ASSUME Init PROVE HandInv
    OBVIOUS
  <2>1. convs = <<>> /\ \A q \in Requests : req[q].at = "idle"
    BY DEF Init, Fresh
  <2> QED
    BY <2>1 DEF HandInv
<1>2. IInv /\ HandInv /\ [Next]_vars => HandInv'
  BY HandNext
<1>3. IInv /\ HandInv => HandAssignmentsStay
  BY DEF IInv, Shape, HandInv, HandAssignmentsStay
<1> QED
  BY <1>1, <1>2, <1>3, SpecInv, PTL DEF Spec
=============================================================================
