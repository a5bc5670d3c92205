--------------------------- MODULE WorkspaceProofs ---------------------------
(***************************************************************************)
(* Of the pages of a workspace: for any contacts, files, automations,       *)
(* events, deals, pages and flows, and any number of requests, tasks and    *)
(* executions between their first statement and their commit.               *)
(***************************************************************************)
EXTENDS Workspace, FiniteSetTheorems, NaturalsInduction, WellFoundedInduction, TLAPS

-----------------------------------------------------------------------------
(* Contacts.  The unique key over phones holds in every session, and an     *)
(* import has counted what it stored.                                       *)

(* The keys are numbers from 1 on, and null is no value.                    *)
TablesFit ==
    /\ IsFiniteSet(Ids) /\ Ids \subseteq Nat \ {0}
    /\ Null \notin Phones /\ Null \notin Names
    /\ Files \subseteq Seq(Phones \cup {Null})

Requested ==
    [op : {"create"}, phone : Phones, tags : SUBSET TagIds, fields : SUBSET Fields]
    \cup [op : {"update"}, id : Ids, phone : Phones, tags : SUBSET TagIds,
          fields : SUBSET Fields, seenTags : SUBSET TagIds, seenFields : SUBSET Fields]
    \cup [op : {"bulk_tag"}, ids : SUBSET Ids, tag : TagIds]
    \cup [op : {"bulk_edit"}, ids : SUBSET Ids]

Import == [at : {"none", "chunk", "full", "done", "failed"}, file : Seq(Phones \cup {Null}),
           next : Nat, pending : Phones \cup {Null}, lost : BOOLEAN,
           dirty : SUBSET Ids, locked : SUBSET Ids,
           created : Nat, updated : Nat, errors : Nat, stored : Nat]

ContactTypes ==
    /\ C!TypeOK
    /\ change \in [Workers -> Requested \cup {C!NoEdit}]
    /\ imp \in Import

(* The unique key over contacts, deleted and uncommitted ones too.          *)
OnePhoneIn(table) ==
    \A i, j \in Ids : table[i] # C!NoRow /\ table[i].phone = table[j].phone => i = j
OnePhone == OnePhoneIn(rows)

UncommittedIn(table) == {i \in Ids : table[i].state = "uncommitted"}

InSession == IF imp.pending = Null THEN 0 ELSE 1

(* What an import that refused no row has created is stored, or waits in    *)
(* the transaction or in the session.                                       *)
Counted ==
    /\ imp.at \in {"none", "done", "failed"} => C!Uncommitted = {} /\ imp.pending = Null
    /\ imp.at # "none" =>
          /\ imp.created + imp.updated + imp.errors + 1 = imp.next
          /\ imp.next <= Len(imp.file) + 1
    /\ imp.at = "done" => imp.next > Len(imp.file)
    /\ imp.lost => imp.errors > 0
    /\ imp.at \in {"chunk", "full", "done"} /\ imp.errors = 0 =>
          imp.created = imp.stored + Cardinality(C!Uncommitted) + InSession

TableInv == ContactTypes /\ OnePhone

-----------------------------------------------------------------------------

LEMMA RowOf ==
    ASSUME C!TypeOK, NEW i \in Ids
    PROVE  /\ rows[i] = C!NoRow \/ rows[i] \in C!Row
           /\ rows[i] \in C!Row => /\ rows[i].phone \in Phones
                                 /\ rows[i].state \in {"live", "deleted", "uncommitted"}
                                 /\ rows[i] = [phone |-> rows[i].phone, state |-> rows[i].state]
BY DEF C!TypeOK, C!Row

LEMMA NoRowIsNot ==
    ASSUME TablesFit
    PROVE  C!NoRow \notin C!Row /\ C!NoRow.phone = Null /\ C!NoRow.state = "none"
BY DEF TablesFit, C!NoRow, C!Row

LEMMA NewIdIs ==
    ASSUME TablesFit, C!Free # {}
    PROVE  C!NewId \in Ids /\ rows[C!NewId] = C!NoRow
<1>1. C!Free \subseteq Nat
    BY DEF C!Free, TablesFit
<1>2. \E i \in C!Free : \A j \in C!Free : i <= j
  <2>1. IsWellFoundedOn(OpToRel(<, Nat), Nat)
      BY NatLessThanWellFounded
  <2>2. PICK x \in C!Free : \A y \in C!Free : ~ (<<y, x>> \in OpToRel(<, Nat))
      BY <1>1, <2>1, WFMin
  <2>3. \A y \in C!Free : ~ (y < x)
      BY <1>1, <2>2 DEF OpToRel
  <2> QED BY <1>1, <2>3
<1>3. C!NewId \in C!Free
    BY <1>2 DEF C!NewId
<1> QED BY <1>3 DEF C!Free

LEMMA AskedFields ==
    ASSUME NEW e \in Requested
    PROVE  /\ e # C!NoEdit
           /\ e.op = "create" => /\ e.phone \in Phones /\ e.tags \subseteq TagIds
                                 /\ e.fields \subseteq Fields
           /\ e.op = "update" => /\ e.id \in Ids /\ e.phone \in Phones
                                 /\ e.tags \subseteq TagIds /\ e.fields \subseteq Fields
           /\ e.op = "bulk_tag" => e.ids \subseteq Ids /\ e.tag \in TagIds
<1>1. CASE e \in [op : {"create"}, phone : Phones, tags : SUBSET TagIds, fields : SUBSET Fields]
    BY <1>1 DEF C!NoEdit
<1>2. CASE e \in [op : {"update"}, id : Ids, phone : Phones, tags : SUBSET TagIds,
                  fields : SUBSET Fields, seenTags : SUBSET TagIds, seenFields : SUBSET Fields]
    BY <1>2 DEF C!NoEdit
<1>3. CASE e \in [op : {"bulk_tag"}, ids : SUBSET Ids, tag : TagIds]
  <2>1. e.op = "bulk_tag" /\ e.ids \in SUBSET Ids /\ e.tag \in TagIds
      BY <1>3
  <2>2. C!NoEdit.op = "none"
      BY DEF C!NoEdit
  <2> QED BY <2>1, <2>2
<1>4. CASE e \in [op : {"bulk_edit"}, ids : SUBSET Ids]
    BY <1>4 DEF C!NoEdit
<1> QED BY <1>1, <1>2, <1>3, <1>4 DEF Requested

LEMMA EditOf ==
    ASSUME ContactTypes, NEW h \in Workers
    PROVE  change[h].op \in {"create", "update", "bulk_tag"} => change[h] \in Requested
BY DEF ContactTypes, C!NoEdit

(* A row with a free phone where none was.                                  *)
Added(p, state) == [rows EXCEPT ![C!NewId] = [phone |-> p, state |-> state]]

LEMMA RowAdded ==
    ASSUME TablesFit, C!TypeOK, OnePhone, C!Free # {}, NEW p \in Phones, ~C!Taken(p, 0),
           NEW state \in {"live", "uncommitted"},
           NEW new, new = Added(p, state)
    PROVE  /\ new \in [Ids -> C!Row \cup {C!NoRow}]
           /\ OnePhoneIn(new)
           /\ state = "live" => UncommittedIn(new) = C!Uncommitted
           /\ \A i \in Ids : rows[i] # C!NoRow => new[i] = rows[i]
<1> DEFINE n == C!NewId
           r == [phone |-> p, state |-> state]
<1>1. n \in Ids /\ rows[n] = C!NoRow
    BY NewIdIs
<1>2. r \in C!Row
    BY DEF C!Row
<1>3. new = [rows EXCEPT ![n] = r]
    BY DEF Added
<1> HIDE DEF n
<1>4. /\ new \in [Ids -> C!Row \cup {C!NoRow}] /\ new[n] = r
      /\ \A i \in Ids \ {n} : new[i] = rows[i]
    BY <1>1, <1>2, <1>3 DEF C!TypeOK
<1>5. \A i \in Ids : rows[i].phone # p
    BY DEF C!Taken, TablesFit
<1>6. OnePhoneIn(new)
  <2> SUFFICES ASSUME NEW i \in Ids, NEW j \in Ids, new[i] # C!NoRow, new[i].phone = new[j].phone
               PROVE  i = j
      BY DEF OnePhoneIn
  <2>1. CASE i = n /\ j # n
      BY <1>4, <1>5, <2>1
  <2>2. CASE i # n /\ j = n
      BY <1>4, <1>5, <2>2
  <2>3. CASE i # n /\ j # n
      BY <1>4, <2>3 DEF OnePhone, OnePhoneIn
  <2> QED BY <2>1, <2>2, <2>3
<1>7. state = "live" => UncommittedIn(new) = C!Uncommitted
    BY <1>1, <1>4, NoRowIsNot DEF C!Uncommitted, UncommittedIn
<1> QED BY <1>1, <1>4, <1>6, <1>7

LEMMA InitTable == ASSUME TablesFit PROVE C!Init => TableInv /\ Counted
<1> SUFFICES ASSUME C!Init PROVE TableInv /\ Counted
    OBVIOUS
<1>1. C!Uncommitted = {}
    BY DEF C!Init, C!Uncommitted, C!NoRow
<1>2. imp \in Import
  <2>1. <<>> \in Seq(Phones \cup {Null})
      OBVIOUS
  <2> QED BY <2>1 DEF C!Init, Import, C!NoImport
<1>3. ContactTypes
    BY <1>2 DEF C!Init, ContactTypes, C!TypeOK, C!NoRow, C!NoEdit
<1>4. OnePhone
    BY DEF C!Init, OnePhone, OnePhoneIn
<1>5. Counted
    BY <1>1 DEF Counted, C!Init, C!NoImport
<1> QED BY <1>3, <1>4, <1>5 DEF TableInv

-----------------------------------------------------------------------------
(* What a request leaves true.                                              *)
DeletedKept == \A i \in Ids : rows[i].state = "deleted" => rows'[i] = rows[i]

Keeps == TableInv' /\ C!Uncommitted' = C!Uncommitted /\ DeletedKept

LEMMA HoldKeeps ==
    ASSUME TableInv, NEW h \in Workers, NEW e \in Requested, C!Hold(h, e)
    PROVE  Keeps
<1>1. change' = [change EXCEPT ![h] = e] /\ UNCHANGED <<rows, details, tags, links, fields, values, imp>>
    BY DEF C!Hold
<1>2. change' \in [Workers -> Requested \cup {C!NoEdit}]
    BY <1>1 DEF TableInv, ContactTypes
<1> QED BY <1>1, <1>2
        DEF Keeps, TableInv, ContactTypes, C!TypeOK, OnePhone, OnePhoneIn, C!Uncommitted, DeletedKept, C!TagRows

LEMMA ChecksKeep ==
    ASSUME TableInv, NEW h \in Workers, NEW p \in Phones, NEW ts \in SUBSET TagIds,
           NEW fs \in SUBSET Fields,
           C!CreateCheck(h, p, ts, fs) \/ \E i \in Ids : C!UpdateCheck(h, i, p, ts, fs)
    PROVE  Keeps
<1>1. CASE C!CreateCheck(h, p, ts, fs)
  <2>1. [op |-> "create", phone |-> p, tags |-> ts, fields |-> fs] \in Requested
      BY DEF Requested
  <2> QED BY <1>1, <2>1, HoldKeeps DEF C!CreateCheck
<1>2. CASE \E i \in Ids : C!UpdateCheck(h, i, p, ts, fs)
  <2>1. PICK i \in Ids : C!UpdateCheck(h, i, p, ts, fs)
      BY <1>2
  <2>2. [op |-> "update", id |-> i, phone |-> p, tags |-> ts, fields |-> fs,
         seenTags |-> C!TagsOf(i), seenFields |-> C!FieldsOf(i)] \in Requested
      BY DEF Requested, C!TagsOf, C!FieldsOf
  <2> QED BY <2>1, <2>2, HoldKeeps DEF C!UpdateCheck
<1> QED BY <1>1, <1>2

LEMMA BulkTagCheckKeeps ==
    ASSUME TableInv, NEW h \in Workers, NEW is \in SUBSET Ids, NEW t \in TagIds,
           C!BulkTagCheck(h, is, t)
    PROVE  Keeps
<1>1. [op |-> "bulk_tag", ids |-> {i \in is : C!Live(i) /\ t \notin C!TagsOf(i)}, tag |-> t] \in Requested
    BY DEF Requested
<1> QED BY <1>1, HoldKeeps DEF C!BulkTagCheck

LEMMA CreateCommitKeeps ==
    ASSUME TablesFit, TableInv, NEW h \in Workers, C!CreateCommit(h)
    PROVE  Keeps
<1> DEFINE e == change[h]
<1>1. /\ e.op = "create" /\ ~C!Taken(e.phone, 0) /\ C!Free # {}
      /\ e.tags \subseteq C!TagRows /\ e.fields \subseteq fields
      /\ rows' = [rows EXCEPT ![C!NewId] = [phone |-> e.phone, state |-> "live"]]
      /\ links' = links \cup ({C!NewId} \X e.tags)
      /\ values' = values \cup ({C!NewId} \X e.fields)
      /\ change' = [change EXCEPT ![h] = C!NoEdit]
      /\ UNCHANGED <<details, tags, fields, imp>>
    BY DEF C!CreateCommit
<1>2. e.phone \in Phones
    BY <1>1, EditOf, AskedFields DEF TableInv
<1>3. /\ rows' \in [Ids -> C!Row \cup {C!NoRow}] /\ OnePhone' /\ C!Uncommitted' = C!Uncommitted
      /\ \A i \in Ids : rows[i] # C!NoRow => rows'[i] = rows[i]
  <2>1. C!TypeOK /\ OnePhone /\ rows' = Added(e.phone, "live")
      BY <1>1 DEF TableInv, ContactTypes, Added
  <2> HIDE DEF e
  <2>2. /\ rows' \in [Ids -> C!Row \cup {C!NoRow}] /\ OnePhoneIn(rows')
        /\ UncommittedIn(rows') = C!Uncommitted
        /\ \A i \in Ids : rows[i] # C!NoRow => rows'[i] = rows[i]
      BY <1>1, <1>2, <2>1, RowAdded
  <2>3. OnePhone' /\ C!Uncommitted' = C!Uncommitted
      BY <2>2 DEF OnePhone, OnePhoneIn, C!Uncommitted, UncommittedIn
  <2> QED BY <2>2, <2>3
<1>4. C!NewId \in Ids
    BY <1>1, NewIdIs
<1>5. C!TypeOK'
    BY <1>1, <1>3, <1>4 DEF TableInv, ContactTypes, C!TypeOK, C!TagRows
<1>6. ContactTypes'
    BY <1>1, <1>5 DEF TableInv, ContactTypes
<1>7. DeletedKept
    BY <1>3, NoRowIsNot DEF DeletedKept
<1> QED BY <1>3, <1>6, <1>7 DEF Keeps, TableInv

LEMMA UpdateCommitKeeps ==
    ASSUME TablesFit, TableInv, NEW h \in Workers, C!UpdateCommit(h)
    PROVE  Keeps
<1> DEFINE e == change[h]
           n == e.id
<1>1. /\ e.op = "update" /\ ~C!Taken(e.phone, n) /\ C!Live(n)
      /\ e.tags \subseteq C!TagRows /\ e.fields \subseteq fields
      /\ rows' = [rows EXCEPT ![n] = [rows[n] EXCEPT !.phone = e.phone]]
      /\ details' = [details EXCEPT ![n] = "edited"]
      /\ links' = (links \ ({n} \X e.seenTags)) \cup ({n} \X e.tags)
      /\ values' = (values \ ({n} \X e.seenFields)) \cup ({n} \X e.fields)
      /\ change' = [change EXCEPT ![h] = C!NoEdit]
      /\ UNCHANGED <<tags, fields, imp>>
    BY DEF C!UpdateCommit, C!StillThere
<1>2. e.phone \in Phones /\ n \in Ids
    BY <1>1, EditOf, AskedFields DEF TableInv
<1>3. rows[n] \in C!Row /\ rows[n].state = "live"
    BY <1>1, <1>2, RowOf, NoRowIsNot DEF C!Live, TableInv, ContactTypes
<1>4. [rows[n] EXCEPT !.phone = e.phone] = [phone |-> e.phone, state |-> "live"]
    BY <1>3 DEF C!Row
<1>5. [phone |-> e.phone, state |-> "live"] \in C!Row
    BY <1>2 DEF C!Row
<1>6. /\ rows' \in [Ids -> C!Row \cup {C!NoRow}]
      /\ rows'[n] = [phone |-> e.phone, state |-> "live"]
      /\ \A i \in Ids \ {n} : rows'[i] = rows[i]
    BY <1>1, <1>2, <1>4, <1>5 DEF TableInv, ContactTypes, C!TypeOK
<1>7. \A i \in Ids \ {n} : rows[i].phone # e.phone
    BY <1>1 DEF C!Taken
<1> HIDE DEF n, e
<1>8. OnePhone'
  <2> SUFFICES ASSUME NEW i \in Ids, NEW j \in Ids, rows'[i] # C!NoRow, rows'[i].phone = rows'[j].phone
               PROVE  i = j
      BY DEF OnePhone, OnePhoneIn
  <2>1. CASE i = n /\ j # n
      BY <1>6, <1>7, <2>1
  <2>2. CASE i # n /\ j = n
      BY <1>6, <1>7, <2>2
  <2>3. CASE i # n /\ j # n
      BY <1>6, <2>3 DEF OnePhone, OnePhoneIn, TableInv
  <2> QED BY <2>1, <2>2, <2>3
<1>9. C!Uncommitted' = C!Uncommitted /\ DeletedKept
    BY <1>3, <1>6 DEF C!Uncommitted, DeletedKept
<1>10. C!TypeOK'
    BY <1>1, <1>2, <1>6 DEF TableInv, ContactTypes, C!TypeOK, C!TagRows
<1>11. ContactTypes'
    BY <1>1, <1>10 DEF TableInv, ContactTypes
<1> QED BY <1>8, <1>9, <1>11 DEF Keeps, TableInv

LEMMA BulkTagCommitKeeps ==
    ASSUME TableInv, NEW h \in Workers, C!BulkTagCommit(h)
    PROVE  Keeps
<1> DEFINE e == change[h]
<1>1. /\ e.op = "bulk_tag" /\ e.tag \in C!TagRows /\ links' = links \cup (e.ids \X {e.tag})
      /\ change' = [change EXCEPT ![h] = C!NoEdit] /\ UNCHANGED <<rows, details, tags, fields, values, imp>>
    BY DEF C!BulkTagCommit
<1>2. e.ids \subseteq Ids
    BY <1>1, EditOf, AskedFields DEF TableInv
<1>3. C!TypeOK'
    BY <1>1, <1>2 DEF TableInv, ContactTypes, C!TypeOK, C!TagRows
<1>4. ContactTypes'
    BY <1>1, <1>3 DEF TableInv, ContactTypes
<1> QED BY <1>1, <1>4 DEF Keeps, TableInv, OnePhone, OnePhoneIn, C!Uncommitted, DeletedKept

LEMMA BulkEditKeeps ==
    ASSUME TableInv, NEW h \in Workers,
           (\E is \in SUBSET Ids : C!BulkEditCheck(h, is)) \/ C!BulkEditCommit(h)
    PROVE  Keeps
<1>1. ASSUME NEW is \in SUBSET Ids, C!BulkEditCheck(h, is) PROVE Keeps
  <2>1. [op |-> "bulk_edit", ids |-> {i \in is : C!Live(i)}] \in Requested
      BY DEF Requested
  <2> QED BY <1>1, <2>1, HoldKeeps DEF C!BulkEditCheck
<1>2. CASE C!BulkEditCommit(h)
  <2> DEFINE ids == change[h].ids
  <2>1. /\ details' = [i \in Ids |-> IF i \in ids THEN "edited" ELSE details[i]]
        /\ change' = [change EXCEPT ![h] = C!NoEdit]
        /\ UNCHANGED <<rows, tags, links, fields, values, imp>>
      BY <1>2 DEF C!BulkEditCommit
  <2> HIDE DEF ids
  <2>2. details' \in [Ids -> {"first", "edited"}]
      BY <2>1 DEF TableInv, ContactTypes, C!TypeOK
  <2> QED BY <2>1, <2>2
          DEF Keeps, TableInv, ContactTypes, C!TypeOK, OnePhone, OnePhoneIn, C!Uncommitted, DeletedKept, C!TagRows
<1> QED BY <1>1, <1>2

LEMMA AbortKeeps == ASSUME TableInv, NEW h \in Workers, C!Abort(h) PROVE Keeps
<1>1. change' = [change EXCEPT ![h] = C!NoEdit] /\ UNCHANGED <<rows, details, tags, links, fields, values, imp>>
    BY DEF C!Abort
<1> QED BY <1>1 DEF Keeps, TableInv, ContactTypes, C!TypeOK, OnePhone, OnePhoneIn, C!Uncommitted, DeletedKept, C!TagRows

LEMMA DeleteContactsKeeps ==
    ASSUME TablesFit, TableInv, NEW is \in SUBSET Ids, C!DeleteContacts(is)
    PROVE  Keeps
<1>1. /\ rows' = [i \in Ids |-> IF i \in is /\ C!Live(i) THEN [rows[i] EXCEPT !.state = "deleted"]
                                ELSE rows[i]]
      /\ UNCHANGED <<details, tags, links, fields, values, change, imp>>
    BY DEF C!DeleteContacts
<1>2. ASSUME NEW i \in Ids
      PROVE  \/ rows'[i] = rows[i]
             \/ /\ rows[i] \in C!Row /\ rows'[i] \in C!Row /\ rows[i].state = "live"
                /\ rows'[i].phone = rows[i].phone /\ rows'[i].state = "deleted"
  <2>1. CASE i \in is /\ C!Live(i)
    <3>1. rows[i] \in C!Row /\ rows[i].state = "live"
        BY <2>1, RowOf, NoRowIsNot DEF C!Live, TableInv, ContactTypes
    <3>2. rows'[i] = [rows[i] EXCEPT !.state = "deleted"]
        BY <1>1, <2>1
    <3> QED BY <3>1, <3>2 DEF C!Row
  <2>2. CASE ~(i \in is /\ C!Live(i))
      BY <1>1, <2>2
  <2> QED BY <2>1, <2>2
<1>3. rows' \in [Ids -> C!Row \cup {C!NoRow}]
    BY <1>1, <1>2 DEF TableInv, ContactTypes, C!TypeOK
<1>4. OnePhone'
    BY <1>2, NoRowIsNot DEF OnePhone, OnePhoneIn, TableInv
<1>5. C!Uncommitted' = C!Uncommitted
    BY <1>2 DEF C!Uncommitted
<1>6. DeletedKept
    BY <1>2 DEF DeletedKept
<1>7. ContactTypes'
    BY <1>1, <1>3 DEF TableInv, ContactTypes, C!TypeOK, C!TagRows
<1> QED BY <1>4, <1>5, <1>6, <1>7 DEF Keeps, TableInv

LEMMA TagsKeep ==
    ASSUME TablesFit, TableInv, NEW t \in TagIds,
           \/ \E is \in SUBSET Ids : C!BulkUntag(is, t)
           \/ C!DeleteTag(t) \/ \E n \in Names : C!NameTag(t, n)
    PROVE  Keeps
<1>1. UNCHANGED <<rows, details, fields, values, change, imp>>
    BY DEF C!BulkUntag, C!DeleteTag, C!NameTag
<1>2. tags' \in [TagIds -> Names \cup {Null}] /\ links' \subseteq Ids \X C!TagRows'
  <2>1. CASE \E is \in SUBSET Ids : C!BulkUntag(is, t)
      BY <2>1 DEF C!BulkUntag, TableInv, ContactTypes, C!TypeOK, C!TagRows
  <2>2. CASE C!DeleteTag(t)
      BY <2>2 DEF C!DeleteTag, TableInv, ContactTypes, C!TypeOK, C!TagRows
  <2>3. CASE \E n \in Names : C!NameTag(t, n)
      BY <2>3 DEF C!NameTag, TableInv, ContactTypes, C!TypeOK, C!TagRows, TablesFit
  <2> QED BY <2>1, <2>2, <2>3
<1> QED BY <1>1, <1>2 DEF Keeps, TableInv, ContactTypes, C!TypeOK, OnePhone, OnePhoneIn, C!Uncommitted, DeletedKept

LEMMA FieldsKeep ==
    ASSUME TableInv, NEW f \in Fields, C!CreateField(f) \/ C!DeleteField(f)
    PROVE  Keeps
<1>1. UNCHANGED <<rows, details, tags, links, values, change, imp>>
    BY DEF C!CreateField, C!DeleteField
<1>2. values' \subseteq Ids \X fields'
    BY DEF C!CreateField, C!DeleteField, TableInv, ContactTypes, C!TypeOK
<1> QED BY <1>1, <1>2 DEF Keeps, TableInv, ContactTypes, C!TypeOK, OnePhone, OnePhoneIn, C!Uncommitted, DeletedKept, C!TagRows

(* A request does not touch the import.                                     *)
LEMMA CountedKept == ASSUME Counted, C!Uncommitted' = C!Uncommitted, imp' = imp PROVE Counted'
BY DEF Counted, InSession

-----------------------------------------------------------------------------
(* The import *)

LEMMA ImportOf ==
    ASSUME imp \in Import
    PROVE  /\ imp.file \in Seq(Phones \cup {Null}) /\ imp.pending \in Phones \cup {Null}
           /\ imp.next \in Nat /\ imp.created \in Nat /\ imp.updated \in Nat
           /\ imp.errors \in Nat /\ imp.stored \in Nat /\ imp.lost \in BOOLEAN
           /\ imp.dirty \in SUBSET Ids /\ imp.locked \in SUBSET Ids
           /\ Len(imp.file) \in Nat
BY DEF Import

(* A row of the file taken or refused.                                      *)
Went(at, pending, lose, dirty, locked, created, updated, errors) ==
    [at |-> at, file |-> imp.file, next |-> imp.next + 1, pending |-> pending, lost |-> lose,
     dirty |-> dirty, locked |-> locked,
     created |-> created, updated |-> updated, errors |-> errors, stored |-> imp.stored]

NextAt == IF imp.next % ChunkSize = 0 THEN "full" ELSE "chunk"

LEMMA TablesCount == \A S : C!Cardinality(S) = Cardinality(S)
  BY DEF C!Cardinality, Cardinality

LEMMA FewUncommitted == ASSUME TablesFit PROVE IsFiniteSet(C!Uncommitted) /\ Cardinality(C!Uncommitted) \in Nat
<1>1. C!Uncommitted \subseteq Ids
    BY DEF C!Uncommitted
<1> QED BY <1>1, FS_Subset, FS_CardinalityType DEF TablesFit

LEMMA StartKeeps ==
    ASSUME TablesFit, TableInv, Counted, NEW file \in Files, C!StartImport(file)
    PROVE  TableInv' /\ Counted' /\ DeletedKept
<1>1. /\ imp.at = "none"
      /\ imp' = [at |-> "chunk", file |-> file, next |-> 1, pending |-> Null, lost |-> FALSE,
                 dirty |-> {}, locked |-> {},
                 created |-> 0, updated |-> 0, errors |-> 0, stored |-> 0]
      /\ UNCHANGED <<rows, details, tags, links, fields, values, change>>
    BY DEF C!StartImport, C!NoImport
<1>2. file \in Seq(Phones \cup {Null}) /\ Len(file) \in Nat
    BY DEF TablesFit
<1>3. imp' \in Import
    BY <1>1, <1>2 DEF Import
<1>4. TableInv' /\ DeletedKept
    BY <1>1, <1>3 DEF TableInv, ContactTypes, C!TypeOK, OnePhone, OnePhoneIn, DeletedKept, C!TagRows
<1>5. C!Uncommitted = {} /\ C!Uncommitted' = {}
    BY <1>1 DEF Counted, C!Uncommitted
<1>6. Cardinality(C!Uncommitted') = 0
    BY <1>5, FS_EmptySet
<1>7. Counted'
    BY <1>1, <1>2, <1>6 DEF Counted, InSession
<1> QED BY <1>4, <1>7

LEMMA RefusedKeeps ==
    ASSUME TablesFit, TableInv, Counted, C!RowRefused
    PROVE  TableInv' /\ Counted' /\ DeletedKept
<1> DEFINE lose == imp.lost \/ imp.file[imp.next] # Null
           dirt == IF lose THEN {} ELSE imp.dirty
           lock == IF lose THEN {} ELSE imp.locked
<1>0. imp \in Import
    BY DEF TableInv, ContactTypes
<1>1. /\ imp.at = "chunk" /\ imp.next <= Len(imp.file)
      /\ UNCHANGED <<rows, details, tags, links, fields, values, change>>
    BY DEF C!RowRefused
<1>2. imp' = Went(NextAt, imp.pending, lose, dirt, lock, imp.created, imp.updated, imp.errors + 1)
    BY <1>0 DEF C!RowRefused, C!Advance, Went, NextAt, Import
<1>3. /\ lose \in BOOLEAN /\ NextAt \in {"chunk", "full"}
      /\ dirt \in SUBSET Ids /\ lock \in SUBSET Ids
    BY <1>0, ImportOf DEF NextAt
<1> HIDE DEF lose, dirt, lock
<1>4. imp' \in Import
    BY <1>0, <1>2, <1>3, ImportOf DEF Import, Went
<1>5. TableInv' /\ DeletedKept
    BY <1>1, <1>4 DEF TableInv, ContactTypes, C!TypeOK, OnePhone, OnePhoneIn, DeletedKept, C!TagRows
<1>6. /\ imp'.at \in {"chunk", "full"} /\ imp'.next = imp.next + 1 /\ imp'.created = imp.created
      /\ imp'.updated = imp.updated /\ imp'.errors = imp.errors + 1 /\ imp'.file = imp.file
    BY <1>2, <1>3 DEF Went
<1>7. /\ imp'.created + imp'.updated + imp'.errors + 1 = imp'.next
      /\ imp'.next <= Len(imp'.file) + 1 /\ imp'.errors > 0
  <2>1. imp.created + imp.updated + imp.errors + 1 = imp.next
      BY <1>1 DEF Counted
  <2>2. /\ imp.created \in Nat /\ imp.updated \in Nat /\ imp.errors \in Nat /\ imp.next \in Nat
        /\ Len(imp.file) \in Nat
      BY <1>0, ImportOf
  <2>3. Len(imp'.file) = Len(imp.file)
      BY <1>6
  <2>4. imp.next <= Len(imp.file)
      BY <1>1
  <2>5. imp'.created + imp'.updated + imp'.errors + 1 = imp'.next
    <3>1. PICK c, u, e, n \in Nat :
            c = imp.created /\ u = imp.updated /\ e = imp.errors /\ n = imp.next
      BY <2>2
    <3>2. c + u + e + 1 = n
      BY <2>1, <3>1
    <3>3. c + u + (e + 1) + 1 = n + 1
      BY <3>2
    <3> QED BY <1>6, <3>1, <3>3
  <2>6. imp'.next <= Len(imp'.file) + 1
      BY <1>6, <2>2, <2>3, <2>4
  <2>7. imp'.errors > 0
      BY <1>6, <2>2
  <2> QED BY <2>5, <2>6, <2>7
<1>8. Counted'
    BY <1>6, <1>7 DEF Counted
<1> QED BY <1>5, <1>8

(* What the next query sends to the database.                               *)
LEMMA FlushedAre ==
    ASSUME TablesFit, TableInv, C!CanFlush, C!RoomLeft
    PROVE  /\ C!Flushed \in [Ids -> C!Row \cup {C!NoRow}]
           /\ OnePhoneIn(C!Flushed)
           /\ \A i \in Ids : rows[i].state = "deleted" => C!Flushed[i] = rows[i]
           /\ Cardinality(UncommittedIn(C!Flushed))
                 = Cardinality(C!Uncommitted) + InSession
<1> DEFINE added == UncommittedIn(C!Flushed)
<1>0. imp \in Import /\ C!TypeOK /\ OnePhone
    BY DEF TableInv, ContactTypes
<1>1. CASE imp.pending = Null
  <2>1. C!Flushed = rows
      BY <1>1 DEF C!Flushed
  <2>2. Cardinality(added) = Cardinality(C!Uncommitted) /\ InSession = 0
      BY <1>1, <2>1 DEF C!Uncommitted, UncommittedIn, InSession
  <2> QED BY <1>0, <2>1, <2>2, FewUncommitted DEF C!TypeOK, OnePhone
<1>2. CASE imp.pending # Null
  <2> DEFINE p == imp.pending
             n == C!NewId
  <2>1. /\ p \in Phones /\ ~C!Taken(p, 0) /\ C!Free # {}
        /\ C!Flushed = Added(p, "uncommitted")
      BY <1>0, <1>2, ImportOf DEF C!CanFlush, C!RoomLeft, C!Flushed, Added
  <2>2. n \in Ids /\ rows[n] = C!NoRow
      BY <2>1, NewIdIs
  <2> HIDE DEF p
  <2>3. /\ C!Flushed \in [Ids -> C!Row \cup {C!NoRow}]
        /\ OnePhoneIn(C!Flushed)
        /\ \A i \in Ids : rows[i] # C!NoRow => C!Flushed[i] = rows[i]
      BY <1>0, <2>1, RowAdded
  <2>4. \A i \in Ids : rows[i].state = "deleted" => C!Flushed[i] = rows[i]
      BY <2>3, NoRowIsNot
  <2>5. C!Flushed[n].state = "uncommitted" /\ \A i \in Ids \ {n} : C!Flushed[i] = rows[i]
      BY <1>0, <2>1, <2>2 DEF C!TypeOK, Added
  <2> HIDE DEF n
  <2>6. added = C!Uncommitted \cup {n} /\ n \notin C!Uncommitted
      BY <2>2, <2>5, NoRowIsNot DEF C!Uncommitted, UncommittedIn
  <2>7. Cardinality(added) = Cardinality(C!Uncommitted) + 1
      BY <2>6, FewUncommitted, FS_AddElement
  <2> QED BY <1>2, <2>3, <2>4, <2>7 DEF InSession
<1> QED BY <1>1, <1>2

LEMMA TakenKeeps ==
    ASSUME TablesFit, TableInv, Counted, C!RowTaken
    PROVE  TableInv' /\ Counted' /\ DeletedKept
<1> DEFINE p == imp.file[imp.next]
           found == \E i \in Ids : rows[i].phone = p /\ rows[i].state # "deleted"
           held == imp.locked \cup imp.dirty
           again == found \/ p = imp.pending
<1>0. imp \in Import
    BY DEF TableInv, ContactTypes
<1>1. /\ imp.at = "chunk" /\ imp.next <= Len(imp.file) /\ p # Null /\ ~imp.lost
      /\ C!CanFlush /\ C!RoomLeft /\ rows' = C!Flushed
      /\ UNCHANGED <<details, tags, links, fields, values, change>>
    BY DEF C!RowTaken
<1>2. imp' = IF again
             THEN Went(NextAt, Null, imp.lost, C!WithPhone(p), held, imp.created, imp.updated + 1, imp.errors)
             ELSE Went(NextAt, p, imp.lost, {}, held, imp.created + 1, imp.updated, imp.errors)
  <2>1. /\ DOMAIN imp = {"at", "file", "next", "pending", "lost", "dirty", "locked", "created", "updated", "errors",
                         "stored"}
        /\ imp = [at |-> imp.at, file |-> imp.file, next |-> imp.next, pending |-> imp.pending,
                  lost |-> imp.lost, dirty |-> imp.dirty, locked |-> imp.locked, created |-> imp.created, updated |-> imp.updated,
                  errors |-> imp.errors, stored |-> imp.stored]
      BY <1>0 DEF Import
  <2>2. C!Advance = Went(NextAt, imp.pending, imp.lost, imp.dirty, imp.locked,
                    imp.created, imp.updated, imp.errors)
    <3> HIDE DEF p
    <3>1. C!Advance = [imp EXCEPT !.next = imp.next + 1, !.at = NextAt]
        BY DEF C!Advance, NextAt
    <3> QED BY <2>1, <3>1 DEF Went
  <2> DEFINE a == Went(NextAt, imp.pending, imp.lost, imp.dirty, imp.locked,
                    imp.created, imp.updated, imp.errors)
  <2>3. a.updated = imp.updated /\ a.created = imp.created /\ a.locked = imp.locked
      BY DEF Went
  <2>4. imp' = IF again THEN [a EXCEPT !.updated = a.updated + 1, !.pending = Null,
                                      !.dirty = C!WithPhone(p), !.locked = a.locked \cup imp.dirty]
               ELSE [a EXCEPT !.created = a.created + 1, !.pending = p,
                              !.dirty = {}, !.locked = a.locked \cup imp.dirty]
      BY <2>2 DEF C!RowTaken
  <2> HIDE DEF again, p
  <2>5. CASE again
    <3>1. imp' = [a EXCEPT !.updated = imp.updated + 1, !.pending = Null,
                            !.dirty = C!WithPhone(p), !.locked = held]
        BY <2>3, <2>4, <2>5
    <3>2. imp' = Went(NextAt, Null, imp.lost, C!WithPhone(p), held, imp.created, imp.updated + 1, imp.errors)
        BY <3>1 DEF Went
    <3> QED BY <2>5, <3>2
  <2>6. CASE ~again
    <3>1. imp' = [a EXCEPT !.created = imp.created + 1, !.pending = p,
                            !.dirty = {}, !.locked = held]
        BY <2>3, <2>4, <2>6
    <3>2. imp' = Went(NextAt, p, imp.lost, {}, held, imp.created + 1, imp.updated, imp.errors)
        BY <3>1 DEF Went
    <3> QED BY <2>6, <3>2
  <2> QED BY <2>5, <2>6
<1>3. NextAt \in {"chunk", "full"}
    BY DEF NextAt
<1>4. imp.next > 0
    BY <1>0, <1>1, ImportOf DEF Counted
<1>5. p \in Phones
  <2>1. imp.next \in 1..Len(imp.file)
      BY <1>0, <1>1, <1>4, ImportOf
  <2>2. p \in Phones \cup {Null}
      BY <1>0, <2>1, ImportOf
  <2> QED BY <1>1, <2>2
<1>6. /\ rows' \in [Ids -> C!Row \cup {C!NoRow}] /\ OnePhone' /\ DeletedKept
      /\ Cardinality(C!Uncommitted') = Cardinality(C!Uncommitted) + InSession
    BY <1>1, FlushedAre DEF OnePhone, OnePhoneIn, DeletedKept, C!Uncommitted, UncommittedIn
<1>15. held \in SUBSET Ids /\ C!WithPhone(p) \in SUBSET Ids
    BY <1>0, ImportOf DEF C!WithPhone
<1> HIDE DEF again, p, held
<1>7. imp' \in Import
    BY <1>15, <1>0, <1>2, <1>3, <1>5, ImportOf DEF Import, Went
<1>8. TableInv'
    BY <1>1, <1>6, <1>7 DEF TableInv, ContactTypes, C!TypeOK, C!TagRows
<1>9. /\ imp'.at \in {"chunk", "full"} /\ imp'.next = imp.next + 1 /\ imp'.file = imp.file
      /\ imp'.stored = imp.stored /\ imp'.errors = imp.errors
      /\ imp'.created + imp'.updated = imp.created + imp.updated + 1
      /\ imp'.created = imp.created + InSession'
  <2>0. imp.created \in Nat /\ imp.updated \in Nat
      BY <1>0, ImportOf
  <2>1. CASE again
    <3>1. imp' = Went(NextAt, Null, imp.lost, C!WithPhone(p), held, imp.created, imp.updated + 1, imp.errors)
        BY <1>2, <2>1
    <3>2. /\ imp'.at = NextAt /\ imp'.next = imp.next + 1 /\ imp'.file = imp.file
          /\ imp'.stored = imp.stored /\ imp'.errors = imp.errors /\ imp'.pending = Null
          /\ imp'.created = imp.created /\ imp'.updated = imp.updated + 1
        BY <3>1 DEF Went
    <3>3. InSession' = 0
        BY <3>2 DEF InSession
    <3> QED BY <2>0, <1>3, <3>2, <3>3
  <2>2. CASE ~again
    <3>1. imp' = Went(NextAt, p, imp.lost, {}, held, imp.created + 1, imp.updated, imp.errors)
        BY <1>2, <2>2
    <3>2. /\ imp'.at = NextAt /\ imp'.next = imp.next + 1 /\ imp'.file = imp.file
          /\ imp'.stored = imp.stored /\ imp'.errors = imp.errors /\ imp'.pending = p
          /\ imp'.created = imp.created + 1 /\ imp'.updated = imp.updated
        BY <3>1 DEF Went
    <3>3. InSession' = 1
        BY <1>5, <3>2 DEF InSession, TablesFit
    <3> QED BY <2>0, <1>3, <3>2, <3>3
  <2> QED BY <2>1, <2>2
<1>10. ~imp'.lost
    BY <1>1, <1>2 DEF Went
<1>11. InSession \in Nat /\ InSession' \in Nat /\ Cardinality(C!Uncommitted) \in Nat
    BY FewUncommitted DEF InSession
<1>12. /\ imp'.created + imp'.updated + imp'.errors + 1 = imp'.next
       /\ imp'.next <= Len(imp'.file) + 1
  <2>1. imp.created + imp.updated + imp.errors + 1 = imp.next
      BY <1>1 DEF Counted
  <2>2. imp'.created \in Nat /\ imp'.updated \in Nat
      BY <1>7 DEF Import
  <2>3. /\ imp.created \in Nat /\ imp.updated \in Nat /\ imp.errors \in Nat /\ imp.next \in Nat
        /\ Len(imp.file) \in Nat
      BY <1>0, ImportOf
  <2>4. /\ Len(imp'.file) = Len(imp.file) /\ imp'.next = imp.next + 1
        /\ imp'.errors = imp.errors
        /\ imp'.created + imp'.updated = imp.created + imp.updated + 1
      BY <1>9
  <2>5. imp'.created + imp'.updated + imp'.errors + 1 = imp'.next
    <3> DEFINE c == imp.created
               u == imp.updated
               e == imp.errors
               n == imp.next
               d == imp'.created
               v == imp'.updated
    <3>1. /\ c \in Nat /\ u \in Nat /\ e \in Nat /\ n \in Nat
          /\ d \in Nat /\ v \in Nat
        BY <2>2, <2>3
    <3>2. c + u + e + 1 = n
        BY <2>1
    <3>3. d + v = c + u + 1
        BY <2>4
    <3>4. imp'.errors = e /\ imp'.next = n + 1
        BY <2>4
    <3> HIDE DEF c, u, e, n
    <3>5. d + v + e + 1 = n + 1
      <4> HIDE DEF d, v
      <4> QED BY <3>1, <3>2, <3>3
    <3> QED BY <3>4, <3>5
  <2>6. imp'.next <= Len(imp'.file) + 1
    <3>1. imp.next <= Len(imp.file)
        BY <1>1
    <3> QED BY <2>3, <2>4, <3>1
  <2> QED BY <2>5, <2>6
<1>13. imp'.errors = 0 => imp'.created = imp'.stored + Cardinality(C!Uncommitted') + InSession'
  <2>1. imp.errors = 0 => imp.created = imp.stored + Cardinality(C!Uncommitted) + InSession
      BY <1>1 DEF Counted
  <2> QED BY <1>0, <1>6, <1>9, <1>11, <2>1, ImportOf
<1>14. Counted'
    BY <1>9, <1>10, <1>12, <1>13 DEF Counted
<1> QED BY <1>6, <1>8, <1>14

(* The commit of a chunk none of whose statements failed.                   *)
LEMMA CommitKeeps ==
    ASSUME TablesFit, TableInv, Counted, C!ChunkDone, ~imp.lost, C!CanFlush
    PROVE  TableInv' /\ Counted' /\ DeletedKept
<1> DEFINE done == IF imp.next > Len(imp.file) THEN "done" ELSE "chunk"
           added == UncommittedIn(C!Flushed)
           count == Cardinality(added)
<1>0. imp \in Import /\ C!TypeOK /\ OnePhone
    BY DEF TableInv, ContactTypes
<1>1. /\ imp.at \in {"chunk", "full"} /\ UNCHANGED <<tags, links, fields, values, change>>
      /\ C!RoomLeft
      /\ rows' = [i \in Ids |-> IF C!Flushed[i].state = "uncommitted"
                                THEN [C!Flushed[i] EXCEPT !.state = "live"] ELSE C!Flushed[i]]
    BY DEF C!ChunkDone
<1>2. imp' = [at |-> done, file |-> imp.file, next |-> imp.next, pending |-> Null, lost |-> FALSE,
              dirty |-> {}, locked |-> {},
              created |-> imp.created, updated |-> imp.updated, errors |-> imp.errors,
              stored |-> imp.stored + count]
  <2>1. imp' = [imp EXCEPT !.at = done, !.pending = Null, !.dirty = {}, !.locked = {},
                           !.stored = @ + count]
      BY TablesCount DEF C!ChunkDone, UncommittedIn
  <2> HIDE DEF done, count
  <2> QED BY <1>0, <2>1 DEF Import
<1>3. /\ C!Flushed \in [Ids -> C!Row \cup {C!NoRow}]
      /\ OnePhoneIn(C!Flushed)
      /\ \A i \in Ids : rows[i].state = "deleted" => C!Flushed[i] = rows[i]
      /\ count = Cardinality(C!Uncommitted) + InSession
    BY <1>1, FlushedAre
<1>4. ASSUME NEW i \in Ids
      PROVE  /\ rows'[i] \in C!Row \cup {C!NoRow} /\ rows'[i].state # "uncommitted"
             /\ rows'[i].phone = C!Flushed[i].phone
             /\ rows'[i] # C!NoRow => C!Flushed[i] # C!NoRow
             /\ C!Flushed[i].state = "deleted" => rows'[i] = C!Flushed[i]
  <2>1. CASE C!Flushed[i].state = "uncommitted"
    <3>1. C!Flushed[i] \in C!Row
        BY <1>3, <2>1, NoRowIsNot
    <3>2. rows'[i] = [C!Flushed[i] EXCEPT !.state = "live"]
        BY <1>1, <2>1
    <3>3. rows'[i] \in C!Row /\ rows'[i].state = "live" /\ rows'[i].phone = C!Flushed[i].phone
        BY <3>1, <3>2 DEF C!Row
    <3> QED BY <2>1, <3>1, <3>3, NoRowIsNot
  <2>2. CASE C!Flushed[i].state # "uncommitted"
    <3>1. rows'[i] = C!Flushed[i]
        BY <1>1, <2>2
    <3> QED BY <1>3, <2>2, <3>1
  <2> QED BY <2>1, <2>2
<1>5. rows' \in [Ids -> C!Row \cup {C!NoRow}] /\ details' \in [Ids -> {"first", "edited"}]
  <2>1. details' = [i \in Ids |-> IF i \in imp.dirty \cup imp.locked THEN "edited" ELSE details[i]]
      BY DEF C!ChunkDone
  <2> QED BY <1>0, <1>1, <1>4, <2>1 DEF C!TypeOK
<1>6. OnePhone'
    BY <1>3, <1>4 DEF OnePhone, OnePhoneIn
<1>7. DeletedKept
    BY <1>3, <1>4 DEF DeletedKept
<1>8. C!Uncommitted' = {}
    BY <1>4 DEF C!Uncommitted
<1>9. Cardinality(C!Uncommitted') = 0
    BY <1>8, FS_EmptySet
<1>10. done \in {"chunk", "done"} /\ (done = "done" => imp.next > Len(imp.file))
    OBVIOUS
<1>11. count \in Nat /\ InSession \in Nat /\ Cardinality(C!Uncommitted) \in Nat
    BY <1>3, FewUncommitted DEF InSession
<1> HIDE DEF done, count
<1>12. imp' \in Import
    BY <1>0, <1>2, <1>10, <1>11, ImportOf DEF Import
<1>13. ContactTypes'
    BY <1>1, <1>5, <1>12 DEF TableInv, ContactTypes, C!TypeOK, C!TagRows
<1>14. imp'.errors = 0 => imp'.created = imp'.stored + Cardinality(C!Uncommitted') + InSession'
  <2>1. imp.errors = 0 => imp.created = imp.stored + Cardinality(C!Uncommitted) + InSession
      BY <1>1 DEF Counted
  <2>2. InSession' = 0
      BY <1>2 DEF InSession
  <2>3. imp'.errors = imp.errors /\ imp'.created = imp.created /\ imp'.stored = imp.stored + count
      BY <1>2
  <2> QED BY <1>0, <1>3, <1>9, <1>11, <2>1, <2>2, <2>3, ImportOf
<1>15. Counted'
    BY <1>0, <1>1, <1>2, <1>8, <1>10, <1>14, ImportOf DEF Counted
<1> QED BY <1>6, <1>7, <1>13, <1>15 DEF TableInv

(* The end of a chunk, as the counters see it.                              *)
LEMMA ChunkKeeps ==
    ASSUME TablesFit, TableInv, Counted, C!ChunkDone
    PROVE  TableInv' /\ Counted' /\ DeletedKept
<1> DEFINE done == IF imp.next > Len(imp.file) THEN "done" ELSE "chunk"
           End(at, dirty, locked, stored) ==
               [at |-> at, file |-> imp.file, next |-> imp.next, pending |-> Null, lost |-> FALSE,
                dirty |-> dirty, locked |-> locked,
                created |-> imp.created, updated |-> imp.updated, errors |-> imp.errors,
                stored |-> stored]
<1>0. imp \in Import /\ C!TypeOK /\ OnePhone
    BY DEF TableInv, ContactTypes
<1>1. imp.at \in {"chunk", "full"} /\ UNCHANGED <<tags, links, fields, values, change>>
    BY DEF C!ChunkDone
<1>2. done \in {"chunk", "done"} /\ (done = "done" => imp.next > Len(imp.file))
    OBVIOUS
<1>3. CASE rows' = C!Dropped
  <2>1. \A i \in Ids : rows'[i] = IF i \in C!Uncommitted THEN C!NoRow ELSE rows[i]
      BY <1>3 DEF C!Dropped
  <2>2. rows' \in [Ids -> C!Row \cup {C!NoRow}]
      BY <1>0, <1>3 DEF C!Dropped, C!TypeOK
  <2>3. C!Uncommitted' = {}
      BY <2>1, NoRowIsNot DEF C!Uncommitted
  <2>4. OnePhone' /\ DeletedKept
    <3>1. DeletedKept
        BY <2>1 DEF DeletedKept, C!Uncommitted
    <3>2. OnePhone'
      <4> SUFFICES ASSUME NEW i \in Ids, NEW j \in Ids, rows'[i] # C!NoRow, rows'[i].phone = rows'[j].phone
                   PROVE  i = j
          BY DEF OnePhone, OnePhoneIn
      <4>1. rows'[i] = rows[i] /\ rows[i] \in C!Row
          BY <1>0, <2>1, RowOf
      <4>2. rows'[j] # C!NoRow
          BY <1>0, <4>1, RowOf, NoRowIsNot DEF TablesFit
      <4>3. rows'[j] = rows[j]
          BY <2>1, <4>2
      <4> QED BY <1>0, <4>1, <4>3 DEF OnePhone, OnePhoneIn
    <3> QED BY <3>1, <3>2
  <2>5. CASE imp.lost
    <3>0. UNCHANGED details
        BY <2>5 DEF C!ChunkDone
    <3>1. imp' = End(done, imp.dirty, imp.locked, imp.stored)
        BY <1>0, <2>5 DEF C!ChunkDone, Import
    <3>2. imp.errors > 0
        BY <2>5 DEF Counted
    <3> HIDE DEF done
    <3>3. imp' \in Import
        BY <1>0, <1>2, <3>1, ImportOf DEF Import
    <3>4. ContactTypes'
        BY <1>1, <2>2, <3>0, <3>3 DEF TableInv, ContactTypes, C!TypeOK, C!TagRows
    <3>5. Counted'
        BY <1>0, <1>1, <1>2, <2>3, <3>1, <3>2, ImportOf DEF Counted
    <3> QED BY <2>4, <3>4, <3>5 DEF TableInv
  <2>6. CASE ~imp.lost /\ ~C!CanFlush
    <3>0. UNCHANGED details
        BY <2>6 DEF C!ChunkDone
    <3>1. imp' = End("failed", {}, {}, imp.stored)
        BY <1>0, <2>6 DEF C!ChunkDone, Import
    <3>3. imp' \in Import
        BY <1>0, <3>1, ImportOf DEF Import
    <3>4. ContactTypes'
        BY <1>1, <2>2, <3>0, <3>3 DEF TableInv, ContactTypes, C!TypeOK, C!TagRows
    <3>5. Counted'
        BY <1>0, <1>1, <2>3, <3>1, ImportOf DEF Counted
    <3> QED BY <2>4, <3>4, <3>5 DEF TableInv
  <2>7. CASE ~imp.lost /\ C!CanFlush
      BY <2>7, CommitKeeps
  <2> QED BY <2>5, <2>6, <2>7
<1>4. CASE rows' # C!Dropped
  <2>1. ~imp.lost /\ C!CanFlush
      BY <1>4 DEF C!ChunkDone
  <2> QED BY <2>1, CommitKeeps
<1> QED BY <1>3, <1>4

-----------------------------------------------------------------------------

LEMMA ContactsNext ==
    ASSUME TablesFit, TableInv, Counted, [C!Next]_(C!vars)
    PROVE  TableInv' /\ Counted' /\ DeletedKept
<1>1. CASE UNCHANGED C!vars
    BY <1>1, CountedKept
       DEF C!vars, TableInv, ContactTypes, C!TypeOK, OnePhone, OnePhoneIn, DeletedKept, C!TagRows, C!Uncommitted
<1>2. CASE (\E file \in Files : C!StartImport(file)) \/ C!RowRefused \/ C!RowTaken \/ C!ChunkDone
    BY <1>2, StartKeeps, RefusedKeeps, TakenKeeps, ChunkKeeps
<1>3. ASSUME NEW h \in Workers,
             \/ \E p \in Phones, ts \in SUBSET TagIds, fs \in SUBSET Fields :
                   C!CreateCheck(h, p, ts, fs) \/ \E i \in Ids : C!UpdateCheck(h, i, p, ts, fs)
             \/ \E is \in SUBSET Ids, t \in TagIds : C!BulkTagCheck(h, is, t)
             \/ \E is \in SUBSET Ids : C!BulkEditCheck(h, is)
             \/ C!CreateCommit(h) \/ C!UpdateCommit(h) \/ C!BulkTagCommit(h)
             \/ C!BulkEditCommit(h) \/ C!Abort(h)
      PROVE  Keeps /\ imp' = imp
  <2>1. Keeps
      BY <1>3, ChecksKeep, BulkTagCheckKeeps, CreateCommitKeeps, UpdateCommitKeeps,
         BulkTagCommitKeeps, BulkEditKeeps, AbortKeeps
  <2>2. imp' = imp
      BY <1>3 DEF C!CreateCheck, C!UpdateCheck, C!BulkTagCheck, C!Hold, C!CreateCommit, C!UpdateCommit,
                  C!BulkTagCommit, C!BulkEditCheck, C!BulkEditCommit, C!Abort
  <2> QED BY <2>1, <2>2
<1>4. ASSUME NEW is \in SUBSET Ids, C!DeleteContacts(is) \/ \E t \in TagIds : C!BulkUntag(is, t)
      PROVE  Keeps /\ imp' = imp
    BY <1>4, DeleteContactsKeeps, TagsKeep DEF C!DeleteContacts, C!BulkUntag
<1>5. ASSUME NEW t \in TagIds, C!DeleteTag(t) \/ \E n \in Names : C!NameTag(t, n)
      PROVE  Keeps /\ imp' = imp
    BY <1>5, TagsKeep DEF C!DeleteTag, C!NameTag
<1>6. ASSUME NEW f \in Fields, C!CreateField(f) \/ C!DeleteField(f)
      PROVE  Keeps /\ imp' = imp
    BY <1>6, FieldsKeep DEF C!CreateField, C!DeleteField
<1>7. Keeps /\ imp' = imp => TableInv' /\ Counted' /\ DeletedKept
    BY CountedKept DEF Keeps
<1> QED BY <1>1, <1>2, <1>3, <1>4, <1>5, <1>6, <1>7 DEF C!Next

(* Nobody takes up a deleted contact, and who has not read it before leaves *)
(* it alone.                                                                *)
LeftAlone ==
    \A i \in Ids : rows[i].state = "deleted" =>
        /\ i \in C!Held' => i \in C!Held
        /\ i \notin C!Held => details'[i] = details[i]

HeldBy(e) == IF e.op = "bulk_edit" THEN e.ids ELSE {}

LEMMA HeldIs ==
    /\ \A i : i \in C!Held <=> \/ i \in imp.dirty \/ i \in imp.locked
                             \/ \E h \in Workers : i \in HeldBy(change[h])
    /\ \A i : i \in C!Held' <=> \/ i \in imp'.dirty \/ i \in imp'.locked
                              \/ \E h \in Workers : i \in HeldBy(change'[h])
BY DEF C!Held, HeldBy

(* A request that takes up no deleted contact.                              *)
LEMMA TakesUpLive ==
    ASSUME TableInv, NEW h \in Workers, NEW e, UNCHANGED <<details, imp>>,
           change' = [change EXCEPT ![h] = e], \A i \in HeldBy(e) : C!Live(i)
    PROVE  LeftAlone
<1>1. \A g \in Workers : change'[g] = change[g] \/ change'[g] = e
    BY DEF TableInv, ContactTypes
<1> QED BY <1>1, HeldIs DEF LeftAlone, C!Live

LEMMA HeldNext == ASSUME TableInv, [C!Next]_(C!vars) PROVE LeftAlone
<1>0. imp \in Import /\ HeldBy(C!NoEdit) = {}
    BY DEF TableInv, ContactTypes, HeldBy, C!NoEdit
<1>1. CASE UNCHANGED C!vars
    BY <1>1 DEF C!vars, LeftAlone, C!Held
<1>2. ASSUME NEW h \in Workers, NEW p \in Phones, NEW ts \in SUBSET TagIds, NEW fs \in SUBSET Fields,
             C!CreateCheck(h, p, ts, fs) \/ \E i \in Ids : C!UpdateCheck(h, i, p, ts, fs)
      PROVE  LeftAlone
  <2>1. CASE C!CreateCheck(h, p, ts, fs)
    <3> DEFINE e == [op |-> "create", phone |-> p, tags |-> ts, fields |-> fs]
    <3>1. C!Hold(h, e)
        BY <2>1 DEF C!CreateCheck
    <3>2. HeldBy(e) = {}
        BY DEF HeldBy
    <3> HIDE DEF e
    <3> QED BY <3>1, <3>2, TakesUpLive DEF C!Hold
  <2>2. ASSUME NEW i \in Ids, C!UpdateCheck(h, i, p, ts, fs) PROVE LeftAlone
    <3> DEFINE e == [op |-> "update", id |-> i, phone |-> p, tags |-> ts, fields |-> fs,
                     seenTags |-> C!TagsOf(i), seenFields |-> C!FieldsOf(i)]
    <3>1. C!Hold(h, e)
        BY <2>2 DEF C!UpdateCheck
    <3>2. HeldBy(e) = {}
        BY DEF HeldBy
    <3> HIDE DEF e
    <3> QED BY <3>1, <3>2, TakesUpLive DEF C!Hold
  <2> QED BY <1>2, <2>1, <2>2
<1>3. ASSUME NEW h \in Workers, NEW is \in SUBSET Ids, NEW t \in TagIds, C!BulkTagCheck(h, is, t)
      PROVE  LeftAlone
  <2> DEFINE e == [op |-> "bulk_tag", ids |-> {i \in is : C!Live(i) /\ t \notin C!TagsOf(i)},
                   tag |-> t]
  <2>1. C!Hold(h, e)
      BY <1>3 DEF C!BulkTagCheck
  <2>2. HeldBy(e) = {}
      BY DEF HeldBy
  <2> HIDE DEF e
  <2> QED BY <2>1, <2>2, TakesUpLive DEF C!Hold
<1>4. ASSUME NEW h \in Workers, NEW is \in SUBSET Ids, C!BulkEditCheck(h, is)
      PROVE  LeftAlone
  <2>1. PICK e : C!Hold(h, e) /\ \A i \in HeldBy(e) : C!Live(i)
      BY <1>4 DEF C!BulkEditCheck, HeldBy
  <2> QED BY <2>1, TakesUpLive DEF C!Hold
<1>5. ASSUME NEW h \in Workers, C!CreateCommit(h) \/ C!BulkTagCommit(h) \/ C!Abort(h)
      PROVE  LeftAlone
  <2>1. change' = [change EXCEPT ![h] = C!NoEdit] /\ UNCHANGED <<details, imp>>
      BY <1>5 DEF C!CreateCommit, C!BulkTagCommit, C!Abort
  <2> QED BY <1>0, <2>1, TakesUpLive
<1>6. ASSUME NEW h \in Workers, C!UpdateCommit(h) PROVE LeftAlone
  <2>1. PICK n : /\ details' = [details EXCEPT ![n] = "edited"] /\ rows[n].state = "live"
                 /\ change' = [change EXCEPT ![h] = C!NoEdit] /\ imp' = imp
      BY <1>6 DEF C!UpdateCommit, C!StillThere, C!Live
  <2>2. \A g \in Workers : change'[g] = change[g] \/ change'[g] = C!NoEdit
      BY <2>1 DEF TableInv, ContactTypes
  <2>3. \A i \in Ids : rows[i].state = "deleted" => details'[i] = details[i]
      BY <2>1 DEF TableInv, ContactTypes, C!TypeOK
  <2> QED BY <1>0, <2>1, <2>2, <2>3, HeldIs DEF LeftAlone
<1>7. ASSUME NEW h \in Workers, C!BulkEditCommit(h) PROVE LeftAlone
  <2>1. /\ details' = [i \in Ids |-> IF i \in HeldBy(change[h]) THEN "edited" ELSE details[i]]
        /\ change' = [change EXCEPT ![h] = C!NoEdit] /\ imp' = imp
      BY <1>7 DEF C!BulkEditCommit, HeldBy
  <2>2. \A g \in Workers : change'[g] = change[g] \/ change'[g] = C!NoEdit
      BY <2>1 DEF TableInv, ContactTypes
  <2> QED BY <1>0, <2>1, <2>2, HeldIs DEF LeftAlone
<1>8. ASSUME UNCHANGED <<details, change, imp>> PROVE LeftAlone
    BY <1>8 DEF LeftAlone, C!Held
<1>9. ASSUME NEW is \in SUBSET Ids, C!DeleteContacts(is) \/ \E t \in TagIds : C!BulkUntag(is, t)
      PROVE  LeftAlone
    BY <1>8, <1>9 DEF C!DeleteContacts, C!BulkUntag
<1>10. ASSUME NEW t \in TagIds, C!DeleteTag(t) \/ \E n \in Names : C!NameTag(t, n) PROVE LeftAlone
    BY <1>8, <1>10 DEF C!DeleteTag, C!NameTag
<1>11. ASSUME NEW f \in Fields, C!CreateField(f) \/ C!DeleteField(f) PROVE LeftAlone
    BY <1>8, <1>11 DEF C!CreateField, C!DeleteField
<1>12. ASSUME UNCHANGED <<details, change>>,
              \A i \in imp'.dirty \cup imp'.locked : C!Live(i) \/ i \in imp.dirty \cup imp.locked
       PROVE  LeftAlone
    BY <1>12, HeldIs DEF LeftAlone, C!Live
<1>13. ASSUME NEW file \in Files, C!StartImport(file) PROVE LeftAlone
    BY <1>12, <1>13 DEF C!StartImport, C!NoImport
<1>14. ASSUME C!RowRefused PROVE LeftAlone
  <2>1. /\ UNCHANGED <<details, change>>
        /\ imp'.dirty \in {imp.dirty, {}} /\ imp'.locked \in {imp.locked, {}}
      BY <1>0, <1>14 DEF C!RowRefused, C!Advance, Import
  <2> QED BY <1>12, <2>1
<1>15. ASSUME C!RowTaken PROVE LeftAlone
  <2>1. PICK p : /\ UNCHANGED <<details, change>>
                 /\ imp'.dirty \in {C!WithPhone(p), {}} /\ imp'.locked = imp.locked \cup imp.dirty
      BY <1>0, <1>15 DEF C!RowTaken, C!Advance, Import
  <2> QED BY <1>12, <2>1 DEF C!WithPhone
<1>16. ASSUME C!ChunkDone PROVE LeftAlone
  <2>1. change' = change /\ imp'.dirty \in {imp.dirty, {}} /\ imp'.locked \in {imp.locked, {}}
      BY <1>0, <1>16 DEF C!ChunkDone, Import
  <2>2. \/ details' = details
        \/ details' = [i \in Ids |-> IF i \in imp.dirty \cup imp.locked THEN "edited" ELSE details[i]]
      BY <1>16 DEF C!ChunkDone
  <2> QED BY <2>1, <2>2, HeldIs DEF LeftAlone
<1> QED BY <1>1, <1>2, <1>3, <1>4, <1>5, <1>6, <1>7, <1>9, <1>10, <1>11, <1>13, <1>14, <1>15, <1>16
        DEF C!Next

LEMMA ContactsFollow == ASSUME TablesFit, TableInv, Counted PROVE C!PhonesUnambiguous /\ C!CleanReportTrue
<1>1. C!PhonesUnambiguous
  <2> SUFFICES ASSUME NEW p \in Phones PROVE Cardinality(C!WithPhone(p)) <= 1
      BY TablesCount DEF C!PhonesUnambiguous
  <2>1. CASE C!WithPhone(p) = {}
      BY <2>1, FS_EmptySet
  <2>2. ASSUME NEW i \in C!WithPhone(p) PROVE Cardinality(C!WithPhone(p)) <= 1
    <3>1. C!WithPhone(p) = {i}
        BY NoRowIsNot DEF C!WithPhone, C!Live, TableInv, OnePhone, OnePhoneIn
    <3>2. Cardinality({i}) = 1
        BY FS_Singleton
    <3>3. Cardinality(C!WithPhone(p)) = 1
        BY <3>1, <3>2
    <3> QED BY <3>3
  <2> QED BY <2>1, <2>2
<1>2. C!CleanReportTrue
  <2> SUFFICES ASSUME imp.at = "done", imp.errors = 0
               PROVE  imp.created = imp.stored /\ imp.created + imp.updated = Len(imp.file)
      BY DEF C!CleanReportTrue
  <2>0. imp \in Import
      BY DEF TableInv, ContactTypes
  <2>1. Cardinality(C!Uncommitted) = 0 /\ InSession = 0
      BY FS_EmptySet DEF Counted, InSession
  <2>2. /\ imp.created = imp.stored + Cardinality(C!Uncommitted) + InSession
        /\ imp.created + imp.updated + imp.errors + 1 = imp.next
        /\ imp.next <= Len(imp.file) + 1 /\ imp.next > Len(imp.file)
      BY DEF Counted
  <2>3. /\ imp.created \in Nat /\ imp.updated \in Nat /\ imp.stored \in Nat
        /\ imp.next \in Nat /\ Len(imp.file) \in Nat
      BY <2>0, ImportOf
  <2> QED BY <2>1, <2>2, <2>3
<1> QED BY <1>1, <1>2

LEMMA ContactsAlone ==
    C!Spec => [](C!TypeOK /\ C!PhonesUnambiguous /\ C!CleanReportTrue) /\ C!DeletedStay
<1>0. TablesFit
    BY KeysFit, NullFits, FilesFit DEF TablesFit
<1>1. C!Init => TableInv /\ Counted
    BY <1>0, InitTable
<1>2. (TableInv /\ Counted) /\ [C!Next]_(C!vars) => (TableInv /\ Counted)'
    BY <1>0, ContactsNext
<1>3. (TableInv /\ Counted) /\ [C!Next]_(C!vars) => [DeletedKept /\ LeftAlone]_(C!vars)
    BY <1>0, ContactsNext, HeldNext
<1>4. TableInv /\ Counted => C!TypeOK /\ C!PhonesUnambiguous /\ C!CleanReportTrue
    BY <1>0, ContactsFollow DEF TableInv, ContactTypes
<1>5. [DeletedKept /\ LeftAlone]_(C!vars)
      => [\A i \in Ids : rows[i].state = "deleted" =>
             /\ rows'[i] = rows[i]
             /\ i \in C!Held' => i \in C!Held
             /\ i \notin C!Held => details'[i] = details[i]]_(C!vars)
    BY DEF DeletedKept, LeftAlone
<1> QED BY <1>1, <1>2, <1>3, <1>4, <1>5, PTL DEF C!Spec, C!DeletedStay

-----------------------------------------------------------------------------
(* Automation.  A run keeps, beside what it has loaded, the entries it will *)
(* append: each is of an automation it loaded, once, and what they say was  *)
(* scored is what its session holds.                                        *)

Lists == {c.acts : c \in Configs}
AutoRow == [conds : {c.conds : c \in Configs}, acts : Lists, active : BOOLEAN, count : Nat]
Entry == [auto : M!Autos, event : Events, executed : Nat, acts : Lists, gone : BOOLEAN]
Loaded == [auto : M!Autos, row : AutoRow \cup {M!Absent}]
Effects == [score : Nat, tagged : BOOLEAN, replies : Nat]
RunRecord == [at : {"next", "act"}, event : Events, mine : Effects, unsent : BOOLEAN,
              logs : Seq(Entry), k : Nat, j : Nat, plan : Seq(Loaded)]
DoneRecord == [at : {"committed"}, event : Events, mine : {M!Nothing}, logs : {<<>>}]
Evaluating(w) == work[w].at \in {"next", "act"}

AutoTypes ==
    /\ M!TypeOK
    /\ logs \in Seq(Entry)
    /\ work \in [Workers -> {M!Idle} \cup RunRecord \cup DoneRecord]
    /\ queue \in [Events -> {"new", "first", "retry", "done"}]
    /\ lost \in [Events -> Nat]

(* The entries of a log that are in X.                                      *)
Where(ls, X) == {i \in DOMAIN ls : ls[i] \in X}
Told(a) == {l \in Entry : l.auto = a /\ ~l.gone}
Ran(a, e) == {l \in Entry : l.auto = a /\ l.event = e}
(* The increments of the lead score among the first j actions.              *)
Given(acts, j) == {x \in 1..j : acts[x] = "update_lead_score"}

(* An event is run by one worker at a time, while the broker has it.        *)
OneEach ==
    \A v, w \in Workers :
        work[v] # M!Idle /\ work[w] # M!Idle /\ work[v].event = work[w].event => v = w
Queued == \A w \in Workers : work[w] # M!Idle => queue[work[w].event] \in {"first", "retry"}

(* A run has logged automations of its plan, each once and before the one   *)
(* it is at, and holds what these and the current one have scored.          *)
FromPlan(r, l) ==
    /\ l.event = r.event /\ ~l.gone
    /\ \E n \in DOMAIN r.plan : /\ r.plan[n].row.active /\ l.auto = r.plan[n].auto
                                /\ n <= r.k /\ (r.at = "act" => n < r.k)
Underway(r) == IF r.at = "act" THEN Cardinality(Given(r.plan[r.k].row.acts, r.j)) ELSE 0
RunFits(r) ==
    /\ \A n \in DOMAIN r.plan : n \in DOMAIN Order /\ r.plan[n].auto = Order[n]
    /\ r.at = "act" => r.k \in DOMAIN r.plan /\ r.plan[r.k].row.active
    /\ \A i \in DOMAIN r.logs : FromPlan(r, r.logs[i])
    /\ \A i, h \in DOMAIN r.logs : r.logs[i].auto = r.logs[h].auto => i = h
    /\ r.mine.score = Cardinality(M!Scores(r.logs)) + Underway(r)

(* What was loaded was there, and claimed no more than is logged by now.    *)
PlanStands(plan, table, ls) ==
    \A n \in DOMAIN plan : plan[n].row.active =>
        /\ plan[n].row \in AutoRow /\ table[plan[n].auto] # M!Absent
        /\ table[plan[n].auto].count >= 0 =>
              plan[n].row.count <= Cardinality(Where(ls, Told(plan[n].auto)))
RunsFit ==
    \A w \in Workers : Evaluating(w) => RunFits(work[w]) /\ PlanStands(work[w].plan, autos, logs)

ScoreTold == contact.score = Cardinality(M!Scores(logs))
CountsTold == \A a \in M!Autos : autos[a].count <= Cardinality(Where(logs, Told(a)))

(* An event has run once when its task has ended, and once per lost worker. *)
Ended(e) == queue[e] = "done" \/ \E w \in Workers : work[w].at = "committed" /\ work[w].event = e
Ends(e) == IF Ended(e) THEN 1 ELSE 0
RanOnce ==
    \A a \in M!Autos, e \in Events : Cardinality(Where(logs, Ran(a, e))) <= lost[e] + Ends(e)

AutoInv ==
    /\ AutoTypes /\ OneEach /\ Queued /\ RunsFit /\ ScoreTold /\ CountsTold /\ RanOnce

LEMMA WhereIs ==
    ASSUME NEW ls \in Seq(Entry), NEW X
    PROVE  /\ IsFiniteSet(Where(ls, X)) /\ Cardinality(Where(ls, X)) \in Nat
           /\ Where(ls, X) \subseteq 1..Len(ls)
<1>1. Where(ls, X) \subseteq 1..Len(ls) /\ Len(ls) \in Nat
    BY DEF Where
<1>2. IsFiniteSet(1..Len(ls))
    BY <1>1, FS_Interval
<1> QED BY <1>1, <1>2, FS_Subset, FS_CardinalityType

(* What a task appends is counted beside what was there.                    *)
LEMMA WhereJoined ==
    ASSUME NEW p \in Seq(Entry), NEW q \in Seq(Entry), NEW X
    PROVE  Cardinality(Where(p \o q, X)) = Cardinality(Where(p, X)) + Cardinality(Where(q, X))
<1> DEFINE A == Where(p, X)
           K == Where(q, X)
           T == {x \in Len(p) + 1..Len(p) + Len(q) : q[x - Len(p)] \in X}
           f == [x \in K |-> x + Len(p)]
<1>1. /\ Len(p) \in Nat /\ Len(q) \in Nat
      /\ DOMAIN p = 1..Len(p) /\ DOMAIN q = 1..Len(q) /\ DOMAIN (p \o q) = 1..Len(p) + Len(q)
      /\ \A x \in 1..Len(p) + Len(q) :
            (p \o q)[x] = IF x <= Len(p) THEN p[x] ELSE q[x - Len(p)]
    OBVIOUS
<1>2. Where(p \o q, X) = A \cup T
  <2> HIDE DEF f
  <2>1. ASSUME NEW x \in Where(p \o q, X) PROVE x \in A \cup T
    <3>1. x \in 1..Len(p) + Len(q) /\ (p \o q)[x] \in X
        BY <1>1 DEF Where
    <3>2. CASE x <= Len(p)
        BY <1>1, <3>1, <3>2 DEF Where
    <3>3. CASE x > Len(p)
        BY <1>1, <3>1, <3>3
    <3> QED BY <1>1, <3>1, <3>2, <3>3
  <2>2. ASSUME NEW x \in A PROVE x \in Where(p \o q, X)
    <3>1. x \in 1..Len(p) /\ p[x] \in X
        BY <1>1 DEF Where
    <3>2. x \in 1..Len(p) + Len(q) /\ (p \o q)[x] = p[x]
        BY <1>1, <3>1
    <3> QED BY <1>1, <3>1, <3>2 DEF Where
  <2>3. ASSUME NEW x \in T PROVE x \in Where(p \o q, X)
    <3>1. x \in 1..Len(p) + Len(q) /\ ~(x <= Len(p)) /\ q[x - Len(p)] \in X
        BY <1>1
    <3>2. (p \o q)[x] = q[x - Len(p)]
        BY <1>1, <3>1
    <3> QED BY <1>1, <3>1, <3>2 DEF Where
  <2> QED BY <2>1, <2>2, <2>3
<1>3. A \subseteq 1..Len(p) /\ A \cap T = {}
    BY <1>1, WhereIs
<1>4. f \in Bijection(K, T)
  <2>1. K \subseteq 1..Len(q)
      BY WhereIs
  <2>2. ASSUME NEW x \in K PROVE f[x] \in T
    <3>1. x \in 1..Len(q) /\ q[x] \in X
        BY <2>1 DEF Where
    <3>2. (x + Len(p)) - Len(p) = x /\ x + Len(p) \in Len(p) + 1..Len(p) + Len(q)
        BY <1>1, <3>1
    <3> QED BY <3>1, <3>2
  <2>3. f \in [K -> T]
      BY <2>2
  <2>4. \A x, y \in K : f[x] = f[y] => x = y
      BY <1>1, <2>1
  <2>5. ASSUME NEW t \in T PROVE \E x \in K : f[x] = t
    <3>1. t - Len(p) \in 1..Len(q) /\ (t - Len(p)) + Len(p) = t /\ q[t - Len(p)] \in X
        BY <1>1
    <3>2. t - Len(p) \in K
        BY <1>1, <3>1 DEF Where
    <3> QED BY <3>1, <3>2
  <2> HIDE DEF f, K, T
  <2> QED BY <2>3, <2>4, <2>5 DEF Bijection, Injection, Surjection, IsInjective
<1>5. /\ IsFiniteSet(A) /\ IsFiniteSet(K)
      /\ Cardinality(A) \in Nat /\ Cardinality(K) \in Nat
    BY WhereIs
<1>6. IsFiniteSet(T) /\ Cardinality(T) = Cardinality(K)
  <2> HIDE DEF f, K, T
  <2> QED BY <1>4, <1>5, FS_Bijection DEF ExistsBijection
<1>7. Cardinality(A \cup T) = Cardinality(A) + Cardinality(T)
  <2> HIDE DEF A, K, T
  <2>1. Cardinality(A \cup T) = Cardinality(A) + Cardinality(T) - Cardinality(A \cap T)
      BY <1>5, <1>6, FS_Union
  <2>2. Cardinality(A \cap T) = 0
      BY <1>3, FS_EmptySet
  <2> QED BY <1>5, <1>6, <2>1, <2>2
<1> QED BY <1>2, <1>6, <1>7

(* At most one of them, at least one of them.                               *)
LEMMA WhereFew ==
    ASSUME NEW ls \in Seq(Entry), NEW X
    PROVE  /\ (\A i, h \in Where(ls, X) : i = h) => Cardinality(Where(ls, X)) <= 1
           /\ Where(ls, X) # {} => Cardinality(Where(ls, X)) >= 1
           /\ Where(ls, X) = {} => Cardinality(Where(ls, X)) = 0
<1> DEFINE S == Where(ls, X)
<1>1. IsFiniteSet(S) /\ Cardinality(S) \in Nat
    BY WhereIs
<1> HIDE DEF S
<1>2. Cardinality(S) = 0 <=> S = {}
    BY <1>1, FS_EmptySet
<1>3. ASSUME \A i, h \in S : i = h PROVE Cardinality(S) <= 1
  <2>1. CASE S = {}
      BY <1>2, <2>1
  <2>2. ASSUME NEW x \in S PROVE Cardinality(S) <= 1
    <3>1. S = {x}
        BY <1>3
    <3>2. Cardinality({x}) = 1
        BY FS_Singleton
    <3>3. Cardinality(S) = 1
        BY <3>1, <3>2
    <3> QED BY <3>3
  <2> QED BY <2>1, <2>2
<1>4. S # {} => Cardinality(S) >= 1
    BY <1>1, <1>2
<1> USE DEF S
<1> QED BY <1>2, <1>3, <1>4

LEMMA GivenIs ==
    ASSUME NEW acts, NEW j \in Nat
    PROVE  /\ IsFiniteSet(Given(acts, j)) /\ Cardinality(Given(acts, j)) \in Nat
           /\ Cardinality(Given(acts, 0)) = 0
           /\ Cardinality(Given(acts, j + 1)) =
                Cardinality(Given(acts, j)) + (IF acts[j + 1] = "update_lead_score" THEN 1 ELSE 0)
<1>1. IsFiniteSet(1..j) /\ Given(acts, j) \subseteq 1..j
    BY FS_Interval DEF Given
<1>2. IsFiniteSet(Given(acts, j)) /\ Cardinality(Given(acts, j)) \in Nat
    BY <1>1, FS_Subset, FS_CardinalityType
<1>3. Given(acts, 0) = {}
    BY DEF Given
<1>4. Cardinality(Given(acts, 0)) = 0
    BY <1>3, FS_EmptySet
<1>5. CASE acts[j + 1] = "update_lead_score"
  <2>1. Given(acts, j + 1) = Given(acts, j) \cup {j + 1} /\ j + 1 \notin Given(acts, j)
      BY <1>5 DEF Given
  <2> QED BY <1>2, <1>4, <1>5, <2>1, FS_AddElement
<1>6. CASE acts[j + 1] # "update_lead_score"
  <2>1. Given(acts, j + 1) = Given(acts, j)
      BY <1>6 DEF Given
  <2> QED BY <1>2, <1>4, <1>6, <2>1
<1> QED BY <1>5, <1>6

LEMMA ScoresAre ==
    ASSUME NEW ls
    PROVE  /\ M!Scores(ls) = UNION {{i} \X Given(ls[i].acts, ls[i].executed) : i \in DOMAIN ls}
           /\ \A s : s \in M!Scores(ls) <=>
                \E i \in DOMAIN ls : \E x \in Given(ls[i].acts, ls[i].executed) : s = <<i, x>>
<1>1. M!Scores(ls) = UNION {{i} \X Given(ls[i].acts, ls[i].executed) : i \in DOMAIN ls}
    BY DEF M!Scores, Given
<1>2. ASSUME NEW s
      PROVE  s \in M!Scores(ls) <=>
                \E i \in DOMAIN ls : \E x \in Given(ls[i].acts, ls[i].executed) : s = <<i, x>>
    BY <1>1
<1> QED BY <1>1, <1>2

LEMMA ScoresFinite ==
    ASSUME NEW ls \in Seq(Entry)
    PROVE  IsFiniteSet(M!Scores(ls)) /\ Cardinality(M!Scores(ls)) \in Nat
<1> DEFINE of(i) == {i} \X Given(ls[i].acts, ls[i].executed)
           T == {of(i) : i \in DOMAIN ls}
           f == [i \in DOMAIN ls |-> of(i)]
<1>1. IsFiniteSet(DOMAIN ls)
    BY FS_Interval
<1>2. f \in Surjection(DOMAIN ls, T)
  <2> HIDE DEF of
  <2> QED BY DEF Surjection
<1>3. IsFiniteSet(T)
  <2> HIDE DEF f, T
  <2> QED BY <1>1, <1>2, FS_Surjection
<1>4. ASSUME NEW i \in DOMAIN ls PROVE IsFiniteSet(of(i))
  <2>1. ls[i] \in Entry
      OBVIOUS
  <2>2. ls[i].executed \in Nat
      BY <2>1 DEF Entry
  <2> QED BY <2>2, GivenIs, FS_Singleton, FS_Product
<1>5. M!Scores(ls) = UNION T
    BY ScoresAre
<1>6. \A Z \in T : IsFiniteSet(Z)
    BY <1>4
<1>7. IsFiniteSet(UNION T)
  <2> HIDE DEF T
  <2> QED BY <1>3, <1>6, FS_UNION
<1>8. IsFiniteSet(M!Scores(ls))
    BY <1>5, <1>7
<1> QED BY <1>8, FS_CardinalityType

LEMMA ScoresJoined ==
    ASSUME NEW p \in Seq(Entry), NEW q \in Seq(Entry)
    PROVE  Cardinality(M!Scores(p \o q)) = Cardinality(M!Scores(p)) + Cardinality(M!Scores(q))
<1> DEFINE A == M!Scores(p)
           K == M!Scores(q)
           T == {s \in M!Scores(p \o q) : s[1] > Len(p)}
           f == [s \in K |-> <<s[1] + Len(p), s[2]>>]
<1>1. /\ Len(p) \in Nat /\ Len(q) \in Nat
      /\ DOMAIN p = 1..Len(p) /\ DOMAIN q = 1..Len(q) /\ DOMAIN (p \o q) = 1..Len(p) + Len(q)
      /\ \A x \in 1..Len(p) : (p \o q)[x] = p[x]
      /\ \A x \in 1..Len(q) : (p \o q)[x + Len(p)] = q[x]
    OBVIOUS
<1>0. \A s : s \in M!Scores(p \o q) <=>
        \E i \in DOMAIN (p \o q) :
            \E x \in Given((p \o q)[i].acts, (p \o q)[i].executed) : s = <<i, x>>
  <2> DEFINE r == p \o q
  <2> HIDE DEF r
  <2>1. \A s : s \in M!Scores(r) <=>
          \E i \in DOMAIN r : \E x \in Given(r[i].acts, r[i].executed) : s = <<i, x>>
      BY ScoresAre
  <2> USE DEF r
  <2> QED BY <2>1
<1>2. M!Scores(p \o q) = A \cup T
  <2> HIDE DEF f
  <2>1. ASSUME NEW s \in M!Scores(p \o q), ~(s[1] > Len(p)) PROVE s \in A
    <3>1. PICK i \in DOMAIN (p \o q) :
            \E x \in Given((p \o q)[i].acts, (p \o q)[i].executed) : s = <<i, x>>
        BY <1>0
    <3>2. s[1] = i
        BY <3>1
    <3>3. i \in 1..Len(p) /\ (p \o q)[i] = p[i]
        BY <1>1, <2>1, <3>1, <3>2
    <3> QED BY <1>1, <3>1, <3>3, ScoresAre
  <2>2. ASSUME NEW s \in A PROVE s \in M!Scores(p \o q)
    <3>1. PICK i \in DOMAIN p : \E x \in Given(p[i].acts, p[i].executed) : s = <<i, x>>
        BY ScoresAre
    <3>2. i \in DOMAIN (p \o q) /\ (p \o q)[i] = p[i]
        BY <1>1, <3>1
    <3> QED BY <3>1, <3>2, ScoresAre
  <2> QED BY <2>1, <2>2
<1>3. A \cap T = {}
  <2>1. ASSUME NEW s \in A PROVE s[1] \in 1..Len(p)
      BY <1>1, ScoresAre
  <2> QED BY <1>1, <2>1
<1>4. \A s \in K : s[1] \in 1..Len(q) /\ s = <<s[1], s[2]>> /\ s[2] \in Given(q[s[1]].acts, q[s[1]].executed)
  <2> TAKE s \in K
  <2>1. PICK i \in DOMAIN q : \E x \in Given(q[i].acts, q[i].executed) : s = <<i, x>>
      BY ScoresAre
  <2>2. PICK x \in Given(q[i].acts, q[i].executed) : s = <<i, x>>
      BY <2>1
  <2>3. s[1] = i /\ s[2] = x
      BY <2>2
  <2> QED BY <1>1, <2>2, <2>3
<1>5. f \in Bijection(K, T)
  <2>1. ASSUME NEW s \in K PROVE f[s] \in T
    <3>1. s[1] + Len(p) \in DOMAIN (p \o q) /\ (p \o q)[s[1] + Len(p)] = q[s[1]]
          /\ s[1] + Len(p) > Len(p)
        BY <1>1, <1>4
    <3>2. <<s[1] + Len(p), s[2]>> \in M!Scores(p \o q)
        BY <1>4, <3>1, ScoresAre
    <3>3. f[s] = <<s[1] + Len(p), s[2]>>
        OBVIOUS
    <3> QED BY <3>1, <3>2, <3>3
  <2>2. f \in [K -> T]
      BY <2>1
  <2>3. ASSUME NEW s \in K, NEW t \in K, f[s] = f[t] PROVE s = t
    <3>1. s[1] + Len(p) = t[1] + Len(p) /\ s[2] = t[2]
        BY <2>3
    <3>2. s[1] = t[1]
        BY <1>1, <1>4, <3>1
    <3> QED BY <1>4, <3>1, <3>2
  <2>4. ASSUME NEW t \in T PROVE \E s \in K : f[s] = t
    <3>1. t \in M!Scores(p \o q) /\ t[1] > Len(p)
        OBVIOUS
    <3>2. PICK i \in DOMAIN (p \o q) :
            \E x \in Given((p \o q)[i].acts, (p \o q)[i].executed) : t = <<i, x>>
        BY <3>1, <1>0
    <3>3. PICK x \in Given((p \o q)[i].acts, (p \o q)[i].executed) : t = <<i, x>>
        BY <3>2
    <3>4. i - Len(p) \in 1..Len(q) /\ (i - Len(p)) + Len(p) = i
        BY <1>1, <3>1, <3>3
    <3>5. (p \o q)[i] = q[i - Len(p)]
        BY <1>1, <3>4
    <3>6. <<i - Len(p), x>> \in K
        BY <1>1, <3>3, <3>4, <3>5, ScoresAre
    <3>7. f[<<i - Len(p), x>>] = t
        BY <3>3, <3>4, <3>6
    <3> QED BY <3>6, <3>7
  <2> HIDE DEF f, K, T
  <2> QED BY <2>2, <2>3, <2>4 DEF Bijection, Injection, Surjection, IsInjective
<1>6. /\ IsFiniteSet(A) /\ IsFiniteSet(K)
      /\ Cardinality(A) \in Nat /\ Cardinality(K) \in Nat
    BY ScoresFinite
<1>7. IsFiniteSet(T) /\ Cardinality(T) = Cardinality(K)
  <2> HIDE DEF f, K, T
  <2> QED BY <1>5, <1>6, FS_Bijection DEF ExistsBijection
<1>8. Cardinality(A \cup T) = Cardinality(A) + Cardinality(T)
  <2> HIDE DEF A, K, T
  <2>1. Cardinality(A \cup T) = Cardinality(A) + Cardinality(T) - Cardinality(A \cap T)
      BY <1>6, <1>7, FS_Union
  <2>2. Cardinality(A \cap T) = 0
      BY <1>3, FS_EmptySet
  <2> QED BY <1>6, <1>7, <2>1, <2>2
<1> QED BY <1>2, <1>7, <1>8

LEMMA ScoresNone == M!Scores(<<>>) = {} /\ Cardinality(M!Scores(<<>>)) = 0
<1>1. M!Scores(<<>>) = {}
    BY ScoresAre
<1> QED BY <1>1, FS_EmptySet

LEMMA ScoresOne ==
    ASSUME NEW l \in Entry
    PROVE  Cardinality(M!Scores(<<l>>)) = Cardinality(Given(l.acts, l.executed))
<1> DEFINE G == Given(l.acts, l.executed)
           f == [x \in G |-> <<1, x>>]
           T == M!Scores(<<l>>)
<1>1. l.executed \in Nat
    BY DEF Entry
<1>2. IsFiniteSet(G)
    BY <1>1, GivenIs
<1>3. \A s : s \in T <=> \E x \in G : s = <<1, x>>
    BY ScoresAre
<1> HIDE DEF T, G
<1>4. f \in Bijection(G, T)
  <2>1. f \in [G -> T]
      BY <1>3
  <2>2. \A x, y \in G : f[x] = f[y] => x = y
      OBVIOUS
  <2>3. \A t \in T : \E x \in G : f[x] = t
      BY <1>3
  <2> HIDE DEF f
  <2> QED BY <2>1, <2>2, <2>3 DEF Bijection, Injection, Surjection, IsInjective
<1>5. Cardinality(T) = Cardinality(G)
    BY <1>2, <1>4, FS_Bijection DEF ExistsBijection
<1> USE DEF T, G
<1> QED BY <1>5

LEMMA ScoresAppended ==
    ASSUME NEW ls \in Seq(Entry), NEW l \in Entry
    PROVE  Cardinality(M!Scores(Append(ls, l))) =
             Cardinality(M!Scores(ls)) + Cardinality(Given(l.acts, l.executed))
<1>1. <<l>> \in Seq(Entry) /\ Append(ls, l) = ls \o <<l>>
    OBVIOUS
<1>2. Cardinality(M!Scores(ls \o <<l>>)) = Cardinality(M!Scores(ls)) + Cardinality(M!Scores(<<l>>))
    BY <1>1, ScoresJoined
<1> QED BY <1>1, <1>2, ScoresOne

(* Marking entries changes no score.                                        *)
LEMMA ScoresSame ==
    ASSUME NEW p, NEW q, DOMAIN p = DOMAIN q,
           \A i \in DOMAIN p : p[i].acts = q[i].acts /\ p[i].executed = q[i].executed
    PROVE  M!Scores(p) = M!Scores(q)
<1>1. \A s : s \in M!Scores(p) <=> s \in M!Scores(q)
  <2> TAKE s
  <2>1. s \in M!Scores(p) <=> \E i \in DOMAIN p : \E x \in Given(p[i].acts, p[i].executed) : s = <<i, x>>
      BY ScoresAre
  <2>2. s \in M!Scores(q) <=> \E i \in DOMAIN q : \E x \in Given(q[i].acts, q[i].executed) : s = <<i, x>>
      BY ScoresAre
  <2> QED BY <2>1, <2>2
<1> QED BY <1>1

-----------------------------------------------------------------------------
LEMMA WorkIs ==
    ASSUME AutoTypes, NEW w \in Workers
    PROVE  /\ Evaluating(w) <=> work[w] \in RunRecord
           /\ Evaluating(w) => work[w] # M!Idle /\ work[w].at # "committed"
           /\ work[w].at = "committed" => work[w] \in DoneRecord /\ work[w] # M!Idle
           /\ work[w] # M!Idle => work[w].event \in Events
           /\ work[w] # M!Idle => Evaluating(w) \/ work[w].at = "committed"
<1> DEFINE r == work[w]
<1>1. r \in {M!Idle} \cup RunRecord \cup DoneRecord
    BY DEF AutoTypes
<1>2. Evaluating(w) <=> r.at \in {"next", "act"}
    BY DEF Evaluating
<1> HIDE DEF r
<1>3. /\ r.at \in {"next", "act"} <=> r \in RunRecord
      /\ r.at \in {"next", "act"} => r # M!Idle /\ r.at # "committed"
      /\ r.at = "committed" => r \in DoneRecord /\ r # M!Idle
      /\ r # M!Idle => r.event \in Events
      /\ r # M!Idle => r.at \in {"next", "act"} \/ r.at = "committed"
  <2>1. CASE r = M!Idle
      BY <2>1 DEF M!Idle, RunRecord, DoneRecord
  <2>2. CASE r \in RunRecord
      BY <2>2 DEF M!Idle, RunRecord, DoneRecord
  <2>3. CASE r \in DoneRecord
      BY <2>3 DEF M!Idle, RunRecord, DoneRecord
  <2> QED BY <1>1, <2>1, <2>2, <2>3
<1> USE DEF r
<1> QED BY <1>2, <1>3

LEMMA NotEnded ==
    ASSUME AutoInv, NEW w \in Workers, Evaluating(w)
    PROVE  /\ work[w].event \in Events /\ queue[work[w].event] \in {"first", "retry"}
           /\ ~Ended(work[w].event)
<1>1. AutoTypes /\ OneEach /\ Queued
    BY DEF AutoInv
<1>2. work[w] # M!Idle /\ work[w].at # "committed" /\ work[w].event \in Events
    BY <1>1, WorkIs
<1>3. queue[work[w].event] \in {"first", "retry"}
    BY <1>1, <1>2 DEF Queued
<1>4. ASSUME NEW v \in Workers, work[v].at = "committed", work[v].event = work[w].event PROVE FALSE
  <2>1. work[v] # M!Idle
      BY <1>1, <1>4, WorkIs
  <2>2. v = w
      BY <1>1, <1>2, <1>4, <2>1 DEF OneEach
  <2> QED BY <1>2, <1>4, <2>2
<1> QED BY <1>2, <1>3, <1>4 DEF Ended

(* A run does one more thing, and nothing else changes.                     *)
LEMMA RunMoves ==
    ASSUME AutoInv, NEW w \in Workers, Evaluating(w), NEW r \in RunRecord,
           r.event = work[w].event, r.plan = work[w].plan, RunFits(r),
           work' = [work EXCEPT ![w] = r],
           UNCHANGED <<autos, logs, contact, tagExists, queue, lost>>
    PROVE  AutoInv'
<1>0. AutoTypes
    BY DEF AutoInv
<1>1. /\ work'[w] = r /\ \A v \in Workers \ {w} : work'[v] = work[v]
      /\ work' \in [Workers -> {M!Idle} \cup RunRecord \cup DoneRecord]
    BY <1>0 DEF AutoTypes
<1>2. r # M!Idle /\ r.at \in {"next", "act"}
    BY DEF RunRecord, M!Idle
<1>3. work[w] # M!Idle /\ work[w].at # "committed"
    BY <1>0, WorkIs
<1>4. AutoTypes'
    BY <1>0, <1>1 DEF AutoTypes, M!TypeOK
<1>5. OneEach'
    BY <1>1, <1>2, <1>3 DEF AutoInv, OneEach
<1>6. Queued'
    BY <1>1, <1>2, <1>3 DEF AutoInv, Queued
<1>7. RunsFit'
    BY <1>1, <1>2 DEF AutoInv, RunsFit, Evaluating
<1>8. ScoreTold' /\ CountsTold'
    BY DEF AutoInv, ScoreTold, CountsTold
<1>9. \A e \in Events : Ended(e)' <=> Ended(e)
    BY <1>1, <1>2, <1>3 DEF Ended
<1>10. RanOnce'
    BY <1>9 DEF AutoInv, RanOnce, Ends
<1> QED BY <1>4, <1>5, <1>6, <1>7, <1>8, <1>10 DEF AutoInv

(* A run ends or is lost: its event is another delivery's, or has ended, or *)
(* a worker was lost with it.                                               *)
LEMMA RunEnds ==
    ASSUME AutoInv, NEW w \in Workers, work[w] # M!Idle,
           NEW q \in {"first", "retry", "done"}, NEW n \in Nat,
           n = lost[work[w].event] \/ n = lost[work[w].event] + 1,
           q = "done" \/ n = lost[work[w].event] + 1 \/ Evaluating(w),
           work' = [work EXCEPT ![w] = M!Idle],
           queue' = [queue EXCEPT ![work[w].event] = q],
           lost' = [lost EXCEPT ![work[w].event] = n],
           UNCHANGED <<autos, logs, contact, tagExists>>
    PROVE  AutoInv'
<1>e. AutoTypes /\ work[w].event \in Events
    BY WorkIs DEF AutoInv
<1>0. PICK e \in Events : AutoTypes /\ e = work[w].event
    BY <1>e
<1>1. /\ work'[w] = M!Idle /\ \A v \in Workers \ {w} : work'[v] = work[v]
      /\ work' \in [Workers -> {M!Idle} \cup RunRecord \cup DoneRecord]
    BY <1>0 DEF AutoTypes
<1>2. /\ queue' \in [Events -> {"new", "first", "retry", "done"}] /\ queue'[e] = q
      /\ \A x \in Events \ {e} : queue'[x] = queue[x]
      /\ lost' \in [Events -> Nat] /\ lost'[e] = n
      /\ \A x \in Events \ {e} : lost'[x] = lost[x]
    BY <1>0 DEF AutoTypes
<1>3. AutoTypes'
    BY <1>0, <1>1, <1>2 DEF AutoTypes, M!TypeOK
<1>4. OneEach'
    BY <1>1 DEF AutoInv, OneEach
<1>5. \A v \in Workers \ {w} : work[v] # M!Idle => work[v].event \in Events \ {e}
    BY <1>0, WorkIs DEF AutoInv, OneEach
<1>6. Queued'
    BY <1>1, <1>2, <1>5 DEF AutoInv, Queued
<1>7. RunsFit'
  <2>1. M!Idle.at \notin {"next", "act"}
      BY DEF M!Idle
  <2> QED BY <1>1, <2>1 DEF AutoInv, RunsFit, Evaluating
<1>8. ScoreTold' /\ CountsTold'
    BY DEF AutoInv, ScoreTold, CountsTold
<1>9. ASSUME NEW x \in Events \ {e} PROVE Ended(x)' <=> Ended(x)
  <2>1. M!Idle.at # "committed"
      BY DEF M!Idle
  <2> QED BY <1>0, <1>1, <1>2, <2>1 DEF Ended
<1>10. lost[e] \in Nat /\ lost[e] + Ends(e) <= n + Ends(e)'
  <2>1. lost[e] \in Nat /\ n \in Nat /\ Ends(e) \in {0, 1} /\ Ends(e)' \in {0, 1}
      BY <1>0 DEF AutoTypes, Ends
  <2>2. CASE n = lost[e] + 1
      BY <2>1, <2>2
  <2>3. CASE n = lost[e] /\ q = "done"
    <3>1. Ends(e)' = 1
        BY <1>2, <2>3 DEF Ends, Ended
    <3> QED BY <2>1, <2>3, <3>1
  <2>4. CASE n = lost[e] /\ Evaluating(w)
    <3>1. Ends(e) = 0
        BY <1>0, <2>4, NotEnded DEF Ends
    <3> QED BY <2>1, <2>4, <3>1
  <2>5. (n = lost[e] \/ n = lost[e] + 1) /\ (q = "done" \/ n = lost[e] + 1 \/ Evaluating(w))
      BY <1>0
  <2> QED BY <2>1, <2>2, <2>3, <2>4, <2>5
<1>11. ASSUME NEW a \in M!Autos, NEW x \in Events
       PROVE  Cardinality(Where(logs, Ran(a, x))) <= lost'[x] + Ends(x)'
  <2>1. Cardinality(Where(logs, Ran(a, x))) <= lost[x] + Ends(x)
      BY DEF AutoInv, RanOnce
  <2>2. Cardinality(Where(logs, Ran(a, x))) \in Nat
      BY <1>0, WhereIs DEF AutoTypes
  <2>3. lost[x] \in Nat /\ lost'[x] \in Nat /\ Ends(x) \in {0, 1} /\ Ends(x)' \in {0, 1}
      BY <1>0, <1>2 DEF AutoTypes, Ends
  <2>4. CASE x = e
    <3> QED BY <1>2, <1>10, <2>1, <2>2, <2>3, <2>4
  <2>5. CASE x # e
    <3>1. Ends(x)' = Ends(x) /\ lost'[x] = lost[x]
        BY <1>2, <1>9, <2>5 DEF Ends
    <3> QED BY <2>1, <3>1
  <2> QED BY <2>4, <2>5
<1>12. RanOnce'
    BY <1>11 DEF RanOnce
<1> QED BY <1>3, <1>4, <1>6, <1>7, <1>8, <1>12 DEF AutoInv

LEMMA OrderIs ==
    /\ Len(Order) \in Nat /\ DOMAIN Order = 1..Len(Order)
    /\ \A n \in DOMAIN Order : Order[n] \in M!Autos
    /\ \A n, m \in DOMAIN Order : Order[n] = Order[m] => n = m
BY OrderFits DEF M!Autos

LEMMA NoRowIs ==
    /\ M!Absent.active = FALSE /\ M!Absent.count = -1
    /\ M!Gone.active = FALSE /\ M!Gone.count = -2 /\ M!Gone # M!Absent
    /\ M!Absent \notin AutoRow /\ M!Gone \notin AutoRow
BY DEF M!Absent, M!Gone, AutoRow

LEMMA AutoIs ==
    ASSUME AutoTypes, NEW a \in M!Autos
    PROVE  /\ autos[a] \in AutoRow \cup {M!Absent, M!Gone}
           /\ M!Exists(a) <=> autos[a] \in AutoRow
           /\ autos[a].active => autos[a] \in AutoRow /\ autos[a] # M!Absent
           /\ autos[a].active \in BOOLEAN /\ autos[a].count \in Int
<1>1. autos[a] \in AutoRow \cup {M!Absent, M!Gone}
    BY DEF AutoTypes, M!TypeOK, AutoRow, Lists
<1>2. autos[a] \in AutoRow =>
        autos[a].active \in BOOLEAN /\ autos[a].count \in Nat /\ autos[a] # M!Absent
    BY NoRowIs DEF AutoRow
<1>3. M!Exists(a) <=> autos[a].count >= 0
    BY DEF M!Exists
<1>4. CASE autos[a] \in AutoRow
  <2>1. autos[a].active \in BOOLEAN /\ autos[a].count \in Nat /\ autos[a] # M!Absent
      BY <1>2, <1>4
  <2>2. autos[a].count >= 0 /\ autos[a].count \in Int
      BY <2>1
  <2> QED BY <1>3, <1>4, <2>1, <2>2
<1>5. CASE autos[a] \in {M!Absent, M!Gone}
  <2>1. autos[a].active = FALSE /\ autos[a].count \in {-1, -2} /\ autos[a] \notin AutoRow
      BY <1>5, NoRowIs
  <2>2. ~(autos[a].count >= 0) /\ autos[a].count \in Int
      BY <2>1
  <2> QED BY <1>1, <1>3, <2>1, <2>2
<1> QED BY <1>1, <1>4, <1>5

LEMMA InitAuto == M!Init => AutoInv
<1> SUFFICES ASSUME M!Init PROVE AutoInv
    OBVIOUS
<1>1. logs = <<>> /\ contact = M!Nothing /\ \A w \in Workers : work[w] = M!Idle
    BY DEF M!Init
<1>2. \A w \in Workers : work[w].at \notin {"next", "act", "committed"}
    BY <1>1 DEF M!Idle
<1>3. \A e \in Events : queue[e] = "new" /\ lost[e] = 0
    BY DEF M!Init
<1>4. AutoTypes
    BY DEF M!Init, AutoTypes, M!TypeOK, M!Nothing
<1>5. OneEach /\ Queued
    BY <1>1 DEF OneEach, Queued
<1>6. RunsFit
    BY <1>2 DEF RunsFit, Evaluating
<1>7. ScoreTold
    BY <1>1, ScoresNone DEF ScoreTold, M!Nothing
<1>8. \A X : Cardinality(Where(logs, X)) = 0
  <2> TAKE X
  <2>1. Where(logs, X) = {}
      BY <1>1 DEF Where
  <2> QED BY <2>1, FS_EmptySet
<1>9. CountsTold
  <2>1. \A a \in M!Autos : autos[a] = M!Absent
      BY DEF M!Init
  <2> QED BY <1>8, <2>1, NoRowIs DEF CountsTold
<1>10. RanOnce
  <2>1. \A e \in Events : Ends(e) = 0
      BY <1>2, <1>3 DEF Ends, Ended
  <2> QED BY <1>3, <1>8, <2>1 DEF RanOnce
<1> QED BY <1>4, <1>5, <1>6, <1>7, <1>9, <1>10 DEF AutoInv

LEMMA PublishAuto == ASSUME AutoInv, NEW e \in Events, M!Publish(e) PROVE AutoInv'
<1>1. /\ queue[e] = "new" /\ queue' = [queue EXCEPT ![e] = "first"]
      /\ UNCHANGED <<autos, logs, contact, work, lost, tagExists>>
    BY DEF M!Publish, M!Other
<1>2. /\ queue' \in [Events -> {"new", "first", "retry", "done"}] /\ queue'[e] = "first"
      /\ \A x \in Events \ {e} : queue'[x] = queue[x]
    BY <1>1 DEF AutoInv, AutoTypes
<1>3. AutoTypes'
    BY <1>1, <1>2 DEF AutoInv, AutoTypes, M!TypeOK
<1>4. OneEach' /\ RunsFit' /\ ScoreTold' /\ CountsTold'
    BY <1>1 DEF AutoInv, OneEach, RunsFit, Evaluating, ScoreTold, CountsTold
<1>5. Queued'
  <2>1. \A w \in Workers : work[w] # M!Idle => work[w].event \in Events
      BY WorkIs DEF AutoInv
  <2> QED BY <1>1, <1>2, <2>1 DEF AutoInv, Queued
<1>6. \A x \in Events : Ended(x)' <=> Ended(x)
    BY <1>1, <1>2 DEF Ended
<1>7. RanOnce'
    BY <1>1, <1>6 DEF AutoInv, RanOnce, Ends
<1> QED BY <1>3, <1>4, <1>5, <1>7 DEF AutoInv

(* What a task loads is there now.                                          *)
LEMMA LoadedStands ==
    ASSUME AutoInv, NEW plan,
           plan = [n \in DOMAIN Order |-> M!Snapshot(Order[n])] \/ plan = <<>>
    PROVE  /\ plan \in Seq(Loaded) /\ PlanStands(plan, autos, logs)
           /\ \A n \in DOMAIN plan : n \in DOMAIN Order /\ plan[n].auto = Order[n]
<1>0. AutoTypes /\ CountsTold
    BY DEF AutoInv
<1>1. CASE plan = <<>>
    BY <1>1 DEF PlanStands
<1>2. CASE plan = [n \in DOMAIN Order |-> M!Snapshot(Order[n])]
  <2>1. ASSUME NEW n \in DOMAIN Order
        PROVE  /\ plan[n].auto = Order[n] /\ plan[n] \in Loaded
               /\ plan[n].row = IF autos[Order[n]].active THEN autos[Order[n]] ELSE M!Absent
    <3>1. Order[n] \in M!Autos
        BY OrderIs
    <3>2. plan[n] = [auto |-> Order[n],
                     row |-> IF autos[Order[n]].active THEN autos[Order[n]] ELSE M!Absent]
        BY <1>2 DEF M!Snapshot
    <3>3. (IF autos[Order[n]].active THEN autos[Order[n]] ELSE M!Absent) \in AutoRow \cup {M!Absent}
        BY <1>0, <3>1, AutoIs
    <3> QED BY <3>1, <3>2, <3>3 DEF Loaded
  <2>2. DOMAIN plan = 1..Len(Order) /\ Len(Order) \in Nat
      BY <1>2, OrderIs
  <2>3. plan \in Seq(Loaded)
    <3>1. plan \in [1..Len(Order) -> Loaded]
        BY <1>2, <2>1, <2>2, OrderIs
    <3> QED BY <2>2, <3>1
  <2>4. ASSUME NEW n \in DOMAIN plan, plan[n].row.active
        PROVE  /\ plan[n].row \in AutoRow /\ autos[plan[n].auto] # M!Absent
               /\ plan[n].row.count <= Cardinality(Where(logs, Told(plan[n].auto)))
    <3>1. n \in DOMAIN Order /\ Order[n] \in M!Autos
        BY <2>2, OrderIs
    <3>2. autos[Order[n]].active /\ plan[n].row = autos[Order[n]] /\ plan[n].auto = Order[n]
        BY <2>1, <2>4, <3>1, NoRowIs
    <3>3. autos[Order[n]] \in AutoRow /\ autos[Order[n]] # M!Absent
        BY <1>0, <3>1, <3>2, AutoIs
    <3>4. autos[Order[n]].count <= Cardinality(Where(logs, Told(Order[n])))
        BY <1>0, <3>1 DEF CountsTold
    <3> QED BY <3>2, <3>3, <3>4
  <2>5. PlanStands(plan, autos, logs)
      BY <2>4 DEF PlanStands
  <2> QED BY <2>1, <2>2, <2>3, <2>5, OrderIs
<1> QED BY <1>1, <1>2

LEMMA LoadAuto ==
    ASSUME AutoInv, NEW w \in Workers, NEW e \in Events, M!Load(w, e)
    PROVE  AutoInv'
<1> DEFINE plan == IF visible THEN [n \in DOMAIN Order |-> M!Snapshot(Order[n])] ELSE <<>>
           r == [at |-> "next", event |-> e, mine |-> M!Nothing, unsent |-> FALSE, logs |-> <<>>,
                 k |-> 0, j |-> 0, plan |-> plan]
<1>0. AutoTypes
    BY DEF AutoInv
<1>1. /\ work[w] = M!Idle /\ queue[e] \in {"first", "retry"}
      /\ \A v \in Workers : work[v] # M!Idle => work[v].event # e
      /\ work' = [work EXCEPT ![w] = r]
      /\ UNCHANGED <<autos, logs, contact, queue, lost, tagExists>>
    BY DEF M!Load, M!Other, M!Step
<1>2. /\ plan \in Seq(Loaded) /\ PlanStands(plan, autos, logs)
      /\ \A n \in DOMAIN plan : n \in DOMAIN Order /\ plan[n].auto = Order[n]
  <2>1. plan = [n \in DOMAIN Order |-> M!Snapshot(Order[n])] \/ plan = <<>>
      OBVIOUS
  <2> HIDE DEF plan
  <2> QED BY <2>1, LoadedStands
<1> HIDE DEF plan
<1>3. /\ r \in RunRecord /\ r # M!Idle /\ r.at = "next" /\ r.event = e /\ r.plan = plan
      /\ r.logs = <<>> /\ r.mine = M!Nothing
    BY <1>2 DEF RunRecord, M!Nothing, Effects, M!Idle
<1> HIDE DEF r
<1>4. /\ work'[w] = r /\ \A v \in Workers \ {w} : work'[v] = work[v]
      /\ work' \in [Workers -> {M!Idle} \cup RunRecord \cup DoneRecord]
    BY <1>0, <1>1, <1>3 DEF AutoTypes
<1>5. AutoTypes'
    BY <1>0, <1>1, <1>4 DEF AutoTypes, M!TypeOK
<1>6. OneEach'
    BY <1>1, <1>3, <1>4 DEF AutoInv, OneEach
<1>7. Queued'
    BY <1>1, <1>3, <1>4 DEF AutoInv, Queued
<1>8. RunFits(r)
    BY <1>2, <1>3, ScoresNone DEF RunFits, Underway, M!Nothing
<1>9. RunsFit'
    BY <1>1, <1>2, <1>3, <1>4, <1>8 DEF AutoInv, RunsFit, Evaluating
<1>10. ScoreTold' /\ CountsTold'
    BY <1>1 DEF AutoInv, ScoreTold, CountsTold
<1>11. \A x \in Events : Ended(x)' <=> Ended(x)
  <2>1. M!Idle.at # "committed"
      BY DEF M!Idle
  <2> QED BY <1>1, <1>3, <1>4, <2>1 DEF Ended
<1>12. RanOnce'
    BY <1>1, <1>11 DEF AutoInv, RanOnce, Ends
<1> QED BY <1>5, <1>6, <1>7, <1>9, <1>10, <1>12 DEF AutoInv

LEMMA EffectsAre ==
    ASSUME NEW r \in RunRecord
    PROVE  /\ r.mine.score \in Nat /\ r.mine.tagged \in BOOLEAN /\ r.mine.replies \in Nat
           /\ r.j \in Nat /\ r.k \in Nat /\ r.logs \in Seq(Entry) /\ r.plan \in Seq(Loaded)
           /\ r.event \in Events
BY DEF RunRecord, Effects

(* A run goes on to another automation, with its logs.                      *)
LEMMA NextAutomationAuto ==
    ASSUME AutoInv, NEW w \in Workers, M!NextAutomation(w)
    PROVE  AutoInv'
<1> DEFINE r == work[w]
<1>1. /\ r.at = "next" /\ UNCHANGED <<autos, logs, contact, queue, lost, tagExists>>
      /\ \E n \in r.k + 1..Len(r.plan), at \in {"act", "next"} :
            /\ r.plan[n].row.active
            /\ work' = [work EXCEPT ![w] = [r EXCEPT !.k = n, !.j = 0, !.at = at]]
    BY DEF M!NextAutomation, M!Other, M!Step
<1>2. Evaluating(w) /\ r \in RunRecord /\ RunFits(r)
    BY <1>1, WorkIs DEF AutoInv, Evaluating, RunsFit
<1>3. PICK n \in r.k + 1..Len(r.plan), at \in {"act", "next"} :
        /\ r.plan[n].row.active
        /\ work' = [work EXCEPT ![w] = [r EXCEPT !.k = n, !.j = 0, !.at = at]]
    BY <1>1
<1> DEFINE s == [r EXCEPT !.k = n, !.j = 0, !.at = at]
<1>4. n \in Nat /\ n > r.k /\ n \in DOMAIN r.plan
  <2>1. r.k \in Nat /\ Len(r.plan) \in Nat /\ DOMAIN r.plan = 1..Len(r.plan)
      BY <1>2, EffectsAre
  <2> HIDE DEF r
  <2> QED BY <2>1
<1> HIDE DEF r
<1>5. /\ s \in RunRecord /\ s.event = r.event /\ s.plan = r.plan /\ s.logs = r.logs /\ s.mine = r.mine
      /\ s.k = n /\ s.j = 0 /\ s.at = at
    BY <1>2, <1>4 DEF RunRecord
<1> HIDE DEF s
<1>6. Underway(s) = 0 /\ Underway(r) = 0
    BY <1>1, <1>5, GivenIs DEF Underway, r
<1>7. ASSUME NEW l, FromPlan(r, l) PROVE FromPlan(s, l)
  <2>1. PICK m \in DOMAIN r.plan : r.plan[m].row.active /\ l.auto = r.plan[m].auto /\ m <= r.k
      BY <1>7 DEF FromPlan
  <2>2. m \in Nat /\ r.k \in Nat
      BY <1>2, EffectsAre
  <2>3. m < n
      BY <1>4, <2>1, <2>2
  <2> QED BY <1>4, <1>5, <1>7, <2>1, <2>2, <2>3 DEF FromPlan
<1>8. RunFits(s)
    BY <1>2, <1>3, <1>4, <1>5, <1>6, <1>7 DEF RunFits
<1> QED BY <1>1, <1>2, <1>3, <1>5, <1>8, RunMoves DEF r, s

(* One action more is done, and scored if it scores.                        *)
LEMMA ActDone ==
    ASSUME AutoInv, NEW w \in Workers, work[w].at = "act", NEW s \in RunRecord,
           s.at = "act", s.event = work[w].event, s.plan = work[w].plan,
           s.logs = work[w].logs, s.k = work[w].k, s.j = work[w].j + 1,
           s.mine.score = work[w].mine.score +
              (IF work[w].plan[work[w].k].row.acts[work[w].j + 1] = "update_lead_score" THEN 1 ELSE 0),
           work' = [work EXCEPT ![w] = s],
           UNCHANGED <<autos, logs, contact, queue, lost, tagExists>>
    PROVE  AutoInv'
<1> DEFINE r == work[w]
           list == r.plan[r.k].row.acts
           more == IF list[r.j + 1] = "update_lead_score" THEN 1 ELSE 0
<1>1. Evaluating(w) /\ r \in RunRecord /\ RunFits(r)
    BY WorkIs DEF AutoInv, Evaluating, RunsFit
<1>2. r.j \in Nat /\ r.mine.score \in Nat /\ more \in Nat
    BY <1>1, EffectsAre
<1>3. /\ Cardinality(Given(list, r.j + 1)) = Cardinality(Given(list, r.j)) + more
      /\ Cardinality(Given(list, r.j)) \in Nat
  <2> HIDE DEF list
  <2> QED BY <1>2, GivenIs
<1>4. Underway(s) = Underway(r) + more /\ Underway(r) \in Nat
    BY <1>3 DEF Underway
<1>5. Cardinality(M!Scores(r.logs)) \in Nat
    BY <1>1, EffectsAre, ScoresFinite
<1>6. s.mine.score = Cardinality(M!Scores(s.logs)) + Underway(s)
  <2>1. /\ s.mine.score = r.mine.score + more
        /\ r.mine.score = Cardinality(M!Scores(r.logs)) + Underway(r)
        /\ s.logs = r.logs
      BY <1>1 DEF RunFits
  <2> HIDE DEF r, more
  <2> QED BY <1>2, <1>4, <1>5, <2>1
<1>7. \A l : FromPlan(r, l) => FromPlan(s, l)
    BY DEF FromPlan
<1>8. RunFits(s)
  <2> HIDE DEF r, list, more
  <2>1. s.at = "act" /\ r.at = "act" /\ s.plan = r.plan /\ s.k = r.k /\ s.logs = r.logs
      BY DEF r
  <2>2. \A n \in DOMAIN s.plan : n \in DOMAIN Order /\ s.plan[n].auto = Order[n]
      BY <1>1, <2>1 DEF RunFits
  <2>3. s.k \in DOMAIN s.plan /\ s.plan[s.k].row.active
      BY <1>1, <2>1 DEF RunFits
  <2>4. \A i \in DOMAIN s.logs : FromPlan(s, s.logs[i])
      BY <1>1, <1>7, <2>1 DEF RunFits
  <2>5. \A i, h \in DOMAIN s.logs : s.logs[i].auto = s.logs[h].auto => i = h
      BY <1>1, <2>1 DEF RunFits
  <2> QED BY <1>6, <2>2, <2>3, <2>4, <2>5 DEF RunFits
<1> QED BY <1>1, <1>8, RunMoves

LEMMA ActAuto == ASSUME AutoInv, NEW w \in Workers, M!Act(w) PROVE AutoInv'
<1> DEFINE r == work[w]
           does == r.plan[r.k].row.acts[r.j + 1]
           done == [r EXCEPT !.j = r.j + 1]
           held == ~contact.tagged /\ ~r.mine.tagged
<1>1. /\ r.at = "act" /\ UNCHANGED <<autos, logs, contact, queue, lost, tagExists>>
      /\ \/ does = "webhook" /\ work' = [work EXCEPT ![w] = done]
         \/ /\ does = "add_tag"
            /\ work' = [work EXCEPT ![w] = [done EXCEPT !.mine.tagged = TRUE, !.unsent = held]]
         \/ /\ does = "update_lead_score"
            /\ work' = [work EXCEPT ![w] = [done EXCEPT !.mine.score = @ + 1, !.unsent = FALSE]]
         \/ /\ does = "auto_reply"
            /\ work' = [work EXCEPT ![w] = [done EXCEPT !.mine.replies = @ + 1, !.unsent = FALSE]]
    BY DEF M!Act, M!Other, M!Step, M!Current
<1>2. Evaluating(w) /\ r \in RunRecord
    BY <1>1, WorkIs DEF AutoInv, Evaluating
<1>3. /\ done \in RunRecord /\ done.at = r.at /\ done.event = r.event /\ done.plan = r.plan
      /\ done.logs = r.logs /\ done.k = r.k /\ done.j = r.j + 1 /\ done.mine = r.mine
  <2> HIDE DEF r
  <2> QED BY <1>2 DEF RunRecord
<1>4. held \in BOOLEAN
    OBVIOUS
<1>5. CASE does = "webhook" /\ work' = [work EXCEPT ![w] = done]
  <2>1. r.mine.score \in Nat
      BY <1>2, EffectsAre
  <2>2. done.mine.score = r.mine.score + (IF does = "update_lead_score" THEN 1 ELSE 0)
      BY <1>3, <1>5, <2>1
  <2> HIDE DEF done
  <2> QED BY <1>1, <1>3, <1>5, <2>2, ActDone
<1> DEFINE tagging == [done EXCEPT !.mine.tagged = TRUE, !.unsent = held]
           scoring == [done EXCEPT !.mine.score = @ + 1, !.unsent = FALSE]
           replying == [done EXCEPT !.mine.replies = @ + 1, !.unsent = FALSE]
<1>6. CASE does = "add_tag" /\ work' = [work EXCEPT ![w] = tagging]
  <2>1. /\ tagging \in RunRecord /\ tagging.at = r.at /\ tagging.event = r.event
        /\ tagging.plan = r.plan /\ tagging.logs = r.logs /\ tagging.k = r.k
        /\ tagging.j = r.j + 1 /\ tagging.mine.score = r.mine.score
    <3> HIDE DEF done, r, held
    <3> QED BY <1>3, <1>4 DEF RunRecord, Effects
  <2>2. r.mine.score \in Nat
      BY <1>2, EffectsAre
  <2>3. tagging.mine.score = r.mine.score + (IF does = "update_lead_score" THEN 1 ELSE 0)
      BY <1>6, <2>1, <2>2
  <2> HIDE DEF tagging
  <2> QED BY <1>1, <1>6, <2>1, <2>3, ActDone
<1>7. CASE does = "update_lead_score" /\ work' = [work EXCEPT ![w] = scoring]
  <2>1. /\ scoring \in RunRecord /\ scoring.at = r.at /\ scoring.event = r.event
        /\ scoring.plan = r.plan /\ scoring.logs = r.logs /\ scoring.k = r.k
        /\ scoring.j = r.j + 1 /\ scoring.mine.score = r.mine.score + 1
    <3> DEFINE mine == [r.mine EXCEPT !.score = @ + 1]
    <3>1. mine \in Effects /\ mine.score = r.mine.score + 1
      <4>1. r.mine \in Effects
          BY <1>2 DEF RunRecord
      <4> HIDE DEF r
      <4> QED BY <4>1 DEF Effects
    <3>2. scoring = [done EXCEPT !.mine = mine, !.unsent = FALSE]
        BY <1>3
    <3> HIDE DEF done, r, held, mine, scoring
    <3> QED BY <1>3, <3>1, <3>2 DEF RunRecord
  <2>3. scoring.mine.score = r.mine.score + (IF does = "update_lead_score" THEN 1 ELSE 0)
      BY <1>7, <2>1
  <2> HIDE DEF scoring
  <2> QED BY <1>1, <1>7, <2>1, <2>3, ActDone
<1>8. CASE does = "auto_reply" /\ work' = [work EXCEPT ![w] = replying]
  <2>1. /\ replying \in RunRecord /\ replying.at = r.at /\ replying.event = r.event
        /\ replying.plan = r.plan /\ replying.logs = r.logs /\ replying.k = r.k
        /\ replying.j = r.j + 1 /\ replying.mine.score = r.mine.score
    <3> DEFINE mine == [r.mine EXCEPT !.replies = @ + 1]
    <3>1. mine \in Effects /\ mine.score = r.mine.score
      <4>1. r.mine \in Effects
          BY <1>2 DEF RunRecord
      <4> HIDE DEF r
      <4> QED BY <4>1 DEF Effects
    <3>2. replying = [done EXCEPT !.mine = mine, !.unsent = FALSE]
        BY <1>3
    <3> HIDE DEF done, r, held, mine, replying
    <3> QED BY <1>3, <3>1, <3>2 DEF RunRecord
  <2>2. r.mine.score \in Nat
      BY <1>2, EffectsAre
  <2>3. replying.mine.score = r.mine.score + (IF does = "update_lead_score" THEN 1 ELSE 0)
      BY <1>8, <2>1, <2>2
  <2> HIDE DEF replying
  <2> QED BY <1>1, <1>8, <2>1, <2>3, ActDone
<1> QED BY <1>1, <1>5, <1>6, <1>7, <1>8

LEMMA WriteLogAuto == ASSUME AutoInv, NEW w \in Workers, M!WriteLog(w) PROVE AutoInv'
<1> DEFINE r == work[w]
           l == M!LogEntry(w)
           s == [r EXCEPT !.logs = Append(@, l), !.unsent = FALSE, !.at = "next"]
<1>0. AutoTypes
    BY DEF AutoInv
<1>1. /\ r.at = "act" /\ UNCHANGED <<autos, logs, contact, queue, lost, tagExists>>
      /\ work' = [work EXCEPT ![w] = s]
    BY DEF M!WriteLog, M!Other, M!Step
<1>2. /\ Evaluating(w) /\ r \in RunRecord /\ RunFits(r) /\ PlanStands(r.plan, autos, logs)
    BY <1>0, <1>1, WorkIs DEF AutoInv, Evaluating, RunsFit
<1>3. /\ r.k \in DOMAIN r.plan /\ r.plan[r.k].row.active /\ r.plan[r.k].row \in AutoRow
      /\ r.plan[r.k].auto \in M!Autos /\ r.plan[r.k].auto = Order[r.k] /\ r.k \in DOMAIN Order
  <2>1. /\ r.k \in DOMAIN r.plan /\ r.plan[r.k].row.active
        /\ r.plan[r.k].auto = Order[r.k] /\ r.k \in DOMAIN Order
      BY <1>1, <1>2 DEF RunFits
  <2>2. r.plan[r.k].row \in AutoRow
      BY <1>2, <2>1 DEF PlanStands
  <2> QED BY <2>1, <2>2, OrderIs
<1>4. /\ l.auto = r.plan[r.k].auto /\ l.event = r.event /\ l.executed = r.j
      /\ l.acts = r.plan[r.k].row.acts /\ l.gone = FALSE
      /\ l = [auto |-> l.auto, event |-> l.event, executed |-> l.executed, acts |-> l.acts,
              gone |-> l.gone]
    BY DEF M!LogEntry, M!Current
<1>5. l \in Entry
  <2>1. r.event \in Events /\ r.j \in Nat
      BY <1>2, EffectsAre
  <2>2. r.plan[r.k].row.acts \in Lists
      BY <1>3 DEF AutoRow
  <2> HIDE DEF r, l
  <2> QED BY <1>3, <1>4, <2>1, <2>2 DEF Entry
<1> HIDE DEF l
<1>6. /\ s \in RunRecord /\ s.event = r.event /\ s.plan = r.plan /\ s.mine = r.mine /\ s.k = r.k
      /\ s.at = "next" /\ s.logs = Append(r.logs, l)
  <2>1. Append(r.logs, l) \in Seq(Entry)
      BY <1>2, <1>5, EffectsAre
  <2> HIDE DEF r
  <2> QED BY <1>2, <2>1 DEF RunRecord
<1> HIDE DEF s
<1>7. /\ r.logs \in Seq(Entry) /\ r.k \in Nat /\ r.j \in Nat /\ r.mine.score \in Nat
      /\ Len(r.logs) \in Nat /\ DOMAIN r.logs = 1..Len(r.logs)
    BY <1>2, EffectsAre
<1>8. /\ DOMAIN s.logs = DOMAIN r.logs \cup {Len(r.logs) + 1}
      /\ s.logs[Len(r.logs) + 1] = l /\ \A i \in DOMAIN r.logs : s.logs[i] = r.logs[i]
  <2> HIDE DEF r
  <2> QED BY <1>5, <1>6, <1>7
<1>9. ASSUME NEW i \in DOMAIN r.logs
      PROVE  FromPlan(s, r.logs[i]) /\ r.logs[i].auto # l.auto
  <2>1. FromPlan(r, r.logs[i])
      BY <1>2 DEF RunFits
  <2>2. PICK n \in DOMAIN r.plan :
            r.plan[n].row.active /\ r.logs[i].auto = r.plan[n].auto /\ n <= r.k /\ n < r.k
      BY <1>1, <2>1 DEF FromPlan
  <2>3. n \in DOMAIN Order /\ r.plan[n].auto = Order[n]
      BY <1>2 DEF RunFits
  <2>4. n # r.k
      BY <1>7, <2>2, <2>3, OrderIs
  <2>5. Order[n] # Order[r.k]
      BY <1>3, <2>3, <2>4, OrderIs
  <2> QED BY <1>3, <1>4, <1>6, <2>1, <2>2, <2>3, <2>5 DEF FromPlan
<1>10. FromPlan(s, l)
    BY <1>3, <1>4, <1>6, <1>7 DEF FromPlan
<1>11. s.mine.score = Cardinality(M!Scores(s.logs)) + Underway(s)
  <2>1. Cardinality(M!Scores(s.logs)) =
            Cardinality(M!Scores(r.logs)) + Cardinality(Given(l.acts, l.executed))
      BY <1>5, <1>6, <1>7, ScoresAppended
  <2>2. r.mine.score = Cardinality(M!Scores(r.logs)) + Underway(r)
      BY <1>2 DEF RunFits
  <2>3. Underway(r) = Cardinality(Given(l.acts, l.executed)) /\ Underway(s) = 0
      BY <1>1, <1>4, <1>6 DEF Underway
  <2> HIDE DEF r
  <2> QED BY <1>6, <1>7, <2>1, <2>2, <2>3
<1>12. RunFits(s)
  <2>1. \A i \in DOMAIN s.logs : FromPlan(s, s.logs[i])
      BY <1>8, <1>9, <1>10
  <2>2. \A i, h \in DOMAIN s.logs : s.logs[i].auto = s.logs[h].auto => i = h
      BY <1>2, <1>8, <1>9 DEF RunFits
  <2>3. \A n \in DOMAIN s.plan : n \in DOMAIN Order /\ s.plan[n].auto = Order[n]
      BY <1>2, <1>6 DEF RunFits
  <2> QED BY <1>6, <1>11, <2>1, <2>2, <2>3 DEF RunFits
<1> QED BY <1>1, <1>2, <1>6, <1>12, RunMoves

LEMMA AcknowledgeAuto == ASSUME AutoInv, NEW w \in Workers, M!Acknowledge(w) PROVE AutoInv'
<1>1. /\ work[w].at = "committed" /\ queue' = [queue EXCEPT ![work[w].event] = "done"]
      /\ work' = [work EXCEPT ![w] = M!Idle]
      /\ UNCHANGED <<autos, logs, contact, lost, tagExists>>
    BY DEF M!Acknowledge, M!Other, M!Step
<1>2. work[w] # M!Idle /\ work[w].event \in Events
    BY <1>1, WorkIs DEF AutoInv
<1>3. /\ lost[work[w].event] \in Nat
      /\ lost' = [lost EXCEPT ![work[w].event] = lost[work[w].event]]
    BY <1>1, <1>2 DEF AutoInv, AutoTypes
<1> QED BY <1>1, <1>2, <1>3, RunEnds

LEMMA FailAuto == ASSUME AutoInv, NEW w \in Workers, M!Fail(w) PROVE AutoInv'
<1> DEFINE q == IF queue[work[w].event] = "first" THEN "retry" ELSE "done"
<1>1. /\ Evaluating(w) /\ queue' = [queue EXCEPT ![work[w].event] = q]
      /\ work' = [work EXCEPT ![w] = M!Idle]
      /\ UNCHANGED <<autos, logs, contact, lost, tagExists>>
    BY DEF M!Fail, M!Other, M!Step, Evaluating
<1>2. work[w] # M!Idle /\ work[w].event \in Events
    BY <1>1, WorkIs DEF AutoInv
<1>3. /\ lost[work[w].event] \in Nat
      /\ lost' = [lost EXCEPT ![work[w].event] = lost[work[w].event]]
    BY <1>1, <1>2 DEF AutoInv, AutoTypes
<1>4. q \in {"first", "retry", "done"}
    OBVIOUS
<1> HIDE DEF q
<1> QED BY <1>1, <1>2, <1>3, <1>4, RunEnds

LEMMA LoseAuto == ASSUME AutoInv, NEW w \in Workers, M!Lose(w) PROVE AutoInv'
<1>1. /\ work[w] # M!Idle /\ work' = [work EXCEPT ![w] = M!Idle]
      /\ lost' = [lost EXCEPT ![work[w].event] = lost[work[w].event] + 1]
      /\ UNCHANGED <<autos, logs, contact, queue, tagExists>>
    BY DEF M!Lose, M!Other, M!Step
<1>2. work[w].event \in Events /\ lost[work[w].event] \in Nat
    BY <1>1, WorkIs DEF AutoInv, AutoTypes
<1>3. /\ queue[work[w].event] \in {"first", "retry", "done"}
      /\ queue' = [queue EXCEPT ![work[w].event] = queue[work[w].event]]
    BY <1>1, <1>2 DEF AutoInv, AutoTypes, Queued
<1> DEFINE n == lost[work[w].event] + 1
<1>4. n \in Nat
    BY <1>2
<1>5. n = lost[work[w].event] + 1 /\ lost' = [lost EXCEPT ![work[w].event] = n]
    BY <1>1
<1> HIDE DEF n
<1> QED BY <1>1, <1>2, <1>3, <1>4, <1>5, RunEnds

(* What was loaded stands while rows are changed, deleted and counted, and  *)
(* entries are appended.                                                    *)
LEMMA PlanKept ==
    ASSUME NEW plan \in Seq(Loaded), NEW table, NEW after, NEW ls \in Seq(Entry), NEW ms \in Seq(Entry),
           PlanStands(plan, table, ls),
           \A a \in M!Autos : table[a] # M!Absent =>
              /\ after[a] # M!Absent
              /\ after[a].count >= 0 =>
                    /\ table[a].count >= 0
                    /\ Cardinality(Where(ls, Told(a))) <= Cardinality(Where(ms, Told(a)))
    PROVE  PlanStands(plan, after, ms)
<1> SUFFICES ASSUME NEW n \in DOMAIN plan, plan[n].row.active
             PROVE  /\ plan[n].row \in AutoRow /\ after[plan[n].auto] # M!Absent
                    /\ after[plan[n].auto].count >= 0 =>
                          plan[n].row.count <= Cardinality(Where(ms, Told(plan[n].auto)))
    BY DEF PlanStands
<1>1. plan[n] \in Loaded
    OBVIOUS
<1>2. plan[n].auto \in M!Autos
    BY <1>1 DEF Loaded
<1>3. PICK a \in M!Autos : a = plan[n].auto
    BY <1>2
<1>4. /\ plan[n].row \in AutoRow /\ table[a] # M!Absent
      /\ table[a].count >= 0 => plan[n].row.count <= Cardinality(Where(ls, Told(a)))
    BY <1>3 DEF PlanStands
<1>5. /\ plan[n].row.count \in Nat /\ Cardinality(Where(ls, Told(a))) \in Nat
      /\ Cardinality(Where(ms, Told(a))) \in Nat
    BY <1>4, WhereIs DEF AutoRow
<1>6. ASSUME after[a].count >= 0 PROVE plan[n].row.count <= Cardinality(Where(ms, Told(a)))
  <2>1. /\ plan[n].row.count <= Cardinality(Where(ls, Told(a)))
        /\ Cardinality(Where(ls, Told(a))) <= Cardinality(Where(ms, Told(a)))
      BY <1>4, <1>6
  <2> QED BY <1>5, <2>1
<1> QED BY <1>3, <1>4, <1>6

LEMMA PlansAre ==
    ASSUME AutoInv, NEW w \in Workers, Evaluating(w)
    PROVE  /\ work[w] \in RunRecord /\ work[w].plan \in Seq(Loaded)
           /\ RunFits(work[w]) /\ PlanStands(work[w].plan, autos, logs)
<1>1. work[w] \in RunRecord
    BY WorkIs DEF AutoInv
<1> QED BY <1>1, EffectsAre DEF AutoInv, RunsFit

(* The page writes a row: a new one that claims nothing, or one that claims *)
(* what it did.                                                             *)
LEMMA RowWritten ==
    ASSUME AutoInv, NEW a \in M!Autos, NEW row \in AutoRow,
           \/ autos[a] = M!Absent /\ row.count = 0
           \/ M!Exists(a) /\ row.count = autos[a].count,
           autos' = [autos EXCEPT ![a] = row],
           UNCHANGED <<logs, contact, tagExists, queue, work, lost>>
    PROVE  AutoInv'
<1>0. AutoTypes /\ logs \in Seq(Entry)
    BY DEF AutoInv, AutoTypes
<1>1. /\ autos \in [M!Autos -> AutoRow \cup {M!Absent, M!Gone}]
      /\ autos' \in [M!Autos -> AutoRow \cup {M!Absent, M!Gone}]
      /\ autos'[a] = row /\ \A b \in M!Autos \ {a} : autos'[b] = autos[b]
    BY <1>0 DEF AutoTypes, M!TypeOK, AutoRow, Lists
<1>2. AutoTypes'
    BY <1>0, <1>1 DEF AutoTypes, M!TypeOK, AutoRow, Lists
<1>3. OneEach' /\ Queued' /\ ScoreTold'
    BY DEF AutoInv, OneEach, Queued, ScoreTold
<1>4. RanOnce'
    BY DEF AutoInv, RanOnce, Ends, Ended
<1>5. row # M!Absent /\ row.count \in Nat
    BY NoRowIs DEF AutoRow
<1>6. \A b \in M!Autos : autos[b] # M!Absent =>
        autos'[b] # M!Absent /\ (autos'[b].count >= 0 => autos[b].count >= 0)
    BY <1>1, <1>5
<1>7. \A b \in M!Autos : Cardinality(Where(logs, Told(b))) \in Nat
    BY <1>0, WhereIs
<1>8. RunsFit'
  <2>1. ASSUME NEW w \in Workers, Evaluating(w)
        PROVE  RunFits(work[w]) /\ PlanStands(work[w].plan, autos', logs)
    <3>1. /\ work[w].plan \in Seq(Loaded) /\ RunFits(work[w]) /\ PlanStands(work[w].plan, autos, logs)
        BY <2>1, PlansAre
    <3>2. \A b \in M!Autos : autos[b] # M!Absent =>
              /\ autos'[b] # M!Absent
              /\ autos'[b].count >= 0 =>
                    /\ autos[b].count >= 0
                    /\ Cardinality(Where(logs, Told(b))) <= Cardinality(Where(logs, Told(b)))
        BY <1>6, <1>7
    <3> QED BY <1>0, <3>1, <3>2, PlanKept
  <2> QED BY <2>1 DEF RunsFit, Evaluating
<1>9. CountsTold'
  <2>1. row.count <= Cardinality(Where(logs, Told(a)))
      BY <1>5, <1>7 DEF AutoInv, CountsTold
  <2> QED BY <1>1, <2>1 DEF AutoInv, CountsTold
<1> QED BY <1>2, <1>3, <1>4, <1>8, <1>9 DEF AutoInv

LEMMA CreateAutomationAuto ==
    ASSUME AutoInv, NEW a \in M!Autos, NEW c \in Configs, M!CreateAutomation(a, c)
    PROVE  AutoInv'
<1> DEFINE row == [conds |-> c.conds, acts |-> c.acts, active |-> TRUE, count |-> 0]
<1>1. /\ autos[a] = M!Absent /\ autos' = [autos EXCEPT ![a] = row]
      /\ UNCHANGED <<logs, contact, tagExists, queue, work, lost>>
    BY DEF M!CreateAutomation, M!Edit
<1>2. row \in AutoRow /\ row.count = 0
    BY DEF AutoRow, Lists
<1> HIDE DEF row
<1> QED BY <1>1, <1>2, RowWritten

LEMMA UpdateAutomationAuto ==
    ASSUME AutoInv, NEW a \in M!Autos, NEW c \in Configs, M!UpdateAutomation(a, c)
    PROVE  AutoInv'
<1> DEFINE row == [autos[a] EXCEPT !.conds = c.conds, !.acts = c.acts]
<1>1. /\ M!Exists(a) /\ autos' = [autos EXCEPT ![a].conds = c.conds, ![a].acts = c.acts]
      /\ UNCHANGED <<logs, contact, tagExists, queue, work, lost>>
    BY DEF M!UpdateAutomation, M!Edit
<1>2. autos[a] \in AutoRow /\ autos \in [M!Autos -> AutoRow \cup {M!Absent, M!Gone}]
    BY <1>1, AutoIs DEF AutoInv, AutoTypes, M!TypeOK, AutoRow, Lists
<1>3. row \in AutoRow /\ row.count = autos[a].count
    BY <1>2 DEF AutoRow, Lists
<1>4. autos' = [autos EXCEPT ![a] = row]
    BY <1>1, <1>2
<1> HIDE DEF row
<1> QED BY <1>1, <1>3, <1>4, RowWritten

LEMMA ToggleAutomationAuto ==
    ASSUME AutoInv, NEW a \in M!Autos, M!ToggleAutomation(a)
    PROVE  AutoInv'
<1> DEFINE row == [autos[a] EXCEPT !.active = ~@]
<1>1. /\ M!Exists(a) /\ autos' = [autos EXCEPT ![a].active = ~@]
      /\ UNCHANGED <<logs, contact, tagExists, queue, work, lost>>
    BY DEF M!ToggleAutomation, M!Edit
<1>2. autos[a] \in AutoRow /\ autos \in [M!Autos -> AutoRow \cup {M!Absent, M!Gone}]
    BY <1>1, AutoIs DEF AutoInv, AutoTypes, M!TypeOK, AutoRow, Lists
<1>3. row \in AutoRow /\ row.count = autos[a].count
    BY <1>2 DEF AutoRow, Lists
<1>4. autos' = [autos EXCEPT ![a] = row]
    BY <1>1, <1>2
<1> HIDE DEF row
<1> QED BY <1>1, <1>3, <1>4, RowWritten

LEMMA DeleteTagAuto == ASSUME AutoInv, M!DeleteTag PROVE AutoInv'
<1>1. /\ tagExists' = FALSE /\ contact' = [contact EXCEPT !.tagged = FALSE]
      /\ UNCHANGED <<autos, logs, queue, work, lost>>
    BY DEF M!DeleteTag
<1>2. /\ contact' \in [score : Nat, tagged : BOOLEAN, replies : Nat]
      /\ contact'.tagged = FALSE /\ contact'.score = contact.score
    BY <1>1 DEF AutoInv, AutoTypes, M!TypeOK
<1>3. AutoTypes'
    BY <1>1, <1>2 DEF AutoInv, AutoTypes, M!TypeOK
<1>4. OneEach' /\ Queued' /\ ScoreTold' /\ RunsFit' /\ CountsTold'
    BY <1>1, <1>2 DEF AutoInv, OneEach, Queued, ScoreTold, RunsFit, Evaluating, CountsTold
<1>5. RanOnce'
    BY <1>1 DEF AutoInv, RanOnce, Ends, Ended
<1> QED BY <1>3, <1>4, <1>5 DEF AutoInv

LEMMA DeleteAutomationAuto ==
    ASSUME AutoInv, NEW a \in M!Autos, M!DeleteAutomation(a)
    PROVE  AutoInv'
<1>0. AutoTypes /\ logs \in Seq(Entry)
    BY DEF AutoInv, AutoTypes
<1>1. /\ M!Exists(a) /\ autos' = [autos EXCEPT ![a] = M!Gone]
      /\ logs' = [i \in DOMAIN logs |-> IF logs[i].auto = a THEN [logs[i] EXCEPT !.gone = TRUE]
                                        ELSE logs[i]]
      /\ UNCHANGED <<contact, tagExists, queue, work, lost>>
    BY DEF M!DeleteAutomation, M!Edit
<1>2. /\ autos \in [M!Autos -> AutoRow \cup {M!Absent, M!Gone}]
      /\ autos' \in [M!Autos -> AutoRow \cup {M!Absent, M!Gone}]
      /\ autos'[a] = M!Gone /\ \A b \in M!Autos \ {a} : autos'[b] = autos[b]
    BY <1>0, <1>1 DEF AutoTypes, M!TypeOK, AutoRow, Lists
<1>3. /\ DOMAIN logs' = DOMAIN logs
      /\ \A i \in DOMAIN logs :
            /\ logs'[i] \in Entry /\ logs[i] \in Entry
            /\ logs'[i].auto = logs[i].auto /\ logs'[i].event = logs[i].event
            /\ logs'[i].acts = logs[i].acts /\ logs'[i].executed = logs[i].executed
            /\ logs[i].auto # a => logs'[i].gone = logs[i].gone
  <2>1. DOMAIN logs' = DOMAIN logs
      BY <1>1
  <2>2. ASSUME NEW i \in DOMAIN logs
        PROVE  /\ logs'[i] \in Entry /\ logs[i] \in Entry
               /\ logs'[i].auto = logs[i].auto /\ logs'[i].event = logs[i].event
               /\ logs'[i].acts = logs[i].acts /\ logs'[i].executed = logs[i].executed
               /\ logs[i].auto # a => logs'[i].gone = logs[i].gone
    <3>1. logs[i] \in Entry
        BY <1>0
    <3>2. logs'[i] = IF logs[i].auto = a THEN [logs[i] EXCEPT !.gone = TRUE] ELSE logs[i]
        BY <1>1
    <3> QED BY <3>1, <3>2 DEF Entry
  <2> QED BY <2>1, <2>2
<1>4. logs' \in Seq(Entry)
  <2>1. Len(logs) \in Nat /\ DOMAIN logs = 1..Len(logs)
      BY <1>0
  <2>2. \E f : logs' = [i \in 1..Len(logs) |-> f[i]] /\ \A i \in 1..Len(logs) : f[i] \in Entry
    <3>1. logs' = [i \in 1..Len(logs) |-> logs'[i]]
        BY <1>1, <2>1
    <3> QED BY <1>3, <2>1, <3>1
  <2>3. logs' \in [1..Len(logs) -> Entry]
      BY <2>2
  <2> QED BY <2>1, <2>3
<1>5. AutoTypes'
    BY <1>0, <1>1, <1>2, <1>4 DEF AutoTypes, M!TypeOK, AutoRow, Lists
<1>6. OneEach' /\ Queued'
    BY <1>1 DEF AutoInv, OneEach, Queued
<1>7. ScoreTold'
  <2>1. M!Scores(logs') = M!Scores(logs)
      BY <1>3, ScoresSame
  <2> QED BY <1>1, <2>1 DEF AutoInv, ScoreTold
<1>8. ASSUME NEW b \in M!Autos \ {a} PROVE Where(logs', Told(b)) = Where(logs, Told(b))
    BY <1>3 DEF Where, Told
<1>9. ASSUME NEW b \in M!Autos, NEW e \in Events PROVE Where(logs', Ran(b, e)) = Where(logs, Ran(b, e))
    BY <1>3 DEF Where, Ran
<1>10. RanOnce'
  <2>1. \A e \in Events : Ends(e)' = Ends(e) /\ lost'[e] = lost[e]
      BY <1>1 DEF Ends, Ended
  <2>2. ASSUME NEW b \in M!Autos, NEW e \in Events
        PROVE  Cardinality(Where(logs', Ran(b, e))) <= lost'[e] + Ends(e)'
      BY <1>9, <2>1 DEF AutoInv, RanOnce
  <2> QED BY <2>2 DEF RanOnce
<1>11. \A b \in M!Autos : Cardinality(Where(logs, Told(b))) \in Nat /\ Cardinality(Where(logs', Told(b))) \in Nat
    BY <1>0, <1>4, WhereIs
<1>12. M!Gone # M!Absent /\ ~(M!Gone.count >= 0)
    BY NoRowIs
<1>13. RunsFit'
  <2>1. ASSUME NEW w \in Workers, Evaluating(w)
        PROVE  RunFits(work[w]) /\ PlanStands(work[w].plan, autos', logs')
    <3>1. /\ work[w].plan \in Seq(Loaded) /\ RunFits(work[w]) /\ PlanStands(work[w].plan, autos, logs)
        BY <2>1, PlansAre
    <3>2. ASSUME NEW b \in M!Autos, autos[b] # M!Absent
          PROVE  /\ autos'[b] # M!Absent
                 /\ autos'[b].count >= 0 =>
                      /\ autos[b].count >= 0
                      /\ Cardinality(Where(logs, Told(b))) <= Cardinality(Where(logs', Told(b)))
      <4>1. CASE b = a
          BY <1>2, <1>12, <4>1
      <4>2. CASE b # a
          BY <1>2, <1>8, <1>11, <3>2, <4>2
      <4> QED BY <4>1, <4>2
    <3> QED BY <1>0, <1>4, <3>1, <3>2, PlanKept
  <2> QED BY <1>1, <2>1 DEF RunsFit, Evaluating
<1>14. CountsTold'
  <2>1. ASSUME NEW b \in M!Autos PROVE autos'[b].count <= Cardinality(Where(logs', Told(b)))
    <3>1. CASE b = a
      <4>1. autos'[b].count = -2
          BY <1>2, <3>1, NoRowIs
      <4>2. Cardinality(Where(logs', Told(b))) \in Nat
          BY <1>11
      <4> QED BY <4>1, <4>2
    <3>2. CASE b # a
        BY <1>2, <1>8, <3>2 DEF AutoInv, CountsTold
    <3> QED BY <3>1, <3>2
  <2> QED BY <2>1 DEF CountsTold
<1> QED BY <1>5, <1>6, <1>7, <1>10, <1>13, <1>14 DEF AutoInv

(* What an automation that a run has logged will count up to.               *)
LEMMA CountedIs ==
    ASSUME AutoInv, NEW w \in Workers, Evaluating(w), NEW a \in M!Autos, M!Exists(a),
           NEW i \in DOMAIN work[w].logs, work[w].logs[i].auto = a
    PROVE  /\ M!Counted(a, work[w]) \in Nat
           /\ M!Counted(a, work[w]) <= Cardinality(Where(logs, Told(a))) + 1
           /\ i \in Where(work[w].logs, Told(a))
<1> DEFINE r == work[w]
           m == CHOOSE n \in DOMAIN r.plan : r.plan[n].auto = a
<1>1. r \in RunRecord /\ RunFits(r) /\ PlanStands(r.plan, autos, logs)
    BY PlansAre
<1>2. r.logs \in Seq(Entry) /\ r.logs[i] \in Entry
  <2>1. r.logs \in Seq(Entry)
      BY <1>1, EffectsAre
  <2> QED BY <2>1
<1>3. FromPlan(r, r.logs[i])
    BY <1>1 DEF RunFits
<1>4. PICK n \in DOMAIN r.plan : r.plan[n].row.active /\ r.plan[n].auto = a
    BY <1>3 DEF FromPlan
<1>5. m \in DOMAIN r.plan /\ r.plan[m].auto = a
    BY <1>4
<1>6. m = n
    BY <1>1, <1>4, <1>5, OrderIs DEF RunFits
<1>7. r.plan[m].row \in AutoRow /\ r.plan[m].row.count <= Cardinality(Where(logs, Told(a)))
    BY <1>1, <1>4, <1>5, <1>6 DEF PlanStands, M!Exists
<1>8. M!Counted(a, r) = r.plan[m].row.count + 1
  <2>1. r.logs[i] \in M!ToSet(r.logs)
      BY DEF M!ToSet
  <2> QED BY <2>1 DEF M!Counted
<1>9. r.plan[m].row.count \in Nat /\ Cardinality(Where(logs, Told(a))) \in Nat
    BY <1>7, WhereIs DEF AutoRow, AutoInv, AutoTypes
<1>10. i \in Where(r.logs, Told(a))
    BY <1>2, <1>3 DEF Where, Told, FromPlan
<1> HIDE DEF r, m
<1>11. M!Counted(a, r) \in Nat /\ M!Counted(a, r) <= Cardinality(Where(logs, Told(a))) + 1
    BY <1>7, <1>8, <1>9
<1> QED BY <1>10, <1>11 DEF r

LEMMA CommitAuto == ASSUME AutoInv, NEW w \in Workers, M!Commit(w) PROVE AutoInv'
<1> DEFINE r == work[w]
           d == [at |-> "committed", event |-> r.event, mine |-> M!Nothing, logs |-> <<>>]
<1>0. AutoTypes /\ logs \in Seq(Entry)
    BY DEF AutoInv, AutoTypes
<1>1. /\ r.at = "next"
      /\ autos' = [a \in M!Autos |-> IF M!Exists(a) THEN [autos[a] EXCEPT !.count = M!Counted(a, r)]
                                     ELSE autos[a]]
      /\ logs' = logs \o r.logs
      /\ contact' = [score |-> contact.score + r.mine.score,
                     tagged |-> contact.tagged \/ (r.mine.tagged /\ tagExists),
                     replies |-> contact.replies + r.mine.replies]
      /\ work' = [work EXCEPT ![w] = d]
      /\ UNCHANGED <<queue, lost, tagExists>>
    BY DEF M!Commit, M!Other, M!Step
<1>2. /\ Evaluating(w) /\ r \in RunRecord /\ RunFits(r) /\ PlanStands(r.plan, autos, logs)
    BY <1>1, PlansAre DEF Evaluating
<1>3. /\ r.mine.score \in Nat /\ r.mine.tagged \in BOOLEAN /\ r.mine.replies \in Nat
      /\ r.logs \in Seq(Entry) /\ r.event \in Events
    BY <1>2, EffectsAre
<1>4. PICK e \in Events : e = r.event
    BY <1>3
<1>5. work[w] # M!Idle /\ ~Ended(e)
    BY <1>0, <1>2, <1>4, WorkIs, NotEnded
<1>6. d \in DoneRecord /\ d # M!Idle /\ d.event = e /\ d.at = "committed"
    BY <1>3, <1>4 DEF DoneRecord, M!Idle
<1> HIDE DEF d
<1>7. /\ work'[w] = d /\ \A v \in Workers \ {w} : work'[v] = work[v]
      /\ work' \in [Workers -> {M!Idle} \cup RunRecord \cup DoneRecord]
    BY <1>0, <1>1, <1>6 DEF AutoTypes
<1>8. logs' \in Seq(Entry)
    BY <1>0, <1>1, <1>3
<1>9. /\ \A X : Cardinality(Where(logs', X)) =
                  Cardinality(Where(logs, X)) + Cardinality(Where(r.logs, X))
      /\ \A X : Cardinality(Where(logs, X)) \in Nat /\ Cardinality(Where(r.logs, X)) \in Nat
                /\ Cardinality(Where(logs', X)) \in Nat
  <2> HIDE DEF r
  <2> QED BY <1>0, <1>1, <1>3, <1>8, WhereJoined, WhereIs
<1>10. ASSUME NEW a \in M!Autos, M!Exists(a)
       PROVE  /\ autos'[a] \in AutoRow
              /\ autos'[a].count <= Cardinality(Where(logs', Told(a)))
  <2>1. autos[a] \in AutoRow /\ autos[a].count \in Nat
    <3>1. autos[a] \in AutoRow
        BY <1>0, <1>10, AutoIs
    <3> QED BY <3>1 DEF AutoRow
  <2>2. autos'[a] = [autos[a] EXCEPT !.count = M!Counted(a, r)]
      BY <1>1, <1>10
  <2>3. M!Counted(a, r) \in Nat /\ M!Counted(a, r) <= Cardinality(Where(logs', Told(a)))
    <3>1. CASE \E i \in DOMAIN r.logs : r.logs[i].auto = a
      <4>1. PICK i \in DOMAIN r.logs : r.logs[i].auto = a
          BY <3>1
      <4>2. /\ M!Counted(a, r) \in Nat
            /\ M!Counted(a, r) <= Cardinality(Where(logs, Told(a))) + 1
            /\ i \in Where(r.logs, Told(a))
          BY <1>2, <1>10, <4>1, CountedIs
      <4> HIDE DEF r
      <4>3. Cardinality(Where(r.logs, Told(a))) >= 1
          BY <1>3, <4>2, WhereFew
      <4> QED BY <1>9, <4>2, <4>3
    <3>2. CASE ~ \E i \in DOMAIN r.logs : r.logs[i].auto = a
      <4>1. M!Counted(a, r) = autos[a].count
          BY <3>2 DEF M!Counted, M!ToSet
      <4>2. autos[a].count <= Cardinality(Where(logs, Told(a)))
          BY DEF AutoInv, CountsTold
      <4> HIDE DEF r
      <4> QED BY <1>9, <2>1, <4>1, <4>2
    <3> QED BY <3>1, <3>2
  <2> HIDE DEF r
  <2>4. autos'[a] \in AutoRow /\ autos'[a].count = M!Counted(a, r)
    <3> DEFINE n == M!Counted(a, r)
    <3>1. n \in Nat /\ autos'[a] = [autos[a] EXCEPT !.count = n]
        BY <2>2, <2>3
    <3> HIDE DEF n
    <3>2. autos'[a] \in AutoRow /\ autos'[a].count = n
        BY <2>1, <3>1 DEF AutoRow
    <3> USE DEF n
    <3> QED BY <3>2
  <2> QED BY <2>3, <2>4
<1>11. ASSUME NEW a \in M!Autos, ~M!Exists(a)
       PROVE  autos'[a] = autos[a] /\ autos[a] \in {M!Absent, M!Gone}
    BY <1>0, <1>1, <1>11, AutoIs
<1>12. AutoTypes'
  <2>1. autos' \in [M!Autos -> AutoRow \cup {M!Absent, M!Gone}]
    <3>1. ASSUME NEW a \in M!Autos PROVE autos'[a] \in AutoRow \cup {M!Absent, M!Gone}
        BY <1>10, <1>11
    <3> QED BY <1>1, <3>1
  <2>2. contact' \in [score : Nat, tagged : BOOLEAN, replies : Nat] /\ (contact'.tagged => tagExists)
    <3>1. contact.score \in Nat /\ contact.tagged \in BOOLEAN /\ contact.replies \in Nat
          /\ (contact.tagged => tagExists)
        BY <1>0 DEF AutoTypes, M!TypeOK
    <3> HIDE DEF r
    <3> QED BY <1>1, <1>3, <3>1
  <2> QED BY <1>0, <1>1, <1>7, <1>8, <2>1, <2>2 DEF AutoTypes, M!TypeOK, AutoRow, Lists
<1>13. OneEach'
    BY <1>4, <1>5, <1>6, <1>7 DEF AutoInv, OneEach
<1>14. Queued'
    BY <1>1, <1>4, <1>5, <1>6, <1>7 DEF AutoInv, Queued
<1>15. ScoreTold'
  <2>1. Cardinality(M!Scores(logs \o r.logs)) =
            Cardinality(M!Scores(logs)) + Cardinality(M!Scores(r.logs))
      BY <1>0, <1>3, ScoresJoined
  <2>2. r.mine.score = Cardinality(M!Scores(r.logs))
    <3>1. r.mine.score = Cardinality(M!Scores(r.logs)) + Underway(r) /\ Underway(r) = 0
        BY <1>1, <1>2 DEF RunFits, Underway
    <3>2. Cardinality(M!Scores(r.logs)) \in Nat
        BY <1>3, ScoresFinite
    <3> HIDE DEF r
    <3> QED BY <3>1, <3>2
  <2>3. contact'.score = contact.score + r.mine.score
      BY <1>1
  <2> HIDE DEF r
  <2> QED BY <1>1, <2>1, <2>2, <2>3 DEF AutoInv, ScoreTold
<1>16. CountsTold'
  <2>1. ASSUME NEW a \in M!Autos PROVE autos'[a].count <= Cardinality(Where(logs', Told(a)))
    <3>1. CASE M!Exists(a)
        BY <1>10, <3>1
    <3>2. CASE ~M!Exists(a)
      <4>1. autos'[a].count \in {-1, -2}
          BY <1>11, <3>2, NoRowIs
      <4> QED BY <1>9, <4>1
    <3> QED BY <3>1, <3>2
  <2> QED BY <2>1 DEF CountsTold
<1>17. RunsFit'
  <2>1. ASSUME NEW v \in Workers \ {w}, Evaluating(v)
        PROVE  RunFits(work[v]) /\ PlanStands(work[v].plan, autos', logs')
    <3>1. /\ work[v].plan \in Seq(Loaded) /\ RunFits(work[v]) /\ PlanStands(work[v].plan, autos, logs)
        BY <2>1, PlansAre
    <3>2. ASSUME NEW a \in M!Autos, autos[a] # M!Absent
          PROVE  /\ autos'[a] # M!Absent
                 /\ autos'[a].count >= 0 =>
                      /\ autos[a].count >= 0
                      /\ Cardinality(Where(logs, Told(a))) <= Cardinality(Where(logs', Told(a)))
      <4>1. Cardinality(Where(logs, Told(a))) <= Cardinality(Where(logs', Told(a)))
        <5> HIDE DEF r
        <5> QED BY <1>9
      <4>2. CASE M!Exists(a)
          BY <1>10, <4>1, <4>2, NoRowIs DEF M!Exists
      <4>3. CASE ~M!Exists(a)
          BY <1>11, <3>2, <4>1, <4>3
      <4> QED BY <4>2, <4>3
    <3> QED BY <1>0, <1>8, <3>1, <3>2, PlanKept
  <2> QED BY <1>6, <1>7, <2>1 DEF RunsFit, Evaluating
<1>18. \A x \in Events \ {e} : Ended(x)' <=> Ended(x)
  <2>1. work[w].at # "committed"
      BY <1>1
  <2> QED BY <1>1, <1>4, <1>6, <1>7, <2>1 DEF Ended
<1>19. Ends(e) = 0 /\ Ends(e)' = 1
    BY <1>5, <1>6, <1>7 DEF Ends, Ended
<1>20. ASSUME NEW a \in M!Autos, NEW x \in Events
       PROVE  Cardinality(Where(logs', Ran(a, x))) <= lost'[x] + Ends(x)'
  <2>1. Cardinality(Where(logs, Ran(a, x))) <= lost[x] + Ends(x) /\ lost'[x] = lost[x]
        /\ lost[x] \in Nat
      BY <1>0, <1>1 DEF AutoInv, RanOnce, AutoTypes
  <2>2. \A i \in Where(r.logs, Ran(a, x)) :
            i \in DOMAIN r.logs /\ r.logs[i].auto = a /\ r.logs[i].event = x
      BY DEF Where, Ran
  <2>3. CASE x = e
    <3>1. \A i, h \in Where(r.logs, Ran(a, x)) : i = h
        BY <1>2, <2>2 DEF RunFits
    <3> HIDE DEF r
    <3>2. Cardinality(Where(r.logs, Ran(a, x))) <= 1
        BY <1>3, <3>1, WhereFew
    <3> QED BY <1>9, <1>19, <2>1, <2>3, <3>2
  <2>4. CASE x # e
    <3>1. \A i \in DOMAIN r.logs : r.logs[i].event = e
        BY <1>2, <1>4 DEF RunFits, FromPlan
    <3>2. Where(r.logs, Ran(a, x)) = {}
        BY <2>2, <2>4, <3>1
    <3> HIDE DEF r
    <3>3. Cardinality(Where(r.logs, Ran(a, x))) = 0
        BY <3>2, FS_EmptySet
    <3>4. Ends(x)' = Ends(x) /\ Ends(x) \in {0, 1}
        BY <1>18, <2>4 DEF Ends
    <3> QED BY <1>9, <2>1, <3>3, <3>4
  <2> QED BY <2>3, <2>4
<1>21. RanOnce'
    BY <1>20 DEF RanOnce
<1> QED BY <1>12, <1>13, <1>14, <1>15, <1>16, <1>17, <1>21 DEF AutoInv

LEMMA AutoNext == AutoInv /\ [M!Next]_(M!vars) => AutoInv'
<1> SUFFICES ASSUME AutoInv, [M!Next]_(M!vars) PROVE AutoInv'
    OBVIOUS
<1>1. CASE UNCHANGED M!vars
  <2>1. UNCHANGED <<autos, logs, contact, tagExists, queue, work, lost>>
      BY <1>1 DEF M!vars
  <2>2. AutoTypes'
      BY <2>1 DEF AutoInv, AutoTypes, M!TypeOK
  <2>3. OneEach' /\ Queued' /\ RunsFit' /\ ScoreTold' /\ CountsTold'
      BY <2>1 DEF AutoInv, OneEach, Queued, RunsFit, Evaluating, ScoreTold, CountsTold
  <2>4. RanOnce'
      BY <2>1 DEF AutoInv, RanOnce, Ends, Ended
  <2> QED BY <2>2, <2>3, <2>4 DEF AutoInv
<1> QED BY <1>1, CreateAutomationAuto, UpdateAutomationAuto, ToggleAutomationAuto,
           DeleteAutomationAuto, DeleteTagAuto, PublishAuto, LoadAuto, NextAutomationAuto, ActAuto,
           WriteLogAuto, CommitAuto, AcknowledgeAuto, FailAuto, LoseAuto DEF M!Next

LEMMA LogsCount == \A S : M!Cardinality(S) = Cardinality(S)
  BY DEF M!Cardinality, Cardinality

LEMMA AutoFollows == AutoInv => M!TypeOK /\ M!LogsTrue /\ M!RetriesRepeatNothing
<1> SUFFICES ASSUME AutoInv PROVE M!TypeOK /\ M!LogsTrue /\ M!RetriesRepeatNothing
    OBVIOUS
<1>1. M!TypeOK /\ logs \in Seq(Entry)
    BY DEF AutoInv, AutoTypes
<1>2. \A i \in DOMAIN logs : logs[i] \in Entry
    BY <1>1
<1>3. M!LogsTrue
  <2>1. contact.score = M!Cardinality(M!Scores(logs))
      BY LogsCount DEF AutoInv, ScoreTold
  <2>2. ASSUME NEW a \in M!Autos
        PROVE  autos[a].count <= M!Cardinality({i \in DOMAIN logs : logs[i].auto = a /\ ~logs[i].gone})
    <3>1. {i \in DOMAIN logs : logs[i].auto = a /\ ~logs[i].gone} = Where(logs, Told(a))
        BY <1>2 DEF Where, Told
    <3> QED BY <3>1, LogsCount DEF AutoInv, CountsTold
  <2> QED BY <2>1, <2>2 DEF M!LogsTrue
<1>4. M!RetriesRepeatNothing
  <2>1. ASSUME NEW a \in M!Autos, NEW e \in Events
        PROVE  M!Cardinality({i \in DOMAIN logs : logs[i].auto = a /\ logs[i].event = e}) <= 1 + lost[e]
    <3>1. {i \in DOMAIN logs : logs[i].auto = a /\ logs[i].event = e} = Where(logs, Ran(a, e))
        BY <1>2 DEF Where, Ran
    <3>2. Cardinality(Where(logs, Ran(a, e))) <= lost[e] + Ends(e) /\ lost[e] \in Nat /\ Ends(e) \in {0, 1}
        BY DEF AutoInv, RanOnce, AutoTypes, Ends
    <3>3. Cardinality(Where(logs, Ran(a, e))) \in Nat
        BY <1>1, WhereIs
    <3>4. Cardinality(Where(logs, Ran(a, e))) <= 1 + lost[e]
        BY <3>2, <3>3
    <3>5. M!Cardinality(Where(logs, Ran(a, e))) = Cardinality(Where(logs, Ran(a, e)))
        BY LogsCount
    <3> QED BY <3>1, <3>4, <3>5
  <2> QED BY <2>1 DEF M!RetriesRepeatNothing
<1> QED BY <1>1, <1>3, <1>4

LEMMA AutomationAlone == M!Spec => [](M!TypeOK /\ M!LogsTrue /\ M!RetriesRepeatNothing)
<1> QED BY InitAuto, AutoNext, AutoFollows, PTL DEF M!Spec

-----------------------------------------------------------------------------
(* Deals.  The last entry of the timeline for a field tells what the deal   *)
(* holds, though updates commit over what they have not seen.               *)

Logged == {"stage", "status", "value"}

Request == [on : DealIds, change : D!Changes, changed : SUBSET Logged]

EditsFit ==
    /\ edit \in [Workers -> {D!NoEdit} \cup Request]
    /\ \A h \in Workers : edit[h] # D!NoEdit => edit[h].changed \subseteq DOMAIN edit[h].change

DealTypes ==
    /\ pipelines \subseteq Pipelines
    /\ stages \in [Stages -> Pipelines \cup {Null}]
    /\ EditsFit

DealInv == D!TypeOK /\ DealTypes /\ D!TimelineTells

LEMMA DealFields ==
    ASSUME D!TypeOK, NEW d \in DealIds
    PROVE  /\ D!Exists(d) <=> deals[d] \in D!Deal
           /\ ~D!Exists(d) <=> deals[d] = D!NoDeal
           /\ timeline[d] \in Seq(D!Activity)
<1>1. D!NoDeal \notin D!Deal
    BY DEF D!NoDeal, D!Deal
<1> QED BY <1>1 DEF D!TypeOK, D!Exists

LEMMA SaidIs ==
    ASSUME NEW s \in Seq(D!Activity), NEW k \in DOMAIN s
    PROVE  s[k] \in D!Activity /\ s[k].field \in Logged
<1>1. s[k] \in D!Activity
    OBVIOUS
<1> QED BY <1>1 DEF D!Activity, Logged

LEMMA NoEditIs == D!NoEdit \notin Request
BY DEF D!NoEdit, Request

(* What a request may change.                                               *)
LEMMA ChangesAre ==
    ASSUME NEW c \in D!Changes
    PROVE  /\ DOMAIN c \subseteq Logged
           /\ "status" \in DOMAIN c => c["status"] \in D!Statuses
           /\ "value" \in DOMAIN c => c["value"] \in Values
           /\ "stage" \in DOMAIN c => c["stage"] \in Stages \cup {Null}
BY DEF D!Changes, Logged

LEMMA DealsCount == \A S : D!Cardinality(S) = Cardinality(S)
  BY DEF D!Cardinality, Cardinality

(* The activities of an update, in some order.                              *)
LEMMA InOrder ==
    ASSUME NEW S, IsFiniteSet(S), NEW q, q = D!SetToSeq(S)
    PROVE  /\ q \in Seq(S)
           /\ \A s \in S : \E k \in DOMAIN q : q[k] = s
           /\ \A k \in DOMAIN q : q[k] \in S
           /\ \A k, l \in DOMAIN q : q[k] = q[l] => k = l
<1>1. Cardinality(S) \in Nat /\ \E f : ExistsBijection(1..Cardinality(S), S)
    BY FS_CardinalityType
<1>2. PICK f \in Bijection(1..Cardinality(S), S) : TRUE
    BY FS_CardinalityType DEF ExistsBijection
<1> DEFINE n == Cardinality(S)
<1>3. f \in [1..n -> S] /\ D!IsInjective(f)
    BY <1>2 DEF Bijection, Injection, IsInjective, D!IsInjective
<1>4. q \in [1..n -> S] /\ D!IsInjective(q)
    BY <1>3, DealsCount DEF D!SetToSeq
<1>5. q \in Bijection(1..n, S)
  <2>1. q \in Injection(1..n, S)
      BY <1>4 DEF Injection, IsInjective, D!IsInjective
  <2>2. Cardinality(1..n) = n
      BY <1>1, FS_Interval
  <2>3. q \in Surjection(1..n, S)
      BY <1>1, <2>1, <2>2, FS_Injection
  <2> QED BY <2>1, <2>3 DEF Bijection
<1> QED BY <1>1, <1>4, <1>5 DEF Bijection, Surjection, IsInjective, D!IsInjective

LEMMA DealInit == D!Init => DealInv
BY DEF D!Init, DealInv, D!TypeOK, DealTypes, D!TimelineTells, D!Exists, EditsFit

(* A step that leaves the deals and their timelines alone.                  *)
LEMMA DealsAlone ==
    ASSUME DealInv, UNCHANGED <<deals, timeline>>,
           pipelines \subseteq pipelines', pipelines' \subseteq Pipelines,
           stages' \in [Stages -> Pipelines \cup {Null}],
           D!StageRows \subseteq D!StageRows',
           EditsFit'
    PROVE  DealInv'
<1>1. D!TypeOK'
    BY DEF DealInv, D!TypeOK, D!Exists
<1>2. DealTypes'
    BY DEF DealInv, DealTypes
<1>3. D!TimelineTells'
    BY DEF DealInv, D!TimelineTells, D!Exists, D!NoneLater
<1> QED BY <1>1, <1>2, <1>3 DEF DealInv

(* The same deals, but some of them gone or in no stage.                    *)
LEMMA DealsLess ==
    ASSUME DealInv, UNCHANGED edit,
           pipelines' \subseteq Pipelines,
           stages' \in [Stages -> Pipelines \cup {Null}],
           deals' = [d \in DealIds |-> deals'[d]], timeline' = [d \in DealIds |-> timeline'[d]],
           \A d \in DealIds :
              \/ deals'[d] = D!NoDeal /\ timeline'[d] \in Seq(D!Activity)
              \/ /\ D!Exists(d) /\ timeline'[d] = timeline[d]
                 /\ deals'[d].pipeline \in pipelines'
                 /\ \/ deals'[d] = deals[d] /\ deals[d].stage \in D!StageRows' \cup {Null}
                    \/ deals'[d] = [deals[d] EXCEPT !.stage = Null]
                    \/ deals'[d] = [deals[d] EXCEPT !.deleted = TRUE]
                       /\ deals[d].stage \in D!StageRows' \cup {Null}
    PROVE  DealInv'
<1>1. ASSUME NEW d \in DealIds
      PROVE  /\ deals'[d] \in D!Deal \cup {D!NoDeal} /\ timeline'[d] \in Seq(D!Activity)
             /\ D!Exists(d)' => /\ D!Exists(d) /\ timeline'[d] = timeline[d]
                              /\ deals'[d].pipeline \in pipelines'
                              /\ deals'[d].stage \in D!StageRows' \cup {Null}
                              /\ deals'[d].status = deals[d].status
                              /\ deals'[d].value = deals[d].value
                              /\ deals'[d].closed = deals[d].closed
                              /\ deals'[d].stage \in {deals[d].stage, Null}
  <2>1. CASE deals'[d] = D!NoDeal
      BY <2>1, DealFields DEF D!Exists, DealInv
  <2>2. CASE deals'[d] # D!NoDeal
    <3>1. deals[d] \in D!Deal /\ timeline[d] \in Seq(D!Activity) /\ D!Exists(d)
        BY <2>2, DealFields DEF DealInv
    <3> QED BY <2>2, <3>1 DEF D!Deal
  <2> QED BY <2>1, <2>2
<1>2. D!TypeOK'
  <2>1. deals' \in [DealIds -> D!Deal \cup {D!NoDeal}] /\ timeline' \in [DealIds -> Seq(D!Activity)]
      BY <1>1
  <2> QED BY <1>1, <2>1 DEF D!TypeOK
<1>3. DealTypes'
    BY DEF DealInv, DealTypes, EditsFit
<1>4. D!TimelineTells'
  <2> SUFFICES ASSUME NEW d \in DealIds, D!Exists(d)'
               PROVE  /\ deals'[d].status \in {"won", "lost"} => deals'[d].closed
                      /\ \A k \in DOMAIN timeline'[d] : D!NoneLater(timeline'[d], k) =>
                            \/ deals'[d][timeline'[d][k].field] = timeline'[d][k].new
                            \/ timeline'[d][k].field = "stage" /\ deals'[d].stage = Null
      BY DEF D!TimelineTells
  <2>1. D!Exists(d) /\ timeline'[d] = timeline[d]
      BY <1>1
  <2>2. deals'[d].status \in {"won", "lost"} => deals'[d].closed
      BY <1>1, <2>1 DEF DealInv, D!TimelineTells
  <2>3. ASSUME NEW k \in DOMAIN timeline[d], D!NoneLater(timeline[d], k)
        PROVE  \/ deals'[d][timeline[d][k].field] = timeline[d][k].new
               \/ timeline[d][k].field = "stage" /\ deals'[d].stage = Null
    <3>1. \/ deals[d][timeline[d][k].field] = timeline[d][k].new
          \/ timeline[d][k].field = "stage" /\ deals[d].stage = Null
        BY <2>1, <2>3 DEF DealInv, D!TimelineTells
    <3>2. timeline[d] \in Seq(D!Activity)
        BY DealFields DEF DealInv
    <3>3. timeline[d][k].field \in {"stage", "status", "value"}
        BY <3>2, SaidIs DEF Logged
    <3> QED BY <1>1, <3>1, <3>3
  <2> QED BY <2>1, <2>2, <2>3
<1> QED BY <1>2, <1>3, <1>4 DEF DealInv

LEMMA CreateDealInv ==
    ASSUME DealInv, NEW d \in DealIds, NEW p \in Pipelines, NEW s \in Stages \cup {Null},
           NEW v \in Values, D!CreateDeal(d, p, s, v)
    PROVE  DealInv'
<1> DEFINE row == [pipeline |-> p, stage |-> s, status |-> "open", value |-> v,
                   closed |-> FALSE, deleted |-> FALSE]
           a == [field |-> "stage", new |-> s]
           b == [field |-> "value", new |-> v]
<1>1. /\ p \in pipelines /\ s \in D!StageRows \cup {Null}
      /\ deals' = [deals EXCEPT ![d] = row] /\ timeline' = [timeline EXCEPT ![d] = <<a, b>>]
      /\ UNCHANGED <<pipelines, stages, edit>>
    BY DEF D!CreateDeal
<1>2. row \in D!Deal /\ a \in D!Activity /\ b \in D!Activity /\ <<a, b>> \in Seq(D!Activity)
    BY DEF D!Deal, D!Activity, D!Statuses
<1>3. /\ deals'[d] = row /\ timeline'[d] = <<a, b>>
      /\ \A o \in DealIds \ {d} : deals'[o] = deals[o] /\ timeline'[o] = timeline[o]
    BY <1>1 DEF DealInv, D!TypeOK
<1>4. D!TypeOK'
  <2>1. deals' \in [DealIds -> D!Deal \cup {D!NoDeal}] /\ timeline' \in [DealIds -> Seq(D!Activity)]
      BY <1>1, <1>2 DEF DealInv, D!TypeOK
  <2>2. ASSUME NEW o \in DealIds, D!Exists(o)'
        PROVE  deals'[o].pipeline \in pipelines' /\ deals'[o].stage \in D!StageRows' \cup {Null}
    <3>1. CASE o = d
        BY <1>1, <1>3, <3>1 DEF D!StageRows
    <3>2. CASE o # d
        BY <1>1, <1>3, <2>2, <3>2 DEF DealInv, D!TypeOK, D!Exists, D!StageRows
    <3> QED BY <3>1, <3>2
  <2> QED BY <2>1, <2>2 DEF D!TypeOK
<1>5. DealTypes'
    BY <1>1 DEF DealInv, DealTypes, EditsFit
<1>6. D!TimelineTells'
  <2> SUFFICES ASSUME NEW o \in DealIds, D!Exists(o)'
               PROVE  /\ deals'[o].status \in {"won", "lost"} => deals'[o].closed
                      /\ \A k \in DOMAIN timeline'[o] : D!NoneLater(timeline'[o], k) =>
                            \/ deals'[o][timeline'[o][k].field] = timeline'[o][k].new
                            \/ timeline'[o][k].field = "stage" /\ deals'[o].stage = Null
      BY DEF D!TimelineTells
  <2>1. CASE o = d
    <3>1. \A k \in DOMAIN <<a, b>> : <<a, b>>[k] = a \/ <<a, b>>[k] = b
        OBVIOUS
    <3>2. row[a.field] = a.new /\ row[b.field] = b.new
        OBVIOUS
    <3> QED BY <1>3, <2>1, <3>1, <3>2
  <2>2. CASE o # d
      BY <1>3, <2>2 DEF DealInv, D!TimelineTells, D!Exists, D!NoneLater
  <2> QED BY <2>1, <2>2
<1> QED BY <1>4, <1>5, <1>6 DEF DealInv

LEMMA UpdateCheckDeal ==
    ASSUME DealInv, NEW h \in Workers, NEW d \in DealIds, NEW c \in D!Changes, D!UpdateCheck(h, d, c)
    PROVE  DealInv'
<1> DEFINE e == [on |-> d, change |-> c, changed |-> {f \in DOMAIN c : c[f] # deals[d][f]}]
<1>1. edit' = [edit EXCEPT ![h] = e] /\ UNCHANGED <<pipelines, stages, deals, timeline>>
    BY DEF D!UpdateCheck
<1>2. e \in Request /\ e.changed \subseteq DOMAIN e.change
    BY ChangesAre DEF Request
<1>3. EditsFit'
    BY <1>1, <1>2 DEF DealInv, DealTypes, EditsFit
<1>4. /\ D!StageRows \subseteq D!StageRows' /\ UNCHANGED <<deals, timeline>>
      /\ pipelines \subseteq pipelines' /\ pipelines' \subseteq Pipelines
      /\ stages' \in [Stages -> Pipelines \cup {Null}]
    BY <1>1 DEF D!StageRows, DealInv, DealTypes
<1> HIDE DEF e
<1> QED BY <1>2, <1>3, <1>4, DealsAlone

LEMMA AbortDeal == ASSUME DealInv, NEW h \in Workers, D!Abort(h) PROVE DealInv'
<1>1. edit' = [edit EXCEPT ![h] = D!NoEdit] /\ UNCHANGED <<pipelines, stages, deals, timeline>>
    BY DEF D!Abort
<1>2. EditsFit'
    BY <1>1 DEF DealInv, DealTypes, EditsFit
<1>3. /\ D!StageRows \subseteq D!StageRows' /\ UNCHANGED <<deals, timeline>>
      /\ pipelines \subseteq pipelines' /\ pipelines' \subseteq Pipelines
      /\ stages' \in [Stages -> Pipelines \cup {Null}]
    BY <1>1 DEF D!StageRows, DealInv, DealTypes
<1> QED BY <1>2, <1>3, DealsAlone

(* What a commit writes.                                                    *)
Says(e) == {[field |-> f, new |-> e.change[f]] : f \in e.changed}

Closes(e) == "status" \in e.changed /\ e.change.status \in {"won", "lost"}

Updated(e, row) ==
    [f \in DOMAIN row |->
        IF f \in D!Written(e) THEN e.change[f]
        ELSE IF f = "closed" /\ Closes(e) THEN TRUE ELSE row[f]]

LEMMA Rewritten ==
    ASSUME NEW row \in D!Deal, NEW e \in Request, e.changed \subseteq DOMAIN e.change,
           NEW new, new = Updated(e, row)
    PROVE  /\ new \in D!Deal
           /\ new.pipeline = row.pipeline
           /\ new.closed = (row.closed \/ Closes(e))
           /\ \A f \in Logged : new[f] = IF f \in e.changed THEN e.change[f] ELSE row[f]
<1>1. DOMAIN row = {"pipeline", "stage", "status", "value", "closed", "deleted"}
    BY DEF D!Deal
<1>2. e.change \in D!Changes /\ e.changed \subseteq Logged
    BY DEF Request
<1>3. /\ "status" \in e.changed => e.change["status"] \in D!Statuses
      /\ "value" \in e.changed => e.change["value"] \in Values
      /\ "stage" \in e.changed => e.change["stage"] \in Stages \cup {Null}
    BY <1>2, ChangesAre
<1>4. /\ new["pipeline"] = row["pipeline"] /\ new["deleted"] = row["deleted"]
      /\ new["closed"] = IF Closes(e) THEN TRUE ELSE row["closed"]
      /\ \A f \in Logged : new[f] = IF f \in e.changed THEN e.change[f] ELSE row[f]
    BY <1>1, <1>2 DEF D!Written, Logged, Updated
<1>5. /\ row["pipeline"] \in Pipelines /\ row["deleted"] \in BOOLEAN /\ row["closed"] \in BOOLEAN
      /\ row["stage"] \in Stages \cup {Null} /\ row["status"] \in D!Statuses
      /\ row["value"] \in Values
    BY DEF D!Deal
<1>6. /\ new["stage"] \in Stages \cup {Null} /\ new["status"] \in D!Statuses
      /\ new["value"] \in Values /\ new["closed"] \in BOOLEAN
    BY <1>3, <1>4, <1>5 DEF Logged
<1>7. new = [pipeline |-> new["pipeline"], stage |-> new["stage"], status |-> new["status"],
             value |-> new["value"], closed |-> new["closed"], deleted |-> new["deleted"]]
    BY <1>1 DEF Updated
<1>8. new \in D!Deal
    BY <1>4, <1>5, <1>6, <1>7 DEF D!Deal
<1>9. new.closed = (row.closed \/ Closes(e))
    BY <1>4, <1>5
<1> QED BY <1>4, <1>8, <1>9

(* The activities of a commit, in some order.                               *)
LEMMA SaysSeq ==
    ASSUME NEW e \in Request, e.changed \subseteq DOMAIN e.change, NEW q, q = D!SetToSeq(Says(e))
    PROVE  /\ q \in Seq(D!Activity)
           /\ \A a \in Says(e) : \E l \in DOMAIN q : q[l] = a
           /\ \A l \in DOMAIN q : q[l] \in Says(e)
<1>1. e.change \in D!Changes /\ e.changed \subseteq Logged
    BY DEF Request
<1>2. IsFiniteSet(Says(e))
  <2>1. IsFiniteSet(Logged)
    <3>1. Logged = {"stage"} \cup {"status"} \cup {"value"}
        BY DEF Logged
    <3> QED BY <3>1, FS_Singleton, FS_Union
  <2>2. IsFiniteSet(e.changed)
      BY <1>1, <2>1, FS_Subset
  <2> DEFINE say == [f \in e.changed |-> [field |-> f, new |-> e.change[f]]]
  <2>3. say \in Surjection(e.changed, Says(e))
      BY DEF Surjection, Says
  <2> QED BY <2>2, <2>3, FS_Surjection
<1>3. Says(e) \subseteq D!Activity
  <2> SUFFICES ASSUME NEW f \in e.changed PROVE [field |-> f, new |-> e.change[f]] \in D!Activity
      BY DEF Says
  <2>1. f \in {"stage", "status", "value"} /\ f \in DOMAIN e.change
      BY <1>1 DEF Logged
  <2>2. e.change[f] \in Stages \cup {Null} \cup D!Statuses \cup Values
      BY <1>1, <2>1, ChangesAre
  <2> QED BY <2>1, <2>2 DEF D!Activity
<1>4. /\ q \in Seq(Says(e))
      /\ \A a \in Says(e) : \E l \in DOMAIN q : q[l] = a
      /\ \A l \in DOMAIN q : q[l] \in Says(e)
    BY <1>2, InOrder
<1>5. q \in Seq(D!Activity)
    BY <1>3, <1>4
<1> QED BY <1>4, <1>5

(* The last word of a longer timeline.                                      *)
LEMMA LastWord ==
    ASSUME NEW e \in Request, e.changed \subseteq DOMAIN e.change,
           NEW s \in Seq(D!Activity), NEW q, q = D!SetToSeq(Says(e)),
           NEW k \in DOMAIN (s \o q), D!NoneLater(s \o q, k)
    PROVE  /\ s \o q \in Seq(D!Activity)
           /\ \/ /\ (s \o q)[k].field \in e.changed
                 /\ (s \o q)[k].new = e.change[(s \o q)[k].field]
              \/ /\ k \in DOMAIN s /\ D!NoneLater(s, k) /\ (s \o q)[k] = s[k]
                 /\ s[k].field \notin e.changed
<1>4. /\ \A a \in Says(e) : \E l \in DOMAIN q : q[l] = a
      /\ \A l \in DOMAIN q : q[l] \in Says(e)
    BY SaysSeq
<1>5. q \in Seq(D!Activity)
    BY SaysSeq
<1>6. /\ s \o q \in Seq(D!Activity) /\ Len(s \o q) = Len(s) + Len(q)
      /\ \A i \in DOMAIN s : i \in DOMAIN (s \o q) /\ (s \o q)[i] = s[i]
      /\ \A i \in DOMAIN q : Len(s) + i \in DOMAIN (s \o q) /\ (s \o q)[Len(s) + i] = q[i]
      /\ \A i \in DOMAIN (s \o q) : i \in DOMAIN s \/ i - Len(s) \in DOMAIN q
    BY <1>5
<1>7. CASE k - Len(s) \in DOMAIN q
  <2>1. (s \o q)[k] = q[k - Len(s)] /\ q[k - Len(s)] \in Says(e)
      BY <1>4, <1>5, <1>6, <1>7
  <2>2. PICK f \in e.changed : (s \o q)[k] = [field |-> f, new |-> e.change[f]]
      BY <2>1 DEF Says
  <2> QED BY <1>6, <2>2
<1>8. CASE k \in DOMAIN s
  <2>1. (s \o q)[k] = s[k]
      BY <1>6, <1>8
  <2>2. D!NoneLater(s, k)
      BY <1>6, <1>8, <2>1 DEF D!NoneLater
  <2>3. ASSUME s[k].field \in e.changed PROVE FALSE
    <3>1. [field |-> s[k].field, new |-> e.change[s[k].field]] \in Says(e)
        BY <2>3 DEF Says
    <3>2. PICK l \in DOMAIN q : q[l].field = s[k].field
        BY <1>4, <3>1
    <3>3. Len(s) + l > k /\ Len(s) + l \in DOMAIN (s \o q) /\ (s \o q)[Len(s) + l] = q[l]
        BY <1>5, <1>6, <1>8
    <3> QED BY <2>1, <3>2, <3>3 DEF D!NoneLater
  <2> QED BY <1>6, <1>8, <2>1, <2>2, <2>3
<1> QED BY <1>6, <1>7, <1>8

LEMMA UpdateCommitDeal == ASSUME DealInv, NEW h \in Workers, D!UpdateCommit(h) PROVE DealInv'
<1> DEFINE e == edit[h]
           d == e.on
           row == deals[d]
           new == Updated(e, row)
           q == D!SetToSeq(Says(e))
<1>1. /\ e # D!NoEdit /\ D!Found(d)
      /\ "stage" \in e.changed => e.change["stage"] \in D!StageRows \cup {Null}
      /\ deals' = [deals EXCEPT ![d] = new]
      /\ timeline' = [timeline EXCEPT ![d] = timeline[d] \o q]
      /\ edit' = [edit EXCEPT ![h] = D!NoEdit]
      /\ UNCHANGED <<pipelines, stages>>
    BY DEF D!UpdateCommit, Closes, Says, Updated
<1>2. e \in Request /\ e.changed \subseteq DOMAIN e.change
    BY <1>1 DEF DealInv, DealTypes, EditsFit
<1>3. d \in DealIds /\ row \in D!Deal /\ timeline[d] \in Seq(D!Activity)
  <2>1. d \in DealIds
      BY <1>2 DEF Request
  <2> QED BY <1>1, <2>1, DealFields DEF D!Found, DealInv
<1>4. /\ new \in D!Deal /\ new.pipeline = row.pipeline /\ new.closed = (row.closed \/ Closes(e))
      /\ \A f \in Logged : new[f] = IF f \in e.changed THEN e.change[f] ELSE row[f]
  <2> HIDE DEF e, row
  <2> QED BY <1>2, <1>3, Rewritten
<1>5. /\ q \in Seq(D!Activity) /\ timeline[d] \o q \in Seq(D!Activity)
      /\ \A k \in DOMAIN (timeline[d] \o q) : D!NoneLater(timeline[d] \o q, k) =>
            \/ /\ (timeline[d] \o q)[k].field \in e.changed
               /\ (timeline[d] \o q)[k].new = e.change[(timeline[d] \o q)[k].field]
            \/ /\ k \in DOMAIN timeline[d] /\ D!NoneLater(timeline[d], k)
               /\ (timeline[d] \o q)[k] = timeline[d][k]
               /\ timeline[d][k].field \notin e.changed
  <2>1. q \in Seq(D!Activity)
      BY <1>2, SaysSeq
  <2> HIDE DEF e, d
  <2> QED BY <1>2, <1>3, <2>1, LastWord
<1>6. /\ deals'[d] = new /\ timeline'[d] = timeline[d] \o q
      /\ \A o \in DealIds \ {d} : deals'[o] = deals[o] /\ timeline'[o] = timeline[o]
    BY <1>1, <1>3 DEF DealInv, D!TypeOK
<1> HIDE DEF new, q
<1>7. D!TypeOK'
  <2>1. deals' \in [DealIds -> D!Deal \cup {D!NoDeal}] /\ timeline' \in [DealIds -> Seq(D!Activity)]
      BY <1>1, <1>4, <1>5 DEF DealInv, D!TypeOK
  <2>2. ASSUME NEW o \in DealIds, D!Exists(o)'
        PROVE  deals'[o].pipeline \in pipelines' /\ deals'[o].stage \in D!StageRows' \cup {Null}
    <3>1. CASE o = d
      <4>1. row.pipeline \in pipelines /\ row.stage \in D!StageRows \cup {Null}
          BY <1>1, <1>3 DEF DealInv, D!TypeOK, D!Found
      <4>2. new.stage \in D!StageRows \cup {Null}
          BY <1>1, <1>4, <4>1 DEF Logged
      <4> QED BY <1>1, <1>4, <1>6, <3>1, <4>1, <4>2 DEF D!StageRows
    <3>2. CASE o # d
        BY <1>1, <1>6, <2>2, <3>2 DEF DealInv, D!TypeOK, D!Exists, D!StageRows
    <3> QED BY <3>1, <3>2
  <2> QED BY <2>1, <2>2 DEF D!TypeOK
<1>8. DealTypes'
    BY <1>1 DEF DealInv, DealTypes, EditsFit
<1>9. D!TimelineTells'
  <2> SUFFICES ASSUME NEW o \in DealIds, D!Exists(o)'
               PROVE  /\ deals'[o].status \in {"won", "lost"} => deals'[o].closed
                      /\ \A k \in DOMAIN timeline'[o] : D!NoneLater(timeline'[o], k) =>
                            \/ deals'[o][timeline'[o][k].field] = timeline'[o][k].new
                            \/ timeline'[o][k].field = "stage" /\ deals'[o].stage = Null
      BY DEF D!TimelineTells
  <2>1. CASE o = d
    <3>0. D!Exists(d)
        BY <1>1 DEF D!Found
    <3>1. new.status \in {"won", "lost"} => new.closed
      <4>1. row.status \in {"won", "lost"} => row.closed
          BY <1>3, <3>0 DEF DealInv, D!TimelineTells
      <4>2. new["status"] = IF "status" \in e.changed THEN e.change["status"] ELSE row["status"]
          BY <1>4 DEF Logged
      <4> QED BY <1>4, <4>1, <4>2 DEF Closes
    <3>2. ASSUME NEW k \in DOMAIN (timeline[d] \o q), D!NoneLater(timeline[d] \o q, k)
          PROVE  \/ new[(timeline[d] \o q)[k].field] = (timeline[d] \o q)[k].new
                 \/ (timeline[d] \o q)[k].field = "stage" /\ new.stage = Null
      <4>1. CASE /\ (timeline[d] \o q)[k].field \in e.changed
                 /\ (timeline[d] \o q)[k].new = e.change[(timeline[d] \o q)[k].field]
        <5>1. (timeline[d] \o q)[k].field \in Logged
            BY <1>2, <4>1 DEF Request
        <5> QED BY <1>4, <4>1, <5>1
      <4>2. CASE /\ k \in DOMAIN timeline[d] /\ D!NoneLater(timeline[d], k)
                 /\ (timeline[d] \o q)[k] = timeline[d][k]
                 /\ timeline[d][k].field \notin e.changed
        <5>1. timeline[d][k].field \in Logged
            BY <1>3, <4>2, SaidIs
        <5>2. \/ row[timeline[d][k].field] = timeline[d][k].new
              \/ timeline[d][k].field = "stage" /\ row.stage = Null
            BY <1>3, <3>0, <4>2 DEF DealInv, D!TimelineTells
        <5>3. new[timeline[d][k].field] = row[timeline[d][k].field]
            BY <1>4, <4>2, <5>1
        <5> QED BY <4>2, <5>2, <5>3
      <4> QED BY <1>5, <3>2, <4>1, <4>2
    <3> QED BY <1>6, <2>1, <3>1, <3>2
  <2>2. CASE o # d
      BY <1>6, <2>2 DEF DealInv, D!TimelineTells, D!Exists, D!NoneLater
  <2> QED BY <2>1, <2>2
<1> QED BY <1>7, <1>8, <1>9 DEF DealInv

LEMMA CreatePipelineDeal ==
    ASSUME DealInv, NEW p \in Pipelines, NEW s \in Stages,
           D!CreatePipeline(p, s) \/ D!AddStage(p, s)
    PROVE  DealInv'
<1>1. /\ stages' = [stages EXCEPT ![s] = p] /\ s \notin D!StageRows
      /\ pipelines' \in {pipelines, pipelines \cup {p}}
      /\ UNCHANGED <<deals, timeline, edit>>
    BY DEF D!CreatePipeline, D!AddStage
<1>2. /\ D!StageRows \subseteq D!StageRows' /\ pipelines \subseteq pipelines'
      /\ pipelines' \subseteq Pipelines /\ stages' \in [Stages -> Pipelines \cup {Null}]
    BY <1>1 DEF D!StageRows, DealInv, DealTypes
<1>3. EditsFit'
    BY <1>1 DEF DealInv, DealTypes, EditsFit
<1> QED BY <1>1, <1>2, <1>3, DealsAlone

LEMMA DeleteStageDeal == ASSUME DealInv, NEW s \in Stages, D!DeleteStage(s) PROVE DealInv'
<1>1. /\ stages' = [stages EXCEPT ![s] = Null] /\ deals' = D!Unstaged({s})
      /\ UNCHANGED <<pipelines, timeline, edit>>
    BY DEF D!DeleteStage
<1>2. /\ pipelines' \subseteq Pipelines /\ stages' \in [Stages -> Pipelines \cup {Null}]
      /\ D!StageRows \ {s} \subseteq D!StageRows'
    BY <1>1 DEF D!StageRows, DealInv, DealTypes
<1>3. /\ deals' = [d \in DealIds |-> deals'[d]] /\ timeline' = [d \in DealIds |-> timeline'[d]]
    BY <1>1 DEF D!Unstaged, DealInv, D!TypeOK
<1>4. ASSUME NEW d \in DealIds
      PROVE  \/ deals'[d] = D!NoDeal /\ timeline'[d] \in Seq(D!Activity)
             \/ /\ D!Exists(d) /\ timeline'[d] = timeline[d]
                /\ deals'[d].pipeline \in pipelines'
                /\ \/ deals'[d] = deals[d] /\ deals[d].stage \in D!StageRows' \cup {Null}
                   \/ deals'[d] = [deals[d] EXCEPT !.stage = Null]
                   \/ deals'[d] = [deals[d] EXCEPT !.deleted = TRUE]
                      /\ deals[d].stage \in D!StageRows' \cup {Null}
  <2>0. timeline'[d] = timeline[d] /\ timeline[d] \in Seq(D!Activity)
      BY <1>1, DealFields DEF DealInv
  <2>1. CASE ~D!Exists(d)
    <3>1. deals'[d] = D!NoDeal
        BY <1>1, <2>1 DEF D!Unstaged, D!Exists
    <3> QED BY <2>0, <3>1
  <2>2. CASE D!Exists(d)
    <3>1. /\ deals[d] \in D!Deal /\ deals[d].pipeline \in pipelines
          /\ deals[d].stage \in D!StageRows \cup {Null}
        BY <2>2, DealFields DEF DealInv, D!TypeOK
    <3>2. CASE deals[d].stage = s
      <4>1. deals'[d] = [deals[d] EXCEPT !.stage = Null]
          BY <1>1, <2>2, <3>2 DEF D!Unstaged
      <4>2. deals'[d].pipeline = deals[d].pipeline
          BY <3>1, <4>1 DEF D!Deal
      <4> QED BY <1>1, <2>0, <2>2, <3>1, <4>1, <4>2
    <3>3. CASE deals[d].stage # s
      <4>1. deals'[d] = deals[d]
          BY <1>1, <2>2, <3>3 DEF D!Unstaged
      <4>2. deals[d].stage \in D!StageRows' \cup {Null}
          BY <1>2, <3>1, <3>3
      <4> QED BY <1>1, <2>0, <2>2, <3>1, <4>1, <4>2
    <3> QED BY <3>2, <3>3
  <2> QED BY <2>1, <2>2
<1> QED BY <1>1, <1>2, <1>3, <1>4, DealsLess

LEMMA DeletePipelineDeal == ASSUME DealInv, NEW p \in Pipelines, D!DeletePipeline(p) PROVE DealInv'
<1>1. /\ pipelines' = pipelines \ {p}
      /\ stages' = [s \in Stages |-> IF stages[s] = p THEN Null ELSE stages[s]]
      /\ deals' = [d \in DealIds |-> IF D!Exists(d) /\ deals[d].pipeline = p THEN D!NoDeal
                                     ELSE D!Unstaged(D!StagesOf(p))[d]]
      /\ timeline' = [d \in DealIds |-> IF deals'[d] = D!NoDeal THEN <<>> ELSE timeline[d]]
      /\ UNCHANGED edit
    BY DEF D!DeletePipeline
<1>2. /\ pipelines' \subseteq Pipelines /\ stages' \in [Stages -> Pipelines \cup {Null}]
      /\ D!StageRows \ D!StagesOf(p) \subseteq D!StageRows'
    BY <1>1 DEF D!StageRows, D!StagesOf, DealInv, DealTypes
<1>3. /\ deals' = [d \in DealIds |-> deals'[d]] /\ timeline' = [d \in DealIds |-> timeline'[d]]
    BY <1>1
<1>4. ASSUME NEW d \in DealIds
      PROVE  \/ deals'[d] = D!NoDeal /\ timeline'[d] \in Seq(D!Activity)
             \/ /\ D!Exists(d) /\ timeline'[d] = timeline[d]
                /\ deals'[d].pipeline \in pipelines'
                /\ \/ deals'[d] = deals[d] /\ deals[d].stage \in D!StageRows' \cup {Null}
                   \/ deals'[d] = [deals[d] EXCEPT !.stage = Null]
                   \/ deals'[d] = [deals[d] EXCEPT !.deleted = TRUE]
                      /\ deals[d].stage \in D!StageRows' \cup {Null}
  <2>1. CASE deals'[d] = D!NoDeal
      BY <1>1, <2>1
  <2>2. CASE deals'[d] # D!NoDeal
    <3>1. /\ D!Exists(d) /\ deals[d].pipeline # p /\ timeline'[d] = timeline[d]
          /\ deals'[d] = D!Unstaged(D!StagesOf(p))[d]
      <4>1. ~(D!Exists(d) /\ deals[d].pipeline = p) /\ deals'[d] = D!Unstaged(D!StagesOf(p))[d]
          BY <1>1, <2>2
      <4>2. timeline'[d] = timeline[d]
          BY <1>1, <2>2
      <4>3. D!Exists(d)
          BY <2>2, <4>1 DEF D!Unstaged, D!Exists
      <4> QED BY <4>1, <4>2, <4>3
    <3>2. /\ deals[d] \in D!Deal /\ deals[d].pipeline \in pipelines'
          /\ deals[d].stage \in D!StageRows \cup {Null}
        BY <1>1, <3>1, DealFields DEF DealInv, D!TypeOK
    <3>3. CASE deals[d].stage \in D!StagesOf(p)
      <4>1. deals'[d] = [deals[d] EXCEPT !.stage = Null]
          BY <3>1, <3>3 DEF D!Unstaged
      <4>2. deals'[d].pipeline = deals[d].pipeline
          BY <3>2, <4>1 DEF D!Deal
      <4> QED BY <3>1, <3>2, <4>1, <4>2
    <3>4. CASE deals[d].stage \notin D!StagesOf(p)
      <4>1. deals'[d] = deals[d]
          BY <3>1, <3>4 DEF D!Unstaged
      <4>2. deals[d].stage \in D!StageRows' \cup {Null}
          BY <1>2, <3>2, <3>4
      <4> QED BY <3>1, <3>2, <4>1, <4>2
    <3> QED BY <3>3, <3>4
  <2> QED BY <2>1, <2>2
<1> QED BY <1>1, <1>2, <1>3, <1>4, DealsLess

LEMMA DeleteDealInv == ASSUME DealInv, NEW d \in DealIds, D!DeleteDeal(d) PROVE DealInv'
<1>1. /\ D!Exists(d) /\ deals' = [deals EXCEPT ![d] = [deals[d] EXCEPT !.deleted = TRUE]]
      /\ UNCHANGED <<pipelines, stages, timeline, edit>>
    BY DEF D!DeleteDeal, D!Found
<1>2. /\ pipelines' \subseteq Pipelines /\ stages' \in [Stages -> Pipelines \cup {Null}]
      /\ D!StageRows' = D!StageRows
    BY <1>1 DEF D!StageRows, DealInv, DealTypes
<1>3. /\ deals' = [o \in DealIds |-> deals'[o]] /\ timeline' = [o \in DealIds |-> timeline'[o]]
    BY <1>1 DEF DealInv, D!TypeOK
<1>4. ASSUME NEW o \in DealIds
      PROVE  \/ deals'[o] = D!NoDeal /\ timeline'[o] \in Seq(D!Activity)
             \/ /\ D!Exists(o) /\ timeline'[o] = timeline[o]
                /\ deals'[o].pipeline \in pipelines'
                /\ \/ deals'[o] = deals[o] /\ deals[o].stage \in D!StageRows' \cup {Null}
                   \/ deals'[o] = [deals[o] EXCEPT !.stage = Null]
                   \/ deals'[o] = [deals[o] EXCEPT !.deleted = TRUE]
                      /\ deals[o].stage \in D!StageRows' \cup {Null}
  <2>0. /\ timeline'[o] = timeline[o] /\ timeline[o] \in Seq(D!Activity)
        /\ o = d => deals'[o] = [deals[o] EXCEPT !.deleted = TRUE]
        /\ o # d => deals'[o] = deals[o]
      BY <1>1, DealFields DEF DealInv, D!TypeOK
  <2>1. CASE ~D!Exists(o)
    <3>1. deals'[o] = D!NoDeal
        BY <1>1, <2>0, <2>1 DEF D!Exists
    <3> QED BY <2>0, <3>1
  <2>2. CASE D!Exists(o)
    <3>1. /\ deals[o] \in D!Deal /\ deals[o].pipeline \in pipelines
          /\ deals[o].stage \in D!StageRows \cup {Null}
        BY <2>2, DealFields DEF DealInv, D!TypeOK
    <3>2. deals'[o].pipeline = deals[o].pipeline
        BY <2>0, <3>1 DEF D!Deal
    <3> QED BY <1>1, <1>2, <2>0, <2>2, <3>1, <3>2
  <2> QED BY <2>1, <2>2
<1> QED BY <1>1, <1>2, <1>3, <1>4, DealsLess

LEMMA DealNext == ASSUME DealInv, [D!Next]_(D!vars) PROVE DealInv'
<1>1. CASE UNCHANGED D!vars
    BY <1>1 DEF D!vars, DealInv, DealTypes, EditsFit, D!TypeOK, D!TimelineTells, D!Exists, D!StageRows, D!NoneLater
<1>2. CASE D!Next
    BY <1>2, CreatePipelineDeal, DeletePipelineDeal, DeleteStageDeal, DeleteDealInv,
       CreateDealInv, UpdateCheckDeal, UpdateCommitDeal, AbortDeal DEF D!Next
<1> QED BY <1>1, <1>2

LEMMA TimelineAlone == D!Spec => [](D!TypeOK /\ D!TimelineTells)
<1>1. D!Init => DealInv
    BY DealInit
<1>2. DealInv /\ [D!Next]_(D!vars) => DealInv'
    BY DealNext
<1>3. DealInv => D!TypeOK /\ D!TimelineTells
    BY DEF DealInv
<1> QED BY <1>1, <1>2, <1>3, PTL DEF D!Spec

-----------------------------------------------------------------------------
(* Landing pages.  A slug is taken over all companies, and a visit writes a *)
(* count it has read of visits that were served.                            *)

(* Null is no value.                                                        *)
NullIsNone == Null \notin Slugs /\ Null \notin PageIds /\ Null \notin Companies

Acting == {L!NoAct} \cup [op : {"create"}, company : Companies, slug : Slugs]
               \cup [op : {"edit"}, page : PageIds, change : L!Edits]
               \cup [op : {"visit"}, page : PageIds, count : Nat]

PageTypes ==
    /\ L!TypeOK
    /\ act \in [Workers -> Acting]
    /\ served \in [PageIds -> Nat] /\ clicked \in [PageIds -> Nat]

(* A request at work on a page has found it, and pages are only stamped.    *)
PagesFound ==
    \A h \in Workers : act[h] # L!NoAct /\ act[h].op # "create" => L!Exists(act[h].page)

(* A visit that will write a count has been served.                         *)
VisitsServed == \A h \in Workers : act[h].op = "visit" => act[h].count <= served[act[h].page]

SlugsApart == \A p, q \in PageIds : pages[p].slug \in Slugs /\ pages[p].slug = pages[q].slug => p = q
CountsServed ==
    \A p \in PageIds : pages[p].visits <= served[p] /\ pages[p].conversions <= clicked[p]

PageInv == PageTypes /\ PagesFound /\ VisitsServed /\ SlugsApart /\ CountsServed

-----------------------------------------------------------------------------
(* Rows *)

LEMMA PageFields ==
  ASSUME L!TypeOK, NEW p \in PageIds
  PROVE  /\ pages[p].visits \in Nat /\ pages[p].conversions \in Nat
         /\ L!Exists(p) => pages[p] \in L!Page
  BY DEF L!TypeOK, L!Page, L!NoPage, L!Exists

LEMMA PageIsNot == ASSUME NullIsNone PROVE L!NoPage \notin L!Page
  BY DEF NullIsNone, L!NoPage, L!Page

(* What an edit writes, and what it leaves alone.                           *)
LEMMA PageEdited ==
  ASSUME NEW row \in L!Page, NEW e \in L!Edits,
         NEW new, new = [f \in DOMAIN row |-> IF f \in DOMAIN e THEN e[f] ELSE row[f]]
  PROVE  /\ new \in L!Page
         /\ new.visits = row.visits /\ new.conversions = row.conversions
         /\ new.slug = IF "slug" \in DOMAIN e THEN e.slug ELSE row.slug
<1>1. DOMAIN row = {"owner", "slug", "status", "deleted", "visits", "conversions"}
  BY DEF L!Page
<1>2. \/ DOMAIN e = {"slug"} /\ e["slug"] \in Slugs
      \/ DOMAIN e = {"status"} /\ e["status"] \in {"draft", "published"}
      \/ DOMAIN e = {"deleted"} /\ e["deleted"] = TRUE
  BY DEF L!Edits
<1>3. new = [owner |-> new["owner"], slug |-> new["slug"], status |-> new["status"],
             deleted |-> new["deleted"], visits |-> new["visits"],
             conversions |-> new["conversions"]]
  BY <1>1
<1>4. /\ new["owner"] = row["owner"] /\ new["visits"] = row["visits"]
      /\ new["conversions"] = row["conversions"]
  BY <1>1, <1>2
<1>5. /\ new["slug"] = IF "slug" \in DOMAIN e THEN e["slug"] ELSE row["slug"]
      /\ new["slug"] \in Slugs
  BY <1>1, <1>2 DEF L!Page
<1>6. new["status"] \in {"draft", "published"}
  BY <1>1, <1>2 DEF L!Page
<1>7. new["deleted"] \in BOOLEAN
  BY <1>1, <1>2 DEF L!Page
<1>8. row["owner"] \in Companies /\ row["visits"] \in Nat /\ row["conversions"] \in Nat
  BY DEF L!Page
<1> QED
  BY <1>3, <1>4, <1>5, <1>6, <1>7, <1>8 DEF L!Page

-----------------------------------------------------------------------------
(* The induction *)

LEMMA InitPages == ASSUME NullIsNone PROVE L!Init => PageInv
  BY DEF NullIsNone, L!Init, PageInv, PageTypes, L!TypeOK, PagesFound, VisitsServed, SlugsApart, CountsServed, Acting,
         L!NoAct, L!NoPage

(* A step that only begins or ends a request.                               *)
LEMMA OnlyActs ==
  ASSUME NullIsNone, PageInv, UNCHANGED <<pages, clicked>>,
         served' \in [PageIds -> Nat], \A p \in PageIds : served[p] <= served'[p],
         act' \in [Workers -> Acting],
         \A h \in Workers :
            \/ act'[h] = act[h] \/ act'[h] = L!NoAct \/ act'[h].op = "create"
            \/ act'[h].op = "edit" /\ L!Exists(act'[h].page)
            \/ act'[h].op = "visit" /\ L!Exists(act'[h].page)
                                    /\ act'[h].count <= served'[act'[h].page]
  PROVE  PageInv'
<1>1. PageTypes'
  BY DEF PageInv, PageTypes, L!TypeOK
<1>2. PagesFound'
  BY DEF PageInv, PagesFound, L!Exists
<1>3. VisitsServed'
  <2> SUFFICES ASSUME NEW h \in Workers, act'[h].op = "visit"
               PROVE  act'[h].count <= served'[act'[h].page]
    BY DEF VisitsServed
  <2>1. act'[h] \in [op : {"visit"}, page : PageIds, count : Nat]
    BY DEF Acting, L!NoAct
  <2>2. CASE act'[h] = act[h]
    <3>1. act[h].count <= served[act[h].page]
      BY <2>2 DEF PageInv, VisitsServed
    <3> QED
      BY <2>1, <2>2, <3>1 DEF PageInv, PageTypes
  <2> QED
    BY <2>1, <2>2 DEF L!NoAct
<1>4. SlugsApart'
  BY DEF PageInv, SlugsApart
<1>5. CountsServed'
  BY PageFields DEF PageInv, CountsServed, PageTypes
<1> QED
  BY <1>1, <1>2, <1>3, <1>4, <1>5 DEF PageInv

(* A step that writes rows and ends a request.                              *)
LEMMA OnlyPages ==
  ASSUME NullIsNone, PageInv, UNCHANGED served,
         clicked' \in [PageIds -> Nat],
         \A h \in Workers : act'[h] = act[h] \/ act'[h] = L!NoAct,
         act' \in [Workers -> Acting],
         pages' \in [PageIds -> L!Page \cup {L!NoPage}],
         \A p \in PageIds : L!Exists(p) => L!Exists(p)',
         CountsServed', SlugsApart'
  PROVE  PageInv'
<1>1. PageTypes'
  BY DEF PageInv, PageTypes, L!TypeOK
<1>2. PagesFound'
  <2> SUFFICES ASSUME NEW h \in Workers, act'[h] # L!NoAct, act'[h].op # "create"
               PROVE  pages'[act'[h].page] # L!NoPage
    BY DEF PagesFound, L!Exists
  <2>1. act'[h] = act[h] /\ L!Exists(act[h].page)
    BY DEF PageInv, PagesFound
  <2>2. act[h].page \in PageIds
    BY <2>1 DEF PageInv, PageTypes, Acting
  <2> QED
    BY <2>1, <2>2 DEF L!Exists
<1>3. VisitsServed'
  <2> SUFFICES ASSUME NEW h \in Workers, act'[h].op = "visit"
               PROVE  act'[h].count <= served[act'[h].page]
    BY DEF VisitsServed
  <2>1. act'[h] = act[h]
    BY DEF L!NoAct
  <2> QED
    BY <2>1 DEF PageInv, VisitsServed
<1> QED
  BY <1>1, <1>2, <1>3 DEF PageInv

LEMMA HeldTyped ==
  ASSUME PageInv, NEW h \in Workers, NEW r \in Acting
  PROVE  /\ [act EXCEPT ![h] = r] \in [Workers -> Acting]
         /\ [act EXCEPT ![h] = r][h] = r
         /\ \A g \in Workers \ {h} : [act EXCEPT ![h] = r][g] = act[g]
         /\ L!NoAct \in Acting
  BY DEF PageInv, PageTypes, Acting

LEMMA CreateCommitPages ==
  ASSUME NullIsNone, PageInv, NEW h \in Workers, L!CreateCommit(h) PROVE PageInv'
<1>1. act[h] \in [op : {"create"}, company : Companies, slug : Slugs]
  BY DEF L!CreateCommit, PageInv, PageTypes, Acting, L!NoAct
<1> DEFINE row == [L!NoPage EXCEPT !.owner = act[h].company, !.slug = act[h].slug]
<1>2. PICK p \in PageIds : ~L!Exists(p) /\ pages' = [pages EXCEPT ![p] = row]
  BY DEF L!CreateCommit
<1>3. row \in L!Page /\ row.slug = act[h].slug /\ row.visits = 0 /\ row.conversions = 0
  BY <1>1 DEF L!NoPage, L!Page
<1>4. \A q \in PageIds : pages[q].slug # act[h].slug
  BY <1>1 DEF L!CreateCommit, L!SlugFree, NullIsNone
<1>5. pages' \in [PageIds -> L!Page \cup {L!NoPage}]
  BY <1>2, <1>3 DEF PageInv, PageTypes, L!TypeOK
<1>6. \A q \in PageIds : L!Exists(q) => L!Exists(q)'
  BY <1>2, <1>5, <1>3, PageIsNot DEF L!Exists, PageInv, PageTypes, L!TypeOK
<1>7. SlugsApart'
  BY <1>2, <1>3, <1>4 DEF SlugsApart, PageInv, PageTypes, L!TypeOK
<1>8. CountsServed'
  <2> SUFFICES ASSUME NEW q \in PageIds
               PROVE  pages'[q].visits <= served[q] /\ pages'[q].conversions <= clicked[q]
    BY DEF CountsServed, L!CreateCommit
  <2>1. CASE q = p
    BY <1>2, <1>3, <2>1 DEF PageInv, PageTypes, L!TypeOK
  <2>2. CASE q # p
    BY <1>2, <2>2 DEF PageInv, CountsServed, PageTypes, L!TypeOK
  <2> QED
    BY <2>1, <2>2
<1> QED
  BY <1>5, <1>6, <1>7, <1>8, HeldTyped, OnlyPages DEF L!CreateCommit, L!Done, PageInv, PageTypes

LEMMA EditCommitPages ==
  ASSUME NullIsNone, PageInv, NEW h \in Workers, L!EditCommit(h) PROVE PageInv'
<1>1. act[h] \in [op : {"edit"}, page : PageIds, change : L!Edits]
  BY DEF L!EditCommit, PageInv, PageTypes, Acting, L!NoAct
<1> DEFINE p == act[h].page
           e == act[h].change
           new == [f \in DOMAIN pages[p] |-> IF f \in DOMAIN e THEN e[f] ELSE pages[p][f]]
<1>2. p \in PageIds /\ e \in L!Edits /\ pages' = [pages EXCEPT ![p] = new]
  BY <1>1 DEF L!EditCommit
<1>3. act[h] # L!NoAct /\ act[h].op # "create"
  BY <1>1 DEF L!NoAct
<1>4. pages[p] \in L!Page
  BY <1>2, <1>3, PageFields DEF PageInv, PageTypes, PagesFound
<1>5. /\ new \in L!Page /\ new.visits = pages[p].visits
      /\ new.conversions = pages[p].conversions
      /\ new.slug = IF "slug" \in DOMAIN e THEN e.slug ELSE pages[p].slug
  BY <1>2, <1>4, PageEdited
<1>6. pages' \in [PageIds -> L!Page \cup {L!NoPage}]
  BY <1>2, <1>5 DEF PageInv, PageTypes, L!TypeOK
<1>7. \A q \in PageIds : L!Exists(q) => L!Exists(q)'
  BY <1>2, <1>5, <1>6, PageIsNot DEF L!Exists, PageInv, PageTypes, L!TypeOK
<1>8. SlugsApart'
  <2>1. "slug" \in DOMAIN e => \A q \in PageIds \ {p} : pages[q].slug # e.slug
    BY DEF L!EditCommit, L!SlugFree
  <2>2. \A q \in PageIds : pages'[q].slug = IF q = p THEN new.slug ELSE pages[q].slug
    BY <1>2 DEF PageInv, PageTypes, L!TypeOK
  <2>3. \A q \in PageIds \ {p} : new.slug \in Slugs => pages[q].slug # new.slug
    BY <1>2, <1>5, <2>1 DEF PageInv, SlugsApart
  <2> QED
    BY <2>2, <2>3 DEF PageInv, SlugsApart
<1>9. CountsServed'
  <2>1. \A q \in PageIds : pages'[q].visits = pages[q].visits
                           /\ pages'[q].conversions = pages[q].conversions
    BY <1>2, <1>5 DEF PageInv, PageTypes, L!TypeOK
  <2> QED
    BY <2>1 DEF CountsServed, PageInv, L!EditCommit
<1> QED
  BY <1>6, <1>7, <1>8, <1>9, HeldTyped, OnlyPages DEF L!EditCommit, L!Done, PageInv, PageTypes

(* What an UPDATE of a counter leaves of a row.                             *)
LEMMA CountKept ==
  ASSUME NEW row \in L!Page, NEW n \in Nat
  PROVE  /\ [row EXCEPT !.visits = n] \in L!Page /\ [row EXCEPT !.conversions = n] \in L!Page
         /\ [row EXCEPT !.visits = n].slug = row.slug
         /\ [row EXCEPT !.conversions = n].slug = row.slug
         /\ [row EXCEPT !.visits = n].visits = n
         /\ [row EXCEPT !.visits = n].conversions = row.conversions
         /\ [row EXCEPT !.conversions = n].visits = row.visits
         /\ [row EXCEPT !.conversions = n].conversions = n
  BY DEF L!Page

LEMMA VisitWritePages ==
  ASSUME NullIsNone, PageInv, NEW h \in Workers, L!VisitWrite(h) PROVE PageInv'
<1>1. act[h] \in [op : {"visit"}, page : PageIds, count : Nat]
  BY DEF L!VisitWrite, PageInv, PageTypes, Acting, L!NoAct
<1> DEFINE p == act[h].page
           new == [pages[p] EXCEPT !.visits = act[h].count]
<1>2. p \in PageIds /\ act[h].count \in Nat /\ act[h] # L!NoAct /\ act[h].op # "create"
  BY <1>1 DEF L!NoAct
<1>3. pages[p] \in L!Page
  BY <1>2, PageFields DEF PageInv, PageTypes, PagesFound
<1>4. pages' = IF bypass THEN [pages EXCEPT ![p] = new] ELSE pages
  BY DEF L!VisitWrite
<1>5. /\ new \in L!Page /\ new.slug = pages[p].slug /\ new.visits = act[h].count
      /\ new.conversions = pages[p].conversions
  BY <1>2, <1>3, CountKept
<1>6. pages' \in [PageIds -> L!Page \cup {L!NoPage}]
  BY <1>4, <1>5 DEF PageInv, PageTypes, L!TypeOK
<1>7. \A q \in PageIds : L!Exists(q) => L!Exists(q)'
  BY <1>4, <1>5, <1>6, PageIsNot DEF L!Exists, PageInv, PageTypes, L!TypeOK
<1>8. \A q \in PageIds : pages'[q].slug = pages[q].slug
  BY <1>4, <1>5 DEF PageInv, PageTypes, L!TypeOK
<1>9. SlugsApart'
  BY <1>8 DEF PageInv, SlugsApart
<1>10. CountsServed'
  <2> SUFFICES ASSUME NEW q \in PageIds
               PROVE  pages'[q].visits <= served[q] /\ pages'[q].conversions <= clicked[q]
    BY DEF CountsServed, L!VisitWrite
  <2>1. act[h].count <= served[p]
    BY <1>1 DEF PageInv, VisitsServed
  <2>2. pages[q].visits <= served[q] /\ pages[q].conversions <= clicked[q]
    BY DEF PageInv, CountsServed
  <2> QED
    BY <1>4, <1>5, <2>1, <2>2 DEF PageInv, PageTypes, L!TypeOK
<1> QED
  BY <1>6, <1>7, <1>9, <1>10, HeldTyped, OnlyPages DEF L!VisitWrite, L!Done, PageInv, PageTypes

LEMMA ConvertPages ==
  ASSUME NullIsNone, PageInv, NEW s \in Slugs, L!Convert(s) PROVE PageInv'
<1> DEFINE hit == {p \in PageIds : pages[p].slug = s /\ pages[p].status = "published"}
           more(p) == [pages[p] EXCEPT !.conversions = @ + 1]
<1>1. /\ clicked' = [p \in PageIds |-> clicked[p] + (IF p \in hit THEN 1 ELSE 0)]
      /\ pages' = [p \in PageIds |-> IF p \in hit /\ bypass THEN more(p) ELSE pages[p]]
  BY DEF L!Convert
<1>2. ASSUME NEW p \in hit PROVE p \in PageIds /\ pages[p] \in L!Page
  BY DEF NullIsNone, PageInv, PageTypes, L!TypeOK, L!NoPage
<1>3. ASSUME NEW p \in hit
      PROVE  /\ more(p) \in L!Page /\ more(p).slug = pages[p].slug
             /\ more(p).visits = pages[p].visits
             /\ more(p).conversions = pages[p].conversions + 1
  <2>1. pages[p].conversions + 1 \in Nat
    BY <1>2 DEF L!Page
  <2> QED
    BY <1>2, <2>1, CountKept
<1>4. pages' \in [PageIds -> L!Page \cup {L!NoPage}]
  BY <1>1, <1>3 DEF PageInv, PageTypes, L!TypeOK
<1>5. \A q \in PageIds : L!Exists(q) => L!Exists(q)'
  BY <1>1, <1>3, PageIsNot DEF L!Exists
<1>6. \A q \in PageIds : pages'[q].slug = pages[q].slug
  BY <1>1, <1>3
<1>7. SlugsApart'
  BY <1>6 DEF PageInv, SlugsApart
<1>8. clicked' \in [PageIds -> Nat]
  BY <1>1 DEF PageInv, PageTypes
<1>9. CountsServed'
  <2> SUFFICES ASSUME NEW q \in PageIds
               PROVE  pages'[q].visits <= served[q] /\ pages'[q].conversions <= clicked'[q]
    BY DEF CountsServed, L!Convert
  <2>1. pages[q].visits <= served[q] /\ pages[q].conversions <= clicked[q]
    BY DEF PageInv, CountsServed
  <2>2. pages[q].conversions \in Nat /\ clicked[q] \in Nat
    BY PageFields DEF PageInv, PageTypes
  <2>3. CASE q \in hit
    BY <1>1, <1>3, <2>1, <2>2, <2>3
  <2>4. CASE q \notin hit
    BY <1>1, <2>1, <2>2, <2>4
  <2> QED
    BY <2>3, <2>4
<1> QED
  BY <1>4, <1>5, <1>7, <1>8, <1>9, OnlyPages DEF L!Convert, PageInv, PageTypes

LEMMA NextPages == ASSUME NullIsNone PROVE PageInv /\ [L!Next]_(L!vars) => PageInv'
<1> SUFFICES ASSUME PageInv, [L!Next]_(L!vars) PROVE PageInv'
  OBVIOUS
<1>0. \A p \in PageIds : served[p] \in Nat /\ served[p] <= served[p]
  BY DEF PageInv, PageTypes
<1>1. ASSUME NEW h \in Workers, NEW c \in Companies, NEW s \in Slugs, L!CreateCheck(h, c, s)
      PROVE  PageInv'
  <2> DEFINE r == [op |-> "create", company |-> c, slug |-> s]
  <2>1. r \in Acting /\ r.op = "create"
    BY DEF Acting
  <2> QED
    BY <1>0, <1>1, <2>1, HeldTyped, OnlyActs DEF L!CreateCheck, L!Hold, PageInv, PageTypes
<1>2. ASSUME NEW h \in Workers, NEW p \in PageIds, NEW e \in L!Edits, L!EditCheck(h, p, e)
      PROVE  PageInv'
  <2> DEFINE r == [op |-> "edit", page |-> p, change |-> e]
  <2>1. r \in Acting /\ r.op = "edit" /\ r.page = p
    BY DEF Acting
  <2> QED
    BY <1>0, <1>2, <2>1, HeldTyped, OnlyActs DEF L!EditCheck, L!Hold, PageInv, PageTypes
<1>3. ASSUME NEW h \in Workers, NEW s \in Slugs, L!VisitRead(h, s) PROVE PageInv'
  <2>1. PICK p \in PageIds :
           /\ pages[p].slug = s
           /\ act' = [act EXCEPT ![h] = [op |-> "visit", page |-> p, count |-> pages[p].visits + 1]]
           /\ served' = [served EXCEPT ![p] = @ + 1]
           /\ UNCHANGED <<pages, clicked>>
    BY <1>3 DEF L!VisitRead
  <2> DEFINE r == [op |-> "visit", page |-> p, count |-> pages[p].visits + 1]
  <2>2. pages[p].visits \in Nat /\ L!Exists(p) /\ pages[p].visits <= served[p]
    BY <2>1, PageFields DEF NullIsNone, L!Exists, L!NoPage, PageInv, PageTypes, CountsServed
  <2>3. r \in Acting /\ r.op = "visit" /\ r.page = p /\ r.count = pages[p].visits + 1
    BY <2>2 DEF Acting
  <2>4. served' \in [PageIds -> Nat] /\ served'[p] = served[p] + 1
        /\ \A q \in PageIds : served[q] <= served'[q]
    BY <1>0, <2>1 DEF PageInv, PageTypes
  <2>5. r.count <= served'[p]
    BY <1>0, <2>2, <2>3, <2>4
  <2>6. \A g \in Workers : g # h => act'[g] = act[g]
    BY <2>1 DEF PageInv, PageTypes
  <2>7. act'[h] = r /\ act' \in [Workers -> Acting]
    BY <2>1, <2>3, HeldTyped
  <2> QED
    BY <2>1, <2>2, <2>3, <2>4, <2>5, <2>6, <2>7, OnlyActs
<1>4. ASSUME NEW h \in Workers, L!CreateCommit(h) \/ L!EditCommit(h) \/ L!VisitWrite(h) PROVE PageInv'
  BY <1>4, CreateCommitPages, EditCommitPages, VisitWritePages
<1>5. ASSUME NEW h \in Workers, L!Abort(h) PROVE PageInv'
  BY <1>0, <1>5, HeldTyped, OnlyActs DEF L!Abort, L!Done, PageInv, PageTypes
<1>6. ASSUME NEW s \in Slugs, L!Convert(s) PROVE PageInv'
  BY <1>6, ConvertPages
<1>7. CASE UNCHANGED L!vars
  BY <1>0, <1>7, OnlyActs DEF L!vars, PageInv, PageTypes
<1> QED
  BY <1>1, <1>2, <1>3, <1>4, <1>5, <1>6, <1>7 DEF L!Next

LEMMA PagesCount == \A S : L!Cardinality(S) = Cardinality(S)
  BY DEF L!Cardinality, Cardinality

LEMMA PagesFollow == PageInv => L!PagesSound
<1> SUFFICES ASSUME PageInv, NEW s \in Slugs
             PROVE  Cardinality({p \in PageIds : pages[p].slug = s}) <= 1
  BY PagesCount DEF PageInv, CountsServed, L!PagesSound
<1> DEFINE S == {p \in PageIds : pages[p].slug = s}
<1>1. CASE S = {}
  BY <1>1, FS_EmptySet
<1>2. ASSUME NEW p \in S PROVE Cardinality(S) <= 1
  <2>1. S = {p}
    BY DEF PageInv, SlugsApart
  <2>2. Cardinality({p}) = 1
    BY FS_Singleton
  <2>3. Cardinality(S) = 1
    BY <2>1, <2>2
  <2> QED
    BY <2>3
<1> QED
  BY <1>1, <1>2

LEMMA PagesAlone == L!Spec => [](L!TypeOK /\ L!PagesSound)
<1>0. NullIsNone
    BY NullFits DEF NullIsNone
<1>1. L!Init => PageInv
    BY <1>0, InitPages
<1>2. PageInv /\ [L!Next]_(L!vars) => PageInv'
    BY <1>0, NextPages
<1>3. PageInv => L!TypeOK /\ L!PagesSound
    BY PagesFollow DEF PageInv, PageTypes
<1> QED BY <1>1, <1>2, <1>3, PTL DEF L!Spec

-----------------------------------------------------------------------------
(* Chatbot flows.  The closed form of a walk: what was visited and found    *)
(* has run, once, and the rest of what the first node leads to is still     *)
(* ahead of it.                                                             *)

Drawing == [nodes : Seq(NodeIds \X B!Kinds), edges : Seq(NodeIds \X NodeIds)]
FlowsFit == Drawings \subseteq Drawing

Flow == [drawn : {TRUE}, nodes : Seq(NodeIds \X B!Kinds), edges : Seq(NodeIds \X NodeIds),
         active : BOOLEAN, trigger : {"keyword", "message_received", "webhook"},
         count : Nat, born : Nat]

Walk == [on : {TRUE}, nodes : Seq(NodeIds \X B!Kinds), edges : Seq(NodeIds \X NodeIds),
         count : Nat, born : Nat, queue : Seq(NodeIds), visited : SUBSET NodeIds,
         done : Seq(NodeIds), tag : BOOLEAN, agent : BOOLEAN]

FlowTypes ==
    /\ flow \in Flow \cup {B!NoFlow}
    /\ walks \in [Workers -> Walk \cup {B!Free}]
    /\ drawings \in Nat /\ ended \in Nat /\ crossed \in BOOLEAN

(* An execution has run what it visited and found, once, and will visit     *)
(* what that leads to; it goes nowhere else.                                *)
Seen(w) == w.visited \cup B!ToSet(w.queue)
Running(w) ==
    /\ w.nodes # <<>>
    /\ B!ToSet(w.done) = w.visited \cap B!There(w)
    /\ \A i, j \in DOMAIN w.done : w.done[i] = w.done[j] => i = j
    /\ w.nodes[1][1] \in Seen(w)
    /\ \A k \in DOMAIN w.edges :
          w.edges[k][1] \in w.visited \cap B!There(w) => w.edges[k][2] \in Seen(w)
    /\ Seen(w) \cap B!There(w) \subseteq B!Reachable(w)

WalksRun == \A r \in Workers : walks[r] # B!Free => Running(walks[r])

(* The count an execution writes is not ahead of those that committed.      *)
CountsFit ==
    /\ flow # B!NoFlow => flow.born < drawings /\ flow.count <= ended /\ (crossed \/ flow.count = ended)
    /\ \A r \in Workers : walks[r] # B!Free =>
          /\ walks[r].born < drawings
          /\ flow # B!NoFlow /\ flow.born = walks[r].born =>
                walks[r].count <= ended /\ (crossed \/ walks[r].count = ended)
    /\ \A r, s \in Workers : walks[r] # B!Free /\ walks[s] # B!Free => r = s \/ crossed

FlowInv == FlowTypes /\ WalksRun /\ CountsFit

-----------------------------------------------------------------------------
LEMMA Fewer ==
    ASSUME NEW S, IsFiniteSet(S), NEW T \in SUBSET S, NEW x \in S, x \notin T
    PROVE  /\ IsFiniteSet(T) /\ Cardinality(T) \in Nat /\ Cardinality(S) \in Nat
           /\ Cardinality(T) < Cardinality(S)
<1>1. IsFiniteSet(T) /\ Cardinality(T) <= Cardinality(S) /\ Cardinality(S) # Cardinality(T)
    BY FS_Subset
<1>2. Cardinality(T) \in Nat /\ Cardinality(S) \in Nat
    BY <1>1, FS_CardinalityType
<1> QED BY <1>1, <1>2

LEMMA FlowsCount == \A S : B!Cardinality(S) = Cardinality(S)
  BY DEF B!Cardinality, Cardinality

(* The targets of a node's edges are those of its edges, in some order.     *)
LEMMA FollowsAre ==
    ASSUME NEW w, w.edges \in Seq(NodeIds \X NodeIds), NEW n
    PROVE  /\ B!Follows(w, n) \in Seq(NodeIds)
           /\ \A y : y \in B!ToSet(B!Follows(w, n)) <=> \E k \in B!Out(w, n) : y = w.edges[k][2]
<1> DEFINE O == B!Out(w, n)
           c == Cardinality(O)
           rank == [k \in O |-> Cardinality(B!Before(w, n, k))]
           pick(j) == CHOOSE k \in O : B!Cardinality(B!Before(w, n, k)) = j - 1
<1>1. O \subseteq 1..Len(w.edges) /\ O \subseteq Nat /\ IsFiniteSet(O) /\ c \in Nat
  <2>1. O \subseteq 1..Len(w.edges) /\ Len(w.edges) \in Nat
      BY DEF B!Out
  <2>2. IsFiniteSet(1..Len(w.edges))
      BY <2>1, FS_Interval
  <2> QED BY <2>1, <2>2, FS_Subset, FS_CardinalityType
<1>2. ASSUME NEW k \in O
      PROVE  /\ IsFiniteSet(B!Before(w, n, k)) /\ rank[k] \in 0..(c - 1)
  <2>1. B!Before(w, n, k) \subseteq O /\ k \in O /\ k \notin B!Before(w, n, k)
      BY <1>1 DEF B!Before
  <2>2. /\ IsFiniteSet(B!Before(w, n, k)) /\ Cardinality(B!Before(w, n, k)) < c
        /\ Cardinality(B!Before(w, n, k)) \in Nat
    <3> HIDE DEF O
    <3> QED BY <1>1, <2>1, Fewer
  <2>3. rank[k] = Cardinality(B!Before(w, n, k))
      OBVIOUS
  <2> HIDE DEF c, rank
  <2> QED BY <1>1, <2>2, <2>3
<1>3. ASSUME NEW k \in O, NEW l \in O, k < l
      PROVE  rank[k] < rank[l]
  <2>1. B!Before(w, n, k) \subseteq B!Before(w, n, l) /\ k \in B!Before(w, n, l) /\ k \notin B!Before(w, n, k)
      BY <1>1, <1>3 DEF B!Before
  <2>2. Cardinality(B!Before(w, n, k)) < Cardinality(B!Before(w, n, l))
      BY <1>2, <2>1, Fewer
  <2> QED BY <2>2
<1>4. rank \in Injection(O, 0..(c - 1))
  <2>1. rank \in [O -> 0..(c - 1)]
      BY <1>2
  <2>2. ASSUME NEW k \in O, NEW l \in O, rank[k] = rank[l] PROVE k = l
    <3>1. rank[k] \in Int /\ rank[l] \in Int
        BY <1>1, <2>1
    <3>2. ~(k < l) /\ ~(l < k)
      <4> HIDE DEF rank, O
      <4> QED BY <1>3, <2>2, <3>1
    <3> QED BY <1>1, <3>2
  <2> HIDE DEF rank
  <2> QED BY <2>1, <2>2 DEF Injection, IsInjective
<1>5. rank \in Surjection(O, 0..(c - 1))
  <2>1. IsFiniteSet(0..(c - 1)) /\ Cardinality(0..(c - 1)) = c
    <3> HIDE DEF c
    <3>1. IsFiniteSet(0..(c - 1)) /\ Cardinality(0..(c - 1)) = IF 0 > c - 1 THEN 0 ELSE (c - 1) - 0 + 1
        BY <1>1, FS_Interval
    <3> QED BY <1>1, <3>1
  <2> HIDE DEF rank
  <2> QED BY <1>1, <1>4, <2>1, FS_Injection
<1>6. ASSUME NEW j \in 1..c
      PROVE  pick(j) \in O /\ rank[pick(j)] = j - 1
  <2>1. j - 1 \in 0..(c - 1)
      BY <1>1
  <2>2. \E k \in O : rank[k] = j - 1
      BY <1>5, <2>1 DEF Surjection
  <2>3. \E k \in O : B!Cardinality(B!Before(w, n, k)) = j - 1
      BY <2>2, FlowsCount
  <2>4. pick(j) \in O /\ B!Cardinality(B!Before(w, n, pick(j))) = j - 1
      BY <2>3
  <2>5. pick(j) \in O /\ Cardinality(B!Before(w, n, pick(j))) = j - 1
      BY <2>4, FlowsCount
  <2> QED BY <2>5
<1>7. ASSUME NEW k \in O
      PROVE  rank[k] + 1 \in 1..c /\ pick(rank[k] + 1) = k
  <2>1. rank[k] + 1 \in 1..c /\ (rank[k] + 1) - 1 = rank[k]
      BY <1>1, <1>2
  <2>2. pick(rank[k] + 1) \in O /\ rank[pick(rank[k] + 1)] = rank[k]
      BY <1>6, <2>1
  <2> HIDE DEF rank, pick
  <2> QED BY <1>4, <2>1, <2>2 DEF Injection, IsInjective
<1>8. B!Follows(w, n) = [j \in 1..c |-> w.edges[pick(j)][2]]
  <2>1. c = B!Cardinality(B!Out(w, n))
      BY FlowsCount
  <2> HIDE DEF c
  <2> QED BY <2>1 DEF B!Follows
<1>9. \A k \in O : w.edges[k][2] \in NodeIds
  <2>1. \A k \in O : w.edges[k] \in NodeIds \X NodeIds
      BY <1>1
  <2> QED BY <2>1
<1> HIDE DEF pick, c, rank
<1>10. B!Follows(w, n) \in Seq(NodeIds) /\ DOMAIN B!Follows(w, n) = 1..c
    BY <1>1, <1>6, <1>8, <1>9
<1>11. ASSUME NEW y, y \in B!ToSet(B!Follows(w, n)) PROVE \E k \in O : y = w.edges[k][2]
  <2>1. PICK j \in 1..c : y = w.edges[pick(j)][2]
      BY <1>8, <1>11 DEF B!ToSet
  <2> QED BY <1>6, <2>1
<1>12. ASSUME NEW k \in O PROVE w.edges[k][2] \in B!ToSet(B!Follows(w, n))
  <2>1. B!Follows(w, n)[rank[k] + 1] = w.edges[k][2] /\ rank[k] + 1 \in DOMAIN B!Follows(w, n)
      BY <1>7, <1>8, <1>10
  <2> QED BY <2>1 DEF B!ToSet
<1> QED BY <1>10, <1>11, <1>12

(* The last node of an id is there if any is.                               *)
LEMMA NodeOfIs ==
    ASSUME NEW w, w.nodes \in Seq(NodeIds \X B!Kinds), NEW n
    PROVE  {m[2] : m \in B!NodeOf(w, n)} = {} <=> n \notin B!There(w)
<1> DEFINE K == {i \in DOMAIN w.nodes : w.nodes[i][1] = n}
           Dist == {Len(w.nodes) - i : i \in K}
<1>1. K \subseteq 1..Len(w.nodes) /\ Len(w.nodes) \in Nat
    OBVIOUS
<1>2. n \in B!There(w) <=> K # {}
    BY DEF B!There
<1>3. ASSUME K # {} PROVE \E i \in K : \A j \in K : j <= i
  <2>1. Dist \subseteq Nat /\ Dist # {}
    <3> HIDE DEF K
    <3>1. \A i \in K : Len(w.nodes) - i \in Nat
        BY <1>1
    <3> QED BY <1>3, <3>1
  <2>2. PICK d \in Dist : \A x \in Dist : ~ (<<x, d>> \in OpToRel(<, Nat))
      BY <2>1, NatLessThanWellFounded, WFMin
  <2>3. \A x \in Dist : ~ (x < d)
      BY <2>1, <2>2 DEF OpToRel
  <2>4. PICK i \in K : d = Len(w.nodes) - i
      OBVIOUS
  <2>5. \A j \in K : ~ (Len(w.nodes) - j < Len(w.nodes) - i)
      BY <2>3, <2>4
  <2> QED BY <1>1, <2>5
<1>4. B!NodeOf(w, n) = {w.nodes[k] : k \in {i \in K : \A j \in K : j <= i}}
    BY DEF B!NodeOf
<1> HIDE DEF K
<1> QED BY <1>2, <1>3, <1>4

LEMMA FlowInit == B!Init => FlowInv
<1> SUFFICES ASSUME B!Init PROVE FlowInv
    OBVIOUS
<1>1. \A r \in Workers : walks[r] = B!Free
    BY DEF B!Init
<1>2. FlowTypes
    BY DEF B!Init, FlowTypes
<1>3. WalksRun
    BY <1>1 DEF WalksRun
<1>4. CountsFit
    BY <1>1 DEF CountsFit, B!Init
<1> QED BY <1>2, <1>3, <1>4 DEF FlowInv

-----------------------------------------------------------------------------
(* Steps of an execution *)

LEMMA WalkIs ==
    ASSUME FlowTypes, NEW r \in Workers
    PROVE  /\ B!Free \notin Walk
           /\ walks[r] # B!Free <=> walks[r] \in Walk
           /\ walks[r].on <=> walks[r] # B!Free
           /\ walks[r].on => walks[r] \in Walk
<1>1. B!Free \notin Walk /\ ~B!Free.on
    BY DEF B!Free, Walk
<1>2. walks[r] \in Walk \/ walks[r] = B!Free
    BY DEF FlowTypes
<1>3. walks[r] \in Walk => walks[r].on
    BY DEF Walk
<1> QED BY <1>1, <1>2, <1>3

LEMMA FlowIs == B!NoFlow \notin Flow
BY DEF B!NoFlow, Flow

LEMMA WalkFields ==
    ASSUME NEW w \in Walk
    PROVE  /\ w.nodes \in Seq(NodeIds \X B!Kinds) /\ w.edges \in Seq(NodeIds \X NodeIds)
           /\ w.count \in Nat /\ w.born \in Nat /\ w.queue \in Seq(NodeIds)
           /\ w.visited \subseteq NodeIds /\ w.done \in Seq(NodeIds)
           /\ w.tag \in BOOLEAN /\ w.agent \in BOOLEAN /\ w.on = TRUE
BY DEF Walk

(* The part of a row or an execution the walk goes by.                      *)
LEMMA SameGraph ==
    ASSUME NEW w, NEW v, w.nodes = v.nodes, w.edges = v.edges
    PROVE  B!There(w) = B!There(v) /\ B!Reachable(w) = B!Reachable(v)
BY DEF B!There, B!Reachable, B!Closed

LEMMA ReachOn ==
    ASSUME NEW w, NEW k \in DOMAIN w.edges, w.edges[k][1] \in B!Reachable(w),
           w.edges[k][2] \in B!There(w)
    PROVE  w.edges[k][2] \in B!Reachable(w)
BY DEF B!Reachable, B!Closed

LEMMA QueueIs ==
    ASSUME NEW q \in Seq(NodeIds), q # <<>>
    PROVE  /\ Head(q) \in NodeIds /\ Tail(q) \in Seq(NodeIds)
           /\ B!ToSet(q) = {Head(q)} \cup B!ToSet(Tail(q))
<1>1. Head(q) \in NodeIds /\ Tail(q) \in Seq(NodeIds) /\ Len(q) \in Nat /\ Len(q) > 0
    OBVIOUS
<1>2. \A i \in DOMAIN q : i = 1 \/ (i - 1 \in DOMAIN Tail(q) /\ Tail(q)[i - 1] = q[i])
    OBVIOUS
<1>3. \A i \in DOMAIN Tail(q) : i + 1 \in DOMAIN q /\ q[i + 1] = Tail(q)[i]
    OBVIOUS
<1>4. 1 \in DOMAIN q /\ q[1] = Head(q)
    OBVIOUS
<1> QED BY <1>2, <1>3, <1>4 DEF B!ToSet

LEMMA JoinIs ==
    ASSUME NEW p \in Seq(NodeIds), NEW q \in Seq(NodeIds)
    PROVE  p \o q \in Seq(NodeIds) /\ B!ToSet(p \o q) = B!ToSet(p) \cup B!ToSet(q)
<1>1. p \o q \in Seq(NodeIds) /\ Len(p \o q) = Len(p) + Len(q)
    OBVIOUS
<1>2. \A i \in DOMAIN p : i \in DOMAIN (p \o q) /\ (p \o q)[i] = p[i]
    OBVIOUS
<1>3. \A i \in DOMAIN q : Len(p) + i \in DOMAIN (p \o q) /\ (p \o q)[Len(p) + i] = q[i]
    OBVIOUS
<1>4. \A i \in DOMAIN (p \o q) : \/ i \in DOMAIN p
                                 \/ i - Len(p) \in DOMAIN q /\ (p \o q)[i] = q[i - Len(p)]
    OBVIOUS
<1> DEFINE s == p \o q
<1> HIDE DEF s
<1>5. B!ToSet(s) \subseteq B!ToSet(p) \cup B!ToSet(q)
  <2> SUFFICES ASSUME NEW i \in DOMAIN s PROVE s[i] \in B!ToSet(p) \cup B!ToSet(q)
      BY DEF B!ToSet
  <2>1. CASE i \in DOMAIN p
    <3>1. s[i] = p[i]
        BY <1>2, <2>1 DEF s
    <3> QED BY <2>1, <3>1 DEF B!ToSet
  <2>2. CASE i \notin DOMAIN p
    <3>1. i - Len(p) \in DOMAIN q /\ s[i] = q[i - Len(p)]
        BY <1>4, <2>2 DEF s
    <3> QED BY <3>1 DEF B!ToSet
  <2> QED BY <2>1, <2>2
<1>6. ASSUME NEW x \in B!ToSet(p) \cup B!ToSet(q) PROVE x \in B!ToSet(s)
  <2>1. CASE x \in B!ToSet(p)
    <3>1. PICK i \in DOMAIN p : x = p[i]
        BY <2>1 DEF B!ToSet
    <3>2. i \in DOMAIN s /\ s[i] = x
        BY <1>2, <3>1 DEF s
    <3> QED BY <3>2 DEF B!ToSet
  <2>2. CASE x \in B!ToSet(q)
    <3>1. PICK i \in DOMAIN q : x = q[i]
        BY <2>2 DEF B!ToSet
    <3>2. Len(p) + i \in DOMAIN s /\ s[Len(p) + i] = x
        BY <1>3, <3>1 DEF s
    <3> QED BY <3>2 DEF B!ToSet
  <2> QED BY <2>1, <2>2
<1>7. B!ToSet(s) = B!ToSet(p) \cup B!ToSet(q)
    BY <1>5, <1>6
<1> QED BY <1>1, <1>7 DEF s

LEMMA AddedIs ==
    ASSUME NEW p \in Seq(NodeIds), NEW n \in NodeIds, n \notin B!ToSet(p),
           \A i, j \in DOMAIN p : p[i] = p[j] => i = j
    PROVE  /\ Append(p, n) \in Seq(NodeIds) /\ B!ToSet(Append(p, n)) = B!ToSet(p) \cup {n}
           /\ \A i, j \in DOMAIN Append(p, n) : Append(p, n)[i] = Append(p, n)[j] => i = j
<1> DEFINE q == Append(p, n)
<1>1. /\ q \in Seq(NodeIds) /\ Len(q) = Len(p) + 1 /\ q[Len(p) + 1] = n
      /\ \A i \in DOMAIN p : i \in DOMAIN q /\ q[i] = p[i]
      /\ \A i \in DOMAIN q : i \in DOMAIN p \/ i = Len(p) + 1
      /\ Len(p) + 1 \in DOMAIN q /\ Len(p) + 1 \notin DOMAIN p
    OBVIOUS
<1> HIDE DEF q
<1>2. B!ToSet(q) = B!ToSet(p) \cup {n}
    BY <1>1 DEF B!ToSet
<1>3. \A i \in DOMAIN p : p[i] # n
    BY DEF B!ToSet
<1>4. \A i, j \in DOMAIN q : q[i] = q[j] => i = j
    BY <1>1, <1>3
<1> QED BY <1>1, <1>2, <1>4 DEF q

(* One execution moves on, and nothing else changes.                        *)
LEMMA WalkMoves ==
    ASSUME FlowInv, NEW r \in Workers, walks[r] \in Walk, NEW v \in Walk, Running(v),
           v.count = walks[r].count, v.born = walks[r].born,
           walks' = [walks EXCEPT ![r] = v], UNCHANGED <<flow, drawings, ended, crossed>>
    PROVE  FlowInv'
<1>1. FlowTypes'
    BY DEF FlowInv, FlowTypes
<1>2. walks'[r] = v /\ \A o \in Workers \ {r} : walks'[o] = walks[o]
    BY DEF FlowInv, FlowTypes
<1>3. WalksRun'
    BY <1>2 DEF FlowInv, WalksRun
<1>4. walks[r] # B!Free
    BY WalkIs DEF FlowInv
<1>5. CountsFit'
    BY <1>2, <1>4 DEF FlowInv, CountsFit
<1> QED BY <1>1, <1>3, <1>5 DEF FlowInv

LEMMA SkipFlow == ASSUME FlowInv, NEW r \in Workers, B!Skip(r) PROVE FlowInv'
<1> DEFINE w == walks[r]
           v == [w EXCEPT !.queue = Tail(w.queue)]
<1>1. /\ w.on /\ w.queue # <<>> /\ Head(w.queue) \in w.visited
      /\ walks' = [walks EXCEPT ![r] = v] /\ UNCHANGED <<flow, drawings, ended, crossed>>
    BY DEF B!Skip, B!Fresh
<1>2. w \in Walk
    BY <1>1, WalkIs DEF FlowInv
<1>3. /\ v \in Walk /\ v.nodes = w.nodes /\ v.edges = w.edges /\ v.count = w.count /\ v.born = w.born
      /\ v.visited = w.visited /\ v.done = w.done /\ v.queue = Tail(w.queue)
  <2>1. Tail(w.queue) \in Seq(NodeIds)
      BY <1>1, <1>2, WalkFields, QueueIs
  <2> HIDE DEF w
  <2> QED BY <1>2, <2>1 DEF Walk
<1>4. Running(w)
    BY <1>2, WalkIs DEF FlowInv, WalksRun
<1>5. Seen(v) = Seen(w)
  <2>1. B!ToSet(w.queue) = {Head(w.queue)} \cup B!ToSet(Tail(w.queue))
      BY <1>1, <1>2, WalkFields, QueueIs
  <2> HIDE DEF v, w
  <2> QED BY <1>1, <1>3, <2>1 DEF Seen
<1>6. B!There(v) = B!There(w) /\ B!Reachable(v) = B!Reachable(w)
    BY <1>3, SameGraph
<1> HIDE DEF v, w
<1>7. Running(v)
    BY <1>3, <1>4, <1>5, <1>6 DEF Running
<1> QED BY <1>1, <1>2, <1>3, <1>7, WalkMoves DEF w

(* What a visit makes of an execution: n had not been visited, and there    *)
(* tells whether the drawing has it.                                        *)
LEMMA Visited ==
    ASSUME NEW w \in Walk, Running(w), w.queue # <<>>, B!Fresh(w), NEW v \in Walk,
           v.nodes = w.nodes, v.edges = w.edges,
           v.visited = w.visited \cup {Head(w.queue)},
           \/ /\ Head(w.queue) \notin B!There(w) /\ v.done = w.done
              /\ v.queue = Tail(w.queue) \o <<>>
           \/ /\ Head(w.queue) \in B!There(w) /\ v.done = Append(w.done, Head(w.queue))
              /\ v.queue = Tail(w.queue) \o B!Follows(w, Head(w.queue))
    PROVE  Running(v)
<1> DEFINE n == Head(w.queue)
           more == B!ToSet(v.queue) \ B!ToSet(Tail(w.queue))
<1>1. /\ n \in NodeIds /\ Tail(w.queue) \in Seq(NodeIds)
      /\ B!ToSet(w.queue) = {n} \cup B!ToSet(Tail(w.queue)) /\ n \notin w.visited
    BY WalkFields, QueueIs DEF B!Fresh
<1>2. B!There(v) = B!There(w) /\ B!Reachable(v) = B!Reachable(w)
    BY SameGraph
<1>3. /\ w.nodes # <<>> /\ B!ToSet(w.done) = w.visited \cap B!There(w)
      /\ \A i, j \in DOMAIN w.done : w.done[i] = w.done[j] => i = j
      /\ w.nodes[1][1] \in Seen(w)
      /\ \A k \in DOMAIN w.edges :
            w.edges[k][1] \in w.visited \cap B!There(w) => w.edges[k][2] \in Seen(w)
      /\ Seen(w) \cap B!There(w) \subseteq B!Reachable(w)
    BY DEF Running
<1>4. w.done \in Seq(NodeIds) /\ w.edges \in Seq(NodeIds \X NodeIds)
    BY WalkFields
<1>5. CASE n \notin B!There(w) /\ v.done = w.done /\ v.queue = Tail(w.queue) \o <<>>
  <2>1. v.queue = Tail(w.queue)
      BY <1>1, <1>5
  <2>2. Seen(v) = Seen(w)
      BY <1>1, <2>1 DEF Seen
  <2>3. v.visited \cap B!There(w) = w.visited \cap B!There(w)
      BY <1>5
  <2> HIDE DEF n
  <2> QED BY <1>2, <1>3, <1>5, <2>2, <2>3 DEF Running
<1>6. CASE n \in B!There(w) /\ v.done = Append(w.done, n) /\ v.queue = Tail(w.queue) \o B!Follows(w, n)
  <2>1. /\ B!Follows(w, n) \in Seq(NodeIds)
        /\ \A y : y \in B!ToSet(B!Follows(w, n)) <=> \E k \in B!Out(w, n) : y = w.edges[k][2]
    <3> HIDE DEF n
    <3> QED BY <1>4, FollowsAre
  <2>2. B!ToSet(v.queue) = B!ToSet(Tail(w.queue)) \cup B!ToSet(B!Follows(w, n))
      BY <1>1, <1>6, <2>1, JoinIs
  <2>3. Seen(v) = Seen(w) \cup B!ToSet(B!Follows(w, n))
    <3>1. v.visited = w.visited \cup {n}
        OBVIOUS
    <3> HIDE DEF n
    <3> QED BY <1>1, <2>2, <3>1 DEF Seen
  <2>4. n \notin B!ToSet(w.done)
      BY <1>1, <1>3
  <2>5. /\ B!ToSet(v.done) = B!ToSet(w.done) \cup {n}
        /\ \A i, j \in DOMAIN v.done : v.done[i] = v.done[j] => i = j
    <3> HIDE DEF n
    <3>1. /\ B!ToSet(Append(w.done, n)) = B!ToSet(w.done) \cup {n}
          /\ \A i, j \in DOMAIN Append(w.done, n) :
                Append(w.done, n)[i] = Append(w.done, n)[j] => i = j
        BY <1>1, <1>3, <1>4, <2>4, AddedIs
    <3> DEFINE d == Append(w.done, n)
    <3>2. v.done = d
        BY <1>6
    <3> HIDE DEF d
    <3> QED BY <3>1, <3>2 DEF d
  <2>6. B!ToSet(v.done) = v.visited \cap B!There(v)
      BY <1>2, <1>3, <1>6, <2>5
  <2>7. ASSUME NEW k \in DOMAIN w.edges, w.edges[k][1] \in v.visited \cap B!There(w)
        PROVE  w.edges[k][2] \in Seen(v)
    <3>1. CASE w.edges[k][1] = n
        BY <2>1, <2>3, <3>1 DEF B!Out
    <3>2. CASE w.edges[k][1] # n
        BY <1>3, <2>3, <2>7, <3>2
    <3> QED BY <3>1, <3>2
  <2>8. Seen(v) \cap B!There(w) \subseteq B!Reachable(w)
    <3> SUFFICES ASSUME NEW y \in B!ToSet(B!Follows(w, n)), y \in B!There(w) PROVE y \in B!Reachable(w)
        BY <1>3, <2>3
    <3>1. PICK k \in B!Out(w, n) : y = w.edges[k][2]
        BY <2>1
    <3>2. n \in B!Reachable(w)
        BY <1>1, <1>3, <1>6 DEF Seen
    <3>3. k \in DOMAIN w.edges /\ w.edges[k][1] = n
        BY DEF B!Out
    <3> QED BY <3>1, <3>2, <3>3, ReachOn
  <2> HIDE DEF n
  <2> QED BY <1>2, <1>3, <2>3, <2>5, <2>6, <2>7, <2>8 DEF Running
<1> QED BY <1>5, <1>6

LEMMA VisitFlow == ASSUME FlowInv, NEW r \in Workers, B!Visit(r) PROVE FlowInv'
<1> DEFINE w == walks[r]
           n == Head(w.queue)
           kinds == {m[2] : m \in B!NodeOf(w, n)}
           v == [w EXCEPT !.visited = w.visited \cup {n},
                          !.done = IF kinds = {} THEN w.done ELSE Append(w.done, n),
                          !.tag = w.tag \/ "add_tag" \in kinds,
                          !.agent = w.agent \/ "assign_agent" \in kinds,
                          !.queue = Tail(w.queue) \o (IF kinds = {} THEN <<>> ELSE B!Follows(w, n))]
<1>1. /\ w.on /\ w.queue # <<>> /\ B!Fresh(w)
      /\ walks' = [walks EXCEPT ![r] = v] /\ UNCHANGED <<flow, drawings, ended, crossed>>
    BY DEF B!Visit
<1>2. w \in Walk
    BY <1>1, WalkIs DEF FlowInv
<1>3. Running(w)
    BY <1>2, WalkIs DEF FlowInv, WalksRun
<1>4. kinds = {} <=> n \notin B!There(w)
  <2>1. w.nodes \in Seq(NodeIds \X B!Kinds)
      BY <1>2, WalkFields
  <2> HIDE DEF w, n
  <2> QED BY <2>1, NodeOfIs
<1> DEFINE done == IF kinds = {} THEN w.done ELSE Append(w.done, n)
           queued == Tail(w.queue) \o (IF kinds = {} THEN <<>> ELSE B!Follows(w, n))
           tag == w.tag \/ "add_tag" \in kinds
           agent == w.agent \/ "assign_agent" \in kinds
<1>5. /\ n \in NodeIds /\ done \in Seq(NodeIds) /\ queued \in Seq(NodeIds)
      /\ tag \in BOOLEAN /\ agent \in BOOLEAN
  <2>1. n \in NodeIds /\ Tail(w.queue) \in Seq(NodeIds) /\ w.done \in Seq(NodeIds)
      BY <1>1, <1>2, WalkFields, QueueIs
  <2>2. w.edges \in Seq(NodeIds \X NodeIds)
      BY <1>2, WalkFields
  <2> HIDE DEF w, n, kinds
  <2>3. B!Follows(w, n) \in Seq(NodeIds)
      BY <2>2, FollowsAre
  <2>4. <<>> \in Seq(NodeIds)
      OBVIOUS
  <2> QED BY <2>1, <2>3, <2>4, JoinIs
<1>6. v = [w EXCEPT !.visited = w.visited \cup {n}, !.done = done, !.tag = tag, !.agent = agent,
                    !.queue = queued]
    OBVIOUS
<1>7. /\ v \in Walk /\ v.nodes = w.nodes /\ v.edges = w.edges /\ v.count = w.count /\ v.born = w.born
      /\ v.visited = w.visited \cup {n} /\ v.done = done /\ v.queue = queued
  <2> HIDE DEF v, w, n, done, queued, tag, agent
  <2> QED BY <1>2, <1>5, <1>6 DEF Walk
<1>8. Running(v)
  <2>1. \/ n \notin B!There(w) /\ done = w.done /\ queued = Tail(w.queue) \o <<>>
        \/ n \in B!There(w) /\ done = Append(w.done, n) /\ queued = Tail(w.queue) \o B!Follows(w, n)
      BY <1>4
  <2> HIDE DEF v, w, done, queued, tag, agent, kinds
  <2> QED BY <1>1, <1>2, <1>3, <1>7, <2>1, Visited
<1> HIDE DEF v
<1> QED BY <1>1, <1>2, <1>7, <1>8, WalkMoves

-----------------------------------------------------------------------------
(* The other steps *)

LEMMA DrawingFields ==
    ASSUME FlowsFit, NEW d \in Drawings
    PROVE  d.nodes \in Seq(NodeIds \X B!Kinds) /\ d.edges \in Seq(NodeIds \X NodeIds)
BY DEF FlowsFit, Drawing

LEMMA CreateFlowFlow ==
    ASSUME FlowsFit, FlowInv, NEW d \in Drawings,
           NEW t \in {"keyword", "message_received", "webhook"}, B!CreateFlow(d, t)
    PROVE  FlowInv'
<1>1. /\ drawings' = drawings + 1 /\ ended' = 0 /\ UNCHANGED <<walks, crossed>>
      /\ flow' = [drawn |-> TRUE, nodes |-> d.nodes, edges |-> d.edges, active |-> FALSE,
                  trigger |-> t, count |-> 0, born |-> drawings]
    BY DEF B!CreateFlow, B!Edit
<1>2. drawings \in Nat
    BY DEF FlowInv, FlowTypes
<1>3. flow' \in Flow
    BY <1>1, <1>2, DrawingFields DEF Flow
<1>4. FlowTypes'
    BY <1>1, <1>2, <1>3 DEF FlowInv, FlowTypes
<1>5. WalksRun'
    BY <1>1 DEF FlowInv, WalksRun
<1>6. flow'.born = drawings /\ flow'.count = 0
    BY <1>1
<1>7. ASSUME NEW r \in Workers, walks[r] # B!Free
      PROVE  walks[r].born \in Nat /\ walks[r].born < drawings
    BY <1>7, WalkIs, WalkFields DEF FlowInv, CountsFit
<1>8. CountsFit'
  <2>1. flow' # B!NoFlow => flow'.born < drawings' /\ flow'.count <= ended' /\ flow'.count = ended'
      BY <1>1, <1>2, <1>6
  <2>2. \A r \in Workers : walks[r] # B!Free =>
            /\ walks[r].born < drawings' /\ flow'.born # walks[r].born
      BY <1>1, <1>2, <1>6, <1>7
  <2>3. \A r, s \in Workers : walks[r] # B!Free /\ walks[s] # B!Free => r = s \/ crossed
      BY DEF FlowInv, CountsFit
  <2> QED BY <1>1, <2>1, <2>2, <2>3 DEF CountsFit
<1> QED BY <1>4, <1>5, <1>8 DEF FlowInv

(* Staff who edit a flow leave its count and when it was made.              *)
LEMMA EditFlow ==
    ASSUME FlowInv, drawings' = drawings + 1, UNCHANGED <<walks, crossed, ended>>,
           \/ flow' = B!NoFlow
           \/ /\ flow # B!NoFlow /\ flow' \in Flow
              /\ flow'.count = flow.count /\ flow'.born = flow.born
    PROVE  FlowInv'
<1>1. drawings \in Nat
    BY DEF FlowInv, FlowTypes
<1>2. FlowTypes'
    BY <1>1 DEF FlowInv, FlowTypes
<1>3. WalksRun'
    BY DEF FlowInv, WalksRun
<1>4. flow # B!NoFlow => flow.born \in Nat
    BY DEF FlowInv, FlowTypes, Flow
<1>5. \A r \in Workers : walks[r] # B!Free => walks[r].born \in Nat
    BY WalkIs, WalkFields DEF FlowInv
<1>6. flow' # B!NoFlow => flow'.born < drawings' /\ flow'.count <= ended /\ (crossed \/ flow'.count = ended)
    BY <1>1, <1>4 DEF FlowInv, CountsFit
<1>7. \A r \in Workers : walks[r] # B!Free =>
          /\ walks[r].born < drawings'
          /\ flow' # B!NoFlow /\ flow'.born = walks[r].born =>
                walks[r].count <= ended /\ (crossed \/ walks[r].count = ended)
    BY <1>1, <1>5 DEF FlowInv, CountsFit
<1>8. CountsFit'
    BY <1>6, <1>7 DEF FlowInv, CountsFit
<1> QED BY <1>2, <1>3, <1>8 DEF FlowInv

LEMMA StaffFlow ==
    ASSUME FlowsFit, FlowInv, NEW d \in Drawings, NEW a \in BOOLEAN,
           B!UpdateFlow(d, a)
    PROVE  FlowInv'
<1>1. /\ flow # B!NoFlow /\ drawings' = drawings + 1 /\ UNCHANGED <<walks, crossed, ended>>
      /\ flow' = [flow EXCEPT !.nodes = d.nodes, !.edges = d.edges, !.active = a]
    BY DEF B!UpdateFlow, B!Edit
<1>2. flow \in Flow
    BY <1>1 DEF FlowInv, FlowTypes
<1>3. flow' \in Flow /\ flow'.count = flow.count /\ flow'.born = flow.born
    BY <1>1, <1>2, DrawingFields DEF Flow
<1> QED BY <1>1, <1>3, EditFlow

LEMMA ToggleFlowFlow == ASSUME FlowInv, B!ToggleFlow PROVE FlowInv'
<1>1. /\ flow # B!NoFlow /\ drawings' = drawings + 1 /\ UNCHANGED <<walks, crossed, ended>>
      /\ flow' = [flow EXCEPT !.active = ~flow.active]
    BY DEF B!ToggleFlow, B!Edit
<1>2. flow \in Flow
    BY <1>1 DEF FlowInv, FlowTypes
<1>3. flow' \in Flow /\ flow'.count = flow.count /\ flow'.born = flow.born
    BY <1>1, <1>2 DEF Flow
<1> QED BY <1>1, <1>3, EditFlow

LEMMA BeginFlow ==
    ASSUME FlowInv, NEW r \in Workers, NEW keyword \in BOOLEAN, B!Begin(r, keyword)
    PROVE  FlowInv'
<1> DEFINE first == flow.nodes[1][1]
           w == [on |-> TRUE, nodes |-> flow.nodes, edges |-> flow.edges, count |-> flow.count,
                 born |-> flow.born, queue |-> <<first>>, visited |-> {}, done |-> <<>>,
                 tag |-> FALSE, agent |-> FALSE]
<1>1. /\ walks[r] = B!Free /\ flow # B!NoFlow /\ flow.nodes # <<>>
      /\ walks' = [walks EXCEPT ![r] = w] /\ crossed' = (crossed \/ B!Walking # {})
      /\ UNCHANGED <<flow, drawings, ended>>
    BY DEF B!Begin, B!Matches
<1>2. flow \in Flow
    BY <1>1 DEF FlowInv, FlowTypes
<1>3. flow.nodes \in Seq(NodeIds \X B!Kinds) /\ flow.edges \in Seq(NodeIds \X NodeIds)
      /\ flow.count \in Nat /\ flow.born \in Nat
    BY <1>2 DEF Flow
<1>4. 1 \in DOMAIN flow.nodes /\ first \in NodeIds
  <2>1. 1 \in DOMAIN flow.nodes
      BY <1>1, <1>3
  <2>2. flow.nodes[1] \in NodeIds \X B!Kinds
      BY <1>3, <2>1
  <2> QED BY <2>1, <2>2
<1>5. w \in Walk
  <2>1. <<first>> \in Seq(NodeIds) /\ <<>> \in Seq(NodeIds)
      BY <1>4
  <2> HIDE DEF first
  <2> QED BY <1>3, <2>1 DEF Walk
<1>6. Running(w)
  <2>1. B!ToSet(w.done) = {} /\ w.visited = {}
      BY DEF B!ToSet
  <2>2. B!ToSet(w.queue) = {first}
    <3>1. w.queue = <<first>>
        OBVIOUS
    <3> HIDE DEF w, first
    <3> QED BY <3>1 DEF B!ToSet
  <2>3. Seen(w) = {first} /\ w.nodes[1][1] = first /\ w.nodes # <<>>
      BY <1>1, <2>1, <2>2 DEF Seen
  <2>4. first \in B!There(w)
      BY <1>4 DEF B!There
  <2>5. first \in B!Reachable(w)
      BY <2>3, <2>4 DEF B!Reachable
  <2>6. DOMAIN w.done = {}
      OBVIOUS
  <2> HIDE DEF w, first
  <2> QED BY <2>1, <2>3, <2>5, <2>6 DEF Running
<1>7. w.count = flow.count /\ w.born = flow.born
    OBVIOUS
<1> HIDE DEF w
<1>8. walks'[r] = w /\ \A o \in Workers \ {r} : walks'[o] = walks[o]
    BY <1>1 DEF FlowInv, FlowTypes
<1>9. FlowTypes'
    BY <1>1, <1>5 DEF FlowInv, FlowTypes
<1>10. WalksRun'
    BY <1>6, <1>8 DEF FlowInv, WalksRun
<1>11. CountsFit'
  <2>1. flow # B!NoFlow => flow.born < drawings /\ flow.count <= ended /\ (crossed' \/ flow.count = ended)
      BY <1>1 DEF FlowInv, CountsFit
  <2>2. \A o \in Workers : walks'[o] # B!Free =>
          /\ walks'[o].born < drawings
          /\ flow # B!NoFlow /\ flow.born = walks'[o].born =>
                walks'[o].count <= ended /\ (crossed' \/ walks'[o].count = ended)
      BY <1>1, <1>7, <1>8, <2>1 DEF FlowInv, CountsFit
  <2>3. \A o \in Workers : walks[o] # B!Free => crossed'
      BY <1>1, WalkIs DEF B!Walking, FlowInv
  <2>4. \A o, s \in Workers : walks'[o] # B!Free /\ walks'[s] # B!Free => o = s \/ crossed'
      BY <1>8, <2>3
  <2> QED BY <1>1, <2>1, <2>2, <2>4 DEF CountsFit
<1> QED BY <1>9, <1>10, <1>11 DEF FlowInv

LEMMA CommitFlow == ASSUME FlowInv, NEW r \in Workers, B!Commit(r) PROVE FlowInv'
<1> DEFINE w == walks[r]
<1>1. /\ w.on /\ flow # B!NoFlow /\ flow.born = w.born
      /\ flow' = [flow EXCEPT !.count = w.count + 1]
      /\ walks' = [walks EXCEPT ![r] = B!Free] /\ ended' = ended + 1
      /\ UNCHANGED <<drawings, crossed>>
    BY DEF B!Commit
<1>2. w \in Walk /\ w # B!Free /\ w.count \in Nat /\ flow \in Flow /\ ended \in Nat
    BY <1>1, WalkIs, WalkFields DEF FlowInv, FlowTypes
<1>3. flow' \in Flow /\ flow'.count = w.count + 1 /\ flow'.born = flow.born
  <2> DEFINE c == w.count + 1
  <2>1. c \in Nat /\ flow' = [flow EXCEPT !.count = c]
      BY <1>1, <1>2
  <2> HIDE DEF c
  <2>2. flow' \in Flow /\ flow'.count = c /\ flow'.born = flow.born
      BY <1>2, <2>1 DEF Flow
  <2> QED BY <2>2 DEF c
<1>4. walks'[r] = B!Free /\ \A o \in Workers \ {r} : walks'[o] = walks[o]
    BY <1>1 DEF FlowInv, FlowTypes
<1>5. FlowTypes'
    BY <1>1, <1>2, <1>3 DEF FlowInv, FlowTypes
<1>6. WalksRun'
    BY <1>4 DEF FlowInv, WalksRun
<1>7. w.count <= ended /\ (crossed \/ w.count = ended) /\ flow.born < drawings
    BY <1>1, <1>2 DEF FlowInv, CountsFit
<1>8. \A o \in Workers : walks'[o] # B!Free => /\ walks'[o] = walks[o] /\ crossed
                                            /\ walks[o].count \in Nat
  <2> SUFFICES ASSUME NEW o \in Workers, walks'[o] # B!Free
               PROVE  walks'[o] = walks[o] /\ crossed /\ walks[o].count \in Nat
      OBVIOUS
  <2>1. o # r /\ walks'[o] = walks[o] /\ walks[o] # B!Free
      BY <1>4
  <2>2. crossed
      BY <1>2, <2>1 DEF FlowInv, CountsFit
  <2>3. walks[o].count \in Nat
      BY <2>1, WalkIs, WalkFields DEF FlowInv
  <2> QED BY <2>1, <2>2, <2>3
<1>9. ASSUME NEW o \in Workers, walks'[o] # B!Free
      PROVE  /\ walks'[o].born < drawings'
             /\ flow' # B!NoFlow /\ flow'.born = walks'[o].born =>
                   walks'[o].count <= ended' /\ (crossed' \/ walks'[o].count = ended')
  <2>1. walks'[o] = walks[o] /\ crossed /\ walks[o].count \in Nat
      BY <1>8, <1>9
  <2>2. walks[o].born < drawings /\ (flow.born = walks[o].born => walks[o].count <= ended)
      BY <1>1, <1>9, <2>1 DEF FlowInv, CountsFit
  <2> QED BY <1>1, <1>2, <1>3, <2>1, <2>2
<1>10. flow'.born < drawings' /\ flow'.count <= ended' /\ (crossed' \/ flow'.count = ended')
  <2>1. flow'.count <= ended' /\ (w.count = ended => flow'.count = ended')
      BY <1>1, <1>2, <1>3, <1>7
  <2> QED BY <1>1, <1>3, <1>7, <2>1
<1>11. \A o, s \in Workers : walks'[o] # B!Free /\ walks'[s] # B!Free => o = s \/ crossed'
    BY <1>1, <1>8
<1>12. CountsFit'
    BY <1>9, <1>10, <1>11 DEF CountsFit
<1> QED BY <1>5, <1>6, <1>12 DEF FlowInv

LEMMA AbortFlow == ASSUME FlowInv, NEW r \in Workers, B!Abort(r) PROVE FlowInv'
<1>1. walks' = [walks EXCEPT ![r] = B!Free] /\ UNCHANGED <<flow, drawings, ended, crossed>>
    BY DEF B!Abort
<1>2. walks'[r] = B!Free /\ \A o \in Workers \ {r} : walks'[o] = walks[o]
    BY <1>1 DEF FlowInv, FlowTypes
<1>3. FlowTypes'
    BY <1>1 DEF FlowInv, FlowTypes
<1>4. WalksRun' /\ CountsFit'
    BY <1>1, <1>2 DEF FlowInv, WalksRun, CountsFit
<1> QED BY <1>3, <1>4 DEF FlowInv

LEMMA FlowNext == ASSUME FlowsFit, FlowInv, [B!Next]_(B!vars) PROVE FlowInv'
<1>1. CASE UNCHANGED B!vars
    BY <1>1 DEF B!vars, FlowInv, FlowTypes, WalksRun, CountsFit
<1>2. CASE B!DeleteFlow
    BY <1>2, EditFlow DEF B!DeleteFlow, B!Edit
<1> QED BY <1>1, <1>2, CreateFlowFlow, StaffFlow, ToggleFlowFlow, BeginFlow, SkipFlow, VisitFlow,
           CommitFlow, AbortFlow DEF B!Next

LEMMA FlowFollows == ASSUME FlowInv PROVE B!FlowsSound
<1>1. B!CountHonest
    BY DEF FlowInv, CountsFit, B!CountHonest
<1>2. B!WalkComplete
  <2> SUFFICES ASSUME NEW r \in B!Walking
               PROVE  /\ \A i, j \in DOMAIN walks[r].done :
                            walks[r].done[i] = walks[r].done[j] => i = j
                      /\ walks[r].queue = <<>> => B!ToSet(walks[r].done) = B!Reachable(walks[r])
      BY DEF B!WalkComplete
  <2> DEFINE w == walks[r]
  <2>1. r \in Workers /\ w \in Walk /\ Running(w)
      BY WalkIs DEF B!Walking, FlowInv, WalksRun
  <2>2. ASSUME w.queue = <<>> PROVE B!ToSet(w.done) = B!Reachable(w)
    <3>1. B!ToSet(w.queue) = {}
        BY <2>2 DEF B!ToSet
    <3> HIDE DEF w
    <3>2. Seen(w) = w.visited
        BY <3>1 DEF Seen
    <3>3. B!ToSet(w.done) = w.visited \cap B!There(w) /\ B!ToSet(w.done) \subseteq B!Reachable(w)
        BY <2>1, <3>2 DEF Running
    <3>4. w.nodes[1][1] \in B!ToSet(w.done)
      <4>1. w.nodes \in Seq(NodeIds \X B!Kinds) /\ w.nodes # <<>>
          BY <2>1, WalkFields DEF Running
      <4>2. w.nodes[1][1] \in B!There(w)
          BY <4>1 DEF B!There
      <4> QED BY <2>1, <3>2, <3>3, <4>2 DEF Running
    <3>5. B!Closed(w, B!ToSet(w.done))
        BY <2>1, <3>2, <3>3 DEF Running, B!Closed
    <3>6. B!Reachable(w) \subseteq B!ToSet(w.done)
        BY <3>3, <3>4, <3>5 DEF B!Reachable
    <3> QED BY <3>3, <3>6
  <2>3. \A i, j \in DOMAIN w.done : w.done[i] = w.done[j] => i = j
      BY <2>1 DEF Running
  <2> QED BY <2>2, <2>3
<1> QED BY <1>1, <1>2 DEF B!FlowsSound

LEMMA FlowsTyped == ASSUME FlowTypes PROVE B!TypeOK
<1>1. flow # B!NoFlow => flow.count \in Nat /\ flow.active \in BOOLEAN
    BY DEF FlowTypes, Flow
<1>2. ASSUME NEW r \in B!Walking
      PROVE  walks[r].visited \subseteq NodeIds /\ walks[r].done \in Seq(NodeIds)
  <2>1. walks[r] \in Walk
      BY DEF B!Walking, FlowTypes, B!Free
  <2> QED BY <2>1 DEF Walk
<1> QED BY <1>1, <1>2 DEF B!TypeOK

LEMMA FlowsAlone == B!Spec => [](B!TypeOK /\ B!FlowsSound)
<1>0. FlowsFit
    BY DrawingsFit DEF FlowsFit, Drawing
<1>1. B!Init => FlowInv
    BY <1>0, FlowInit
<1>2. FlowInv /\ [B!Next]_(B!vars) => FlowInv'
    BY <1>0, FlowNext
<1>3. FlowInv => B!TypeOK /\ B!FlowsSound
    BY <1>0, FlowFollows, FlowsTyped DEF FlowInv
<1> QED BY <1>1, <1>2, <1>3, PTL DEF B!Spec

-----------------------------------------------------------------------------
(* A behaviour of Workspace is, for each part, one of that part.            *)
LEMMA IsContacts == Spec => C!Spec
<1>1. Init => C!Init
  BY DEF Init
<1>2. [Next]_<<part, contactsVars, automationVars, dealsVars, pagesVars, chatbotVars>> => [C!Next]_(C!vars)
  BY DEF Next, ContactsStep, AutomationStep, DealsStep, PagesStep, ChatbotsStep,
         contactsVars, C!vars
<1> QED
  BY <1>1, <1>2, PTL DEF Spec, C!Spec

LEMMA IsAutomation == Spec => M!Spec
<1>1. Init => M!Init
  BY DEF Init
<1>2. [Next]_<<part, contactsVars, automationVars, dealsVars, pagesVars, chatbotVars>> => [M!Next]_(M!vars)
  BY DEF Next, ContactsStep, AutomationStep, DealsStep, PagesStep, ChatbotsStep,
         automationVars, M!vars
<1> QED
  BY <1>1, <1>2, PTL DEF Spec, M!Spec

LEMMA IsDeals == Spec => D!Spec
<1>1. Init => D!Init
  BY DEF Init
<1>2. [Next]_<<part, contactsVars, automationVars, dealsVars, pagesVars, chatbotVars>> => [D!Next]_(D!vars)
  BY DEF Next, ContactsStep, AutomationStep, DealsStep, PagesStep, ChatbotsStep,
         dealsVars, D!vars
<1> QED
  BY <1>1, <1>2, PTL DEF Spec, D!Spec

LEMMA IsPages == Spec => L!Spec
<1>1. Init => L!Init
  BY DEF Init
<1>2. [Next]_<<part, contactsVars, automationVars, dealsVars, pagesVars, chatbotVars>> => [L!Next]_(L!vars)
  BY DEF Next, ContactsStep, AutomationStep, DealsStep, PagesStep, ChatbotsStep,
         pagesVars, L!vars
<1> QED
  BY <1>1, <1>2, PTL DEF Spec, L!Spec

LEMMA IsChatbots == Spec => B!Spec
<1>1. Init => B!Init
  BY DEF Init
<1>2. [Next]_<<part, contactsVars, automationVars, dealsVars, pagesVars, chatbotVars>> => [B!Next]_(B!vars)
  BY DEF Next, ContactsStep, AutomationStep, DealsStep, PagesStep, ChatbotsStep,
         chatbotVars, B!vars
<1> QED
  BY <1>1, <1>2, PTL DEF Spec, B!Spec

(* However many requests of the contact page and chunks of an import are    *)
(* between SELECT and commit, for any files and any sizes: a phone finds at *)
(* most one contact, an import that reports no error has updated or stored  *)
(* a contact for every row of its file, and only an edit that had read a    *)
(* contact before its deletion still writes into it, never its phone.       *)
THEOREM ContactsHold == Spec => ContactsSound
<1>1. C!TypeOK /\ C!PhonesUnambiguous /\ C!CleanReportTrue =>
        (part = "contacts" => C!PhonesUnambiguous /\ C!CleanReportTrue)
  OBVIOUS
<1> QED
  BY <1>1, IsContacts, ContactsAlone, PTL DEF ContactsSound

(* For any automations, events and workers, whatever fails, is retried, is  *)
(* lost or is edited and deleted meanwhile: the lead score is what the      *)
(* logged runs say they gave, an automation claims no more executions than  *)
(* it has entries, and it runs for an event at most once more than workers  *)
(* were lost with it.                                                       *)
THEOREM AutomationHolds == Spec => []AutomationSound
<1>1. M!TypeOK /\ M!LogsTrue /\ M!RetriesRepeatNothing => AutomationSound
  BY DEF AutomationSound
<1> QED
  BY <1>1, IsAutomation, AutomationAlone, PTL

(* Whatever updates of a deal are under way together, and whatever stages   *)
(* and pipelines are deleted meanwhile: the last entry of the timeline for  *)
(* a field tells what the deal holds, unless it is a stage deleted since,   *)
(* and a deal won or lost has its closing date.                             *)
THEOREM TimelineHolds == Spec => []TimelineTells
<1>1. D!TypeOK /\ D!TimelineTells => TimelineTells
  BY DEF TimelineTells
<1> QED
  BY <1>1, IsDeals, TimelineAlone, PTL

(* For any companies, slugs, pages and requests, with and without the       *)
(* policies: a slug leads to one page over all companies, and no page       *)
(* counts a visit or a click that did not happen.                           *)
THEOREM PagesHold == Spec => []PagesSound
<1>1. L!TypeOK /\ L!PagesSound => PagesSound
  BY DEF PagesSound
<1> QED
  BY <1>1, IsPages, PagesAlone, PTL

(* For any flow that can be drawn, with cycles, dead ends, twins and edges  *)
(* to removed nodes, and any edits while it runs: an execution at its end   *)
(* has run the nodes its first node leads to, each once, and the count of   *)
(* the flow is never ahead of the executions that committed, and exact      *)
(* unless two overlapped.                                                   *)
THEOREM FlowsHold == Spec => []FlowsSound
<1>1. B!TypeOK /\ B!FlowsSound => FlowsSound
  BY DEF FlowsSound
<1> QED
  BY <1>1, IsChatbots, FlowsAlone, PTL

(* Every variable of the five parts keeps its type.                         *)
THEOREM PartsAreTyped == Spec => []PartsTyped
<1>1. /\ C!TypeOK /\ C!PhonesUnambiguous /\ C!CleanReportTrue
      /\ M!TypeOK /\ M!LogsTrue /\ M!RetriesRepeatNothing
      /\ D!TypeOK /\ D!TimelineTells
      /\ L!TypeOK /\ L!PagesSound
      /\ B!TypeOK /\ B!FlowsSound
      => PartsTyped
  BY DEF PartsTyped
<1> QED
  BY <1>1, IsContacts, ContactsAlone, IsAutomation, AutomationAlone, IsDeals, TimelineAlone,
     IsPages, PagesAlone, IsChatbots, FlowsAlone, PTL
=============================================================================
