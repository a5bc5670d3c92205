------------------------------ MODULE Contacts ------------------------------
(***************************************************************************)
(* The contacts of one company, their tags and custom fields, and the CSV   *)
(* import.  Requests look before they write, the keys of the tables are     *)
(* checked when they write, and deleting a contact only stamps its row, so  *)
(* its phone stays in the unique key.  The import adds its rows to a        *)
(* session that sends them at the next query; once one is refused every     *)
(* further statement of the chunk fails, and session.begin() closes the     *)
(* transaction without raising.  The other columns of a contact (names,     *)
(* status, assignee) are one value, which an edit changes; the audit rows,  *)
(* which share the transaction they tell about, are left out.               *)
(***************************************************************************)
EXTENDS Naturals, FiniteSets, Sequences

CONSTANTS
    Ids,         \* an initial segment of 1, 2, ...: keys of contacts
    Phones,
    LongPhones,  \* those of them that do not fit the column
    NoPhone,
    TagIds, Names, NoName,
    Fields,      \* keys of custom_fields
    Handlers,
    Files,       \* CSV files, as sequences of phones
    ChunkSize,
    MaxRequests  \* bound: requests

VARIABLES
    rows,     \* table contacts: the phone, and whether the row is live
    details,  \* table contacts: its other columns
    tags,     \* table tags: the name of each
    links,    \* table contact_tags
    fields,   \* table custom_fields
    values,   \* table custom_field_values
    edit,     \* the requests between their SELECT and their commit
    asked,    \* requests so far
    imp       \* the import task

vars == <<rows, details, tags, links, fields, values, edit, asked, imp>>

NoRow == [phone |-> NoPhone, state |-> "none"]
Row == [phone : Phones, state : {"live", "deleted", "uncommitted"}]

Live(i) == rows[i].state = "live"
Free == {i \in Ids : rows[i] = NoRow}
NewId == CHOOSE i \in Free : \A j \in Free : i <= j

(* What refuses phone p in row i: uq_contact_company_phone, which deleted   *)
(* contacts take part in, or the width of the column.                       *)
Taken(p, i) == p \in LongPhones \/ \E j \in Ids \ {i} : rows[j].phone = p

(* The unique key waits for the transaction that holds the phone.           *)
Waits(p) == \E j \in Ids : rows[j].state = "uncommitted" /\ rows[j].phone = p

WithPhone(p) == {i \in Ids : Live(i) /\ rows[i].phone = p}
TagsOf(i) == {t \in TagIds : <<i, t>> \in links}
FieldsOf(i) == {f \in Fields : <<i, f>> \in values}
TagRows == {t \in TagIds : tags[t] # NoName}

NoEdit == [op |-> "none"]
NoImport == [at |-> "none", file |-> <<>>, next |-> 0, pending |-> NoPhone, lost |-> FALSE,
             dirty |-> {}, locked |-> {},
             created |-> 0, updated |-> 0, errors |-> 0, stored |-> 0]

Init ==
    /\ rows = [i \in Ids |-> NoRow]
    /\ details = [i \in Ids |-> "first"]
    /\ tags = [t \in TagIds |-> NoName]
    /\ links = {} /\ fields = {} /\ values = {}
    /\ edit = [h \in Handlers |-> NoEdit]
    /\ asked = 0
    /\ imp = NoImport

-----------------------------------------------------------------------------
(* Requests *)

(* A request, through any of the endpoints.                                *)
Ask == asked < MaxRequests /\ asked' = asked + 1

Hold(h, e) ==
    /\ Ask
    /\ edit[h] = NoEdit
    /\ edit' = [edit EXCEPT ![h] = e]
    /\ UNCHANGED <<rows, details, tags, links, fields, values, imp>>

(* create_contact looks for a live contact with the phone.                  *)
CreateCheck(h, p, ts, fs) ==
    /\ WithPhone(p) = {}
    /\ Hold(h, [op |-> "create", phone |-> p, tags |-> ts, fields |-> fs])

(* The row, its links and its values are inserted, if every key allows it.  *)
CreateCommit(h) ==
    LET e == edit[h] IN
        /\ e.op = "create"
        /\ ~Taken(e.phone, 0) /\ Free # {}
        /\ e.tags \subseteq TagRows /\ e.fields \subseteq fields
        /\ rows' = [rows EXCEPT ![NewId] = [phone |-> e.phone, state |-> "live"]]
        /\ links' = links \cup ({NewId} \X e.tags)
        /\ values' = values \cup ({NewId} \X e.fields)
        /\ edit' = [edit EXCEPT ![h] = NoEdit]
        /\ UNCHANGED <<details, tags, fields, asked, imp>>

(* update_contact: the row must be live, and a new phone unused by a live   *)
(* one.  The links and values it deletes are those it sees now.             *)
UpdateCheck(h, i, p, ts, fs) ==
    /\ Live(i)
    /\ WithPhone(p) \subseteq {i}
    /\ Hold(h, [op |-> "update", id |-> i, phone |-> p, tags |-> ts, fields |-> fs,
                seenTags |-> TagsOf(i), seenFields |-> FieldsOf(i)])

(* Mutant: answers from the row it has in memory.                           *)
StillThereAssumed(e) == TRUE

(* The answer reads the contact again: a deletion committed meanwhile makes *)
(* it a 404 and undoes the update.                                          *)
StillThere(e) == Live(e.id)

(* _set_tags and _set_custom_field_values insert what was asked beside what *)
(* others committed since the DELETE.                                       *)
UpdateCommit(h) ==
    LET e == edit[h]
        others == TagsOf(e.id) \ e.seenTags
        otherFields == FieldsOf(e.id) \ e.seenFields
    IN  /\ e.op = "update"
        /\ ~Taken(e.phone, e.id)
        /\ others \cap e.tags = {} /\ otherFields \cap e.fields = {}
        /\ e.tags \subseteq TagRows /\ e.fields \subseteq fields
        /\ StillThere(e)
        /\ e.id \notin imp.locked
        /\ rows' = [rows EXCEPT ![e.id].phone = e.phone]
        /\ details' = [details EXCEPT ![e.id] = "edited"]
        /\ links' = (links \ ({e.id} \X e.seenTags)) \cup ({e.id} \X e.tags)
        /\ values' = (values \ ({e.id} \X e.seenFields)) \cup ({e.id} \X e.fields)
        /\ edit' = [edit EXCEPT ![h] = NoEdit]
        /\ UNCHANGED <<tags, fields, asked, imp>>

(* bulk_action add_tag: the contacts that lack the tag.                     *)
BulkTagCheck(h, is, t) ==
    Hold(h, [op |-> "bulk_tag", ids |-> {i \in is : Live(i) /\ t \notin TagsOf(i)}, tag |-> t])

BulkTagCommit(h) ==
    LET e == edit[h] IN
        /\ e.op = "bulk_tag"
        /\ e.tag \in TagRows
        /\ \A i \in e.ids : e.tag \notin TagsOf(i)
        /\ links' = links \cup (e.ids \X {e.tag})
        /\ edit' = [edit EXCEPT ![h] = NoEdit]
        /\ UNCHANGED <<rows, details, tags, fields, values, asked, imp>>

(* bulk_action change_status and assign: the contacts that are live now.    *)
BulkEditCheck(h, is) == Hold(h, [op |-> "bulk_edit", ids |-> {i \in is : Live(i)}])

(* They are written by their keys, whatever has become of them.             *)
BulkEditCommit(h) ==
    LET e == edit[h] IN
        /\ e.op = "bulk_edit"
        /\ e.ids \cap imp.locked = {}
        /\ details' = [i \in Ids |-> IF i \in e.ids THEN "edited" ELSE details[i]]
        /\ edit' = [edit EXCEPT ![h] = NoEdit]
        /\ UNCHANGED <<rows, tags, links, fields, values, asked, imp>>

(* A refused key, a 404 or any other exception.                             *)
Abort(h) ==
    /\ edit[h] # NoEdit
    /\ edit[h].op \in {"create", "update"} => ~Waits(edit[h].phone)
    /\ edit' = [edit EXCEPT ![h] = NoEdit]
    /\ UNCHANGED <<rows, details, tags, links, fields, values, asked, imp>>

(* delete_contact and bulk_action delete: the rows are only stamped, once   *)
(* the import's transaction has let go of them.                             *)
DeleteContacts(is) ==
    /\ Ask
    /\ \E i \in is : Live(i)
    /\ \A i \in is : Live(i) => i \notin imp.locked
    /\ rows' = [i \in Ids |-> IF i \in is /\ Live(i) THEN [rows[i] EXCEPT !.state = "deleted"]
                              ELSE rows[i]]
    /\ UNCHANGED <<details, tags, links, fields, values, edit, imp>>

(* bulk_action remove_tag: of every contact named, deleted ones too.        *)
BulkUntag(is, t) ==
    /\ Ask
    /\ links' = links \ (is \X {t})
    /\ UNCHANGED <<rows, details, tags, fields, values, edit, imp>>

(* create_tag and update_tag: the name is looked up, and unique anyway.     *)
NameTag(t, n) ==
    /\ Ask
    /\ \A u \in TagIds \ {t} : tags[u] # n
    /\ tags' = [tags EXCEPT ![t] = n]
    /\ UNCHANGED <<rows, details, links, fields, values, edit, imp>>

(* delete_tag: the links go with it.                                        *)
DeleteTag(t) ==
    /\ Ask
    /\ t \in TagRows
    /\ tags' = [tags EXCEPT ![t] = NoName]
    /\ links' = links \ (Ids \X {t})
    /\ UNCHANGED <<rows, details, fields, values, edit, imp>>

CreateField(f) ==
    /\ Ask
    /\ f \notin fields
    /\ fields' = fields \cup {f}
    /\ UNCHANGED <<rows, details, tags, links, values, edit, imp>>

(* delete_field: the session sets the field of the values it has loaded to  *)
(* NULL, which the column refuses, so only an unused field can be deleted.  *)
DeleteField(f) ==
    /\ Ask
    /\ f \in fields
    /\ \A i \in Ids : <<i, f>> \notin values
    /\ fields' = fields \ {f}
    /\ UNCHANGED <<rows, details, tags, links, values, edit, imp>>

-----------------------------------------------------------------------------
(* The import *)

StartImport(file) ==
    /\ imp.at = "none"
    /\ imp' = [NoImport EXCEPT !.at = "chunk", !.file = file, !.next = 1]
    /\ UNCHANGED <<rows, details, tags, links, fields, values, edit, asked>>

ChunkEnds == imp.next > Len(imp.file) \/ imp.at = "full"

(* Adding the pending row to the transaction, or not.                       *)
CanFlush == imp.pending = NoPhone \/ ~Taken(imp.pending, 0)
Flushed == IF imp.pending = NoPhone THEN rows
           ELSE [rows EXCEPT ![NewId] = [phone |-> imp.pending, state |-> "uncommitted"]]

(* Bound: a key of Ids is left for the pending row.                         *)
RoomLeft == imp.pending = NoPhone \/ Free # {}

Advance == [imp EXCEPT !.next = @ + 1,
                       !.at = IF imp.next % ChunkSize = 0 THEN "full" ELSE "chunk"]

(* A row without phone makes no query; else its query sends the pending row *)
(* first, and fails if that fails or if one failed before.                  *)
RowRefused ==
    /\ imp.at = "chunk" /\ imp.next <= Len(imp.file)
    /\ imp.file[imp.next] = NoPhone \/ imp.lost \/ ~CanFlush
    /\ imp' = LET gone == imp.lost \/ imp.file[imp.next] # NoPhone IN
              [Advance EXCEPT !.errors = @ + 1,
                              !.lost = gone,
                              !.dirty = IF gone THEN {} ELSE @,
                              !.locked = IF gone THEN {} ELSE @]
    /\ UNCHANGED <<rows, details, tags, links, fields, values, edit, asked>>

(* Else a live contact, committed or of this chunk, is updated, or a new    *)
(* one is added to the session.  The update, too, is sent by the next query *)
(* or the commit, by the contact's key, and locks its row.                  *)
RowTaken ==
    LET p == imp.file[imp.next]
        found == \E i \in Ids : rows[i].phone = p /\ rows[i].state # "deleted"
    IN  /\ imp.at = "chunk" /\ imp.next <= Len(imp.file)
        /\ p # NoPhone /\ ~imp.lost /\ CanFlush /\ RoomLeft
        /\ rows' = Flushed
        /\ imp' = IF found \/ p = imp.pending
                  THEN [Advance EXCEPT !.updated = @ + 1, !.pending = NoPhone,
                                       !.dirty = WithPhone(p), !.locked = @ \cup imp.dirty]
                  ELSE [Advance EXCEPT !.created = @ + 1, !.pending = p,
                                       !.dirty = {}, !.locked = @ \cup imp.dirty]
        /\ UNCHANGED <<details, tags, links, fields, values, edit, asked>>

Uncommitted == {i \in Ids : rows[i].state = "uncommitted"}
Dropped == [i \in Ids |-> IF i \in Uncommitted THEN NoRow ELSE rows[i]]

(* The end of a chunk: the transaction commits, or is closed without a word *)
(* if a statement had failed; a row refused by the last flush fails the     *)
(* task, and what earlier chunks committed stays.                           *)
ChunkDone ==
    /\ imp.at \in {"chunk", "full"} /\ ChunkEnds
    /\ LET done == IF imp.next > Len(imp.file) THEN "done" ELSE "chunk" IN
       IF imp.lost THEN
          /\ rows' = Dropped
          /\ imp' = [imp EXCEPT !.at = done, !.lost = FALSE, !.pending = NoPhone]
          /\ UNCHANGED details
       ELSE IF ~CanFlush THEN
          /\ rows' = Dropped
          /\ imp' = [imp EXCEPT !.at = "failed", !.pending = NoPhone,
                                !.dirty = {}, !.locked = {}]
          /\ UNCHANGED details
       ELSE
          /\ RoomLeft
          /\ rows' = [i \in Ids |-> IF Flushed[i].state = "uncommitted"
                                    THEN [Flushed[i] EXCEPT !.state = "live"] ELSE Flushed[i]]
          /\ details' = [i \in Ids |-> IF i \in imp.dirty \cup imp.locked THEN "edited"
                                       ELSE details[i]]
          /\ imp' = [imp EXCEPT !.at = done, !.pending = NoPhone,
                                !.dirty = {}, !.locked = {},
                                !.stored = @ + Cardinality({i \in Ids : Flushed[i].state = "uncommitted"})]
    /\ UNCHANGED <<tags, links, fields, values, edit, asked>>

Next ==
    \/ \E h \in Handlers :
        \/ \E p \in Phones, ts \in SUBSET TagIds, fs \in SUBSET Fields :
              CreateCheck(h, p, ts, fs) \/ \E i \in Ids : UpdateCheck(h, i, p, ts, fs)
        \/ \E is \in SUBSET Ids, t \in TagIds : BulkTagCheck(h, is, t)
        \/ \E is \in SUBSET Ids : BulkEditCheck(h, is)
        \/ CreateCommit(h) \/ UpdateCommit(h) \/ BulkTagCommit(h) \/ BulkEditCommit(h) \/ Abort(h)
    \/ \E is \in SUBSET Ids : DeleteContacts(is) \/ \E t \in TagIds : BulkUntag(is, t)
    \/ \E t \in TagIds : DeleteTag(t) \/ \E n \in Names : NameTag(t, n)
    \/ \E f \in Fields : CreateField(f) \/ DeleteField(f)
    \/ \E file \in Files : StartImport(file)
    \/ RowRefused \/ RowTaken \/ ChunkDone

Spec == Init /\ [][Next]_vars

-----------------------------------------------------------------------------
(* Properties *)

TypeOK ==
    /\ rows \in [Ids -> Row \cup {NoRow}]
    /\ details \in [Ids -> {"first", "edited"}]
    /\ tags \in [TagIds -> Names \cup {NoName}]
    /\ links \subseteq Ids \X TagRows
    /\ values \subseteq Ids \X fields

(* Every lookup by phone finds at most one contact, which the import, the   *)
(* webhook and create_contact itself rely on (scalar_one_or_none), though   *)
(* requests and the import only look before they insert.                    *)
PhonesUnambiguous == \A p \in Phones : Cardinality(WithPhone(p)) <= 1

(* An import that reports no error is true to its word: every row of its    *)
(* file was an update, or a contact it has stored.                          *)
CleanReportTrue ==
    imp.at = "done" /\ imp.errors = 0 =>
        imp.created = imp.stored /\ imp.created + imp.updated = Len(imp.file)

(* Contacts that somebody has read as live and may yet write by their keys. *)
Held ==
    imp.dirty \cup imp.locked
        \cup UNION {edit[h].ids : h \in {x \in Handlers : edit[x].op = "bulk_edit"}}

(* A bulk edit or an import that read a contact while it was live may still *)
(* write into it after its deletion, but nothing else does: nobody takes up *)
(* a deleted contact, update_contact's late answer undoes its changes, and  *)
(* whoever restores the contact finds the phone it was deleted with.        *)
DeletedStay ==
    [][\A i \in Ids : rows[i].state = "deleted" =>
          /\ rows'[i] = rows[i]
          /\ i \in Held' => i \in Held
          /\ i \notin Held => details'[i] = details[i]]_vars
=============================================================================
