-------------------------- MODULE RequestsProofs --------------------------
(***************************************************************************)
(* What a request meets before its handler: proofs about the tenants, the   *)
(* limiter and the accounts, for any companies, users, requests, limits,    *)
(* connections and lives of tokens.  A behaviour of Requests is one of each *)
(* of the three, which is the last section.                                 *)
(***************************************************************************)
EXTENDS Requests, FiniteSetTheorems, TLAPS

-----------------------------------------------------------------------------
(* Tenants.  The invariant relates the setting of a connection to the       *)
(* transaction that holds it: a free connection carries no tenant, and one  *)
(* in use carries that of its handler or none.                              *)

(* Two transactions never share a connection, and only a started handler    *)
(* holds one.                                                               *)
Exclusive ==
    \A g, h \in Handlers : conn[g] # NoConn /\ conn[g] = conn[h] => g = h

HoldsWhenBegun ==
    \A h \in Handlers :
        /\ at[h] \in {"start", "done"} => conn[h] = NoConn
        /\ at[h] \in {"begun", "first"} => conn[h] # NoConn

(* A setting outlives no transaction, and is the tenant of its handler.     *)
SettingIsOwn ==
    \A c \in Conns :
        setting[c] # NoTenant =>
            \E h \in Handlers : conn[h] = c /\ setting[c] = TenantOf[h]

(* In the first transaction of a session that sets it, the tenant is set.   *)
FirstIsSet ==
    \A h \in Setters : at[h] = "first" => setting[conn[h]] = TenantOf[h]

TenantInv ==
    /\ TypeOK
    /\ Exclusive
    /\ HoldsWhenBegun
    /\ SettingIsOwn
    /\ FirstIsSet
    /\ NoForeignRows
    /\ ScopedSeesOwn

(* Initially no connection carries a tenant and nothing has been touched.   *)
LEMMA TenantInit == Init => TenantInv
<1> SUFFICES ASSUME Init PROVE TenantInv
  OBVIOUS
<1> USE DEF Init
<1>1. TypeOK
  BY DEF TypeOK, Ats
<1>2. Exclusive /\ HoldsWhenBegun
  BY DEF Exclusive, HoldsWhenBegun
<1>3. SettingIsOwn /\ FirstIsSet
  BY SettersAreHandlers DEF SettingIsOwn, FirstIsSet
<1>4. NoForeignRows /\ ScopedSeesOwn
  BY SettersAreHandlers DEF NoForeignRows, ScopedSeesOwn
<1> QED
  BY <1>1, <1>2, <1>3, <1>4 DEF TenantInv

(* The connection a handler holds carries its tenant or none.               *)
LEMMA OwnSetting ==
    ASSUME TenantInv, NEW h \in Handlers, conn[h] # NoConn
    PROVE  setting[conn[h]] \in {NoTenant, TenantOf[h]}
<1>1. conn[h] \in Conns
  BY DEF TenantInv, TypeOK
<1>2. CASE setting[conn[h]] = NoTenant
  BY <1>2
<1>3. CASE setting[conn[h]] # NoTenant
  <2>1. PICK g \in Handlers : conn[g] = conn[h] /\ setting[conn[h]] = TenantOf[g]
    BY <1>1, <1>3 DEF TenantInv, SettingIsOwn
  <2> QED
    BY <2>1 DEF TenantInv, Exclusive
<1> QED
  BY <1>2, <1>3

(* So the rows the policies of the tenant let it reach are its own.         *)
LEMMA OwnRows ==
    ASSUME TenantInv, NEW h \in Handlers, conn[h] # NoConn,
           NEW r \in Rows, Owns(setting[conn[h]], r)
    PROVE  r[1] = TenantOf[h]
  BY OwnSetting, NoTenantIsNone DEF Owns, Rows

(* Taking a connection leaves every setting alone.                          *)
LEMMA BeginInv ==
    ASSUME TenantInv, NEW h \in Handlers, NEW c \in Conns, Begin(h, c)
    PROVE  TenantInv'
<1> USE DEF Begin, TenantInv
<1>1. TypeOK'
  BY DEF TypeOK, Ats
<1>2. \A g \in Handlers : conn'[g] = IF g = h THEN c ELSE conn[g]
  BY DEF TypeOK
<1>3. \A g \in Handlers : g # h => conn[g] # c
  BY DEF Free
<1>4. Exclusive'
  BY <1>2, <1>3 DEF Exclusive
<1>5. \A g \in Handlers : g # h => at'[g] = at[g]
  BY DEF TypeOK
<1>6. at'[h] \in {"later", "begun", "first"} /\ c # NoConn
  BY NoConnIsNone DEF TypeOK
<1>7. HoldsWhenBegun'
  BY <1>2, <1>5, <1>6 DEF HoldsWhenBegun
<1>8. SettingIsOwn'
  BY <1>2, NoConnIsNone DEF SettingIsOwn
<1>9. at'[h] = "first" => h \notin Setters
  BY DEF TypeOK
<1>10. FirstIsSet'
  BY <1>2, <1>5, <1>9, SettersAreHandlers DEF FirstIsSet
<1>11. NoForeignRows'
  BY DEF NoForeignRows
<1>12. at[h] = "start" => (h \in Setters => ~missed[h])
  BY DEF ScopedSeesOwn, TypeOK
<1>13. at[h] = "later" => at'[h] = "later"
  BY DEF TypeOK
<1>14. ScopedSeesOwn'
  BY <1>5, <1>12, <1>13, SettersAreHandlers DEF ScopedSeesOwn
<1> QED
  BY <1>1, <1>4, <1>7, <1>8, <1>10, <1>11, <1>14

(* SET LOCAL writes the handler's own tenant on the connection it holds.    *)
LEMMA SetTenantInv ==
    ASSUME TenantInv, NEW h \in Handlers, SetTenant(h)
    PROVE  TenantInv'
<1> USE DEF SetTenant, TenantInv
<1>0. conn[h] # NoConn /\ conn[h] \in Conns
  BY DEF HoldsWhenBegun, TypeOK
<1>1. TenantOf[h] \in Tenants
  BY TenantOfType
<1>2. TypeOK'
  BY <1>0, <1>1 DEF TypeOK, Ats
<1>3. Exclusive'
  BY DEF Exclusive
<1>4. \A g \in Handlers : at'[g] = IF g = h THEN "first" ELSE at[g]
  BY DEF TypeOK
<1>5. HoldsWhenBegun'
  BY <1>0, <1>4 DEF HoldsWhenBegun
<1>6. \A c \in Conns : setting'[c] = IF c = conn[h] THEN TenantOf[h] ELSE setting[c]
  BY DEF TypeOK
<1>7. SettingIsOwn'
  BY <1>6 DEF SettingIsOwn
<1>8. ASSUME NEW g \in Setters, at'[g] = "first"
      PROVE  setting'[conn'[g]] = TenantOf[g]
  <2>1. g \in Handlers /\ conn'[g] = conn[g]
    BY SettersAreHandlers
  <2>2. CASE g = h
    BY <2>1, <2>2, <1>0, <1>6
  <2>3. CASE g # h
    <3>1. at[g] = "first"
      BY <1>4, <1>8, <2>1, <2>3
    <3>2. conn[g] # NoConn /\ conn[g] \in Conns
      BY <2>1, <3>1 DEF HoldsWhenBegun, TypeOK
    <3>3. conn[g] # conn[h]
      BY <2>1, <2>3, <3>2 DEF Exclusive
    <3>4. setting[conn[g]] = TenantOf[g]
      BY <3>1 DEF FirstIsSet
    <3> QED
      BY <1>6, <2>1, <3>2, <3>3, <3>4
  <2> QED
    BY <2>2, <2>3
<1>9. FirstIsSet'
  BY <1>8 DEF FirstIsSet
<1>10. NoForeignRows'
  BY DEF NoForeignRows
<1>11. ScopedSeesOwn'
  BY <1>4, SettersAreHandlers DEF ScopedSeesOwn
<1> QED
  BY <1>2, <1>3, <1>5, <1>7, <1>9, <1>10, <1>11

(* A statement that marks own rows and published pages only, and misses no  *)
(* own row in the first transaction, keeps the invariant.                   *)
LEMMA TouchInv ==
    ASSUME TenantInv, NEW h \in Handlers, InTransaction(h),
           NEW marks \in SUBSET (Tenants \X {"read", "shown", "wrote"}), NEW rows,
           Touch(h, marks, rows), published' \subseteq Tenants,
           h \notin Exempt => \A m \in marks : m[1] = TenantOf[h] \/ m[2] = "shown",
           h \in Setters /\ at[h] = "first" => \A r \in Rows : r[1] = TenantOf[h] => r \in rows
    PROVE  TenantInv'
<1> DEFINE misses == \E r \in Rows \ rows : r[1] = TenantOf[h]
<1>1. /\ UNCHANGED <<setting, conn, at>>
      /\ touched' = IF h \in Exempt THEN touched ELSE [touched EXCEPT ![h] = @ \cup marks]
      /\ missed' = [missed EXCEPT ![h] = @ \/ misses]
  BY DEF Touch
<1>2. h \in Setters /\ at[h] = "first" => ~misses
  OBVIOUS
<1>3. misses \in BOOLEAN
  OBVIOUS
<1> HIDE DEF misses
<1> USE DEF TenantInv
<1>4. TypeOK'
  <2>1. touched' \in [Handlers -> SUBSET (Tenants \X {"read", "shown", "wrote"})]
    BY <1>1 DEF TypeOK
  <2>2. missed' \in [Handlers -> BOOLEAN]
    <3>1. (missed[h] \/ misses) \in BOOLEAN
      OBVIOUS
    <3> QED
      BY <1>1, <3>1 DEF TypeOK
  <2> QED
    BY <1>1, <2>1, <2>2 DEF TypeOK
<1>5. Exclusive' /\ HoldsWhenBegun'
  BY <1>1 DEF Exclusive, HoldsWhenBegun
<1>6. SettingIsOwn' /\ FirstIsSet'
  BY <1>1 DEF SettingIsOwn, FirstIsSet
<1>7. NoForeignRows'
  BY <1>1 DEF NoForeignRows, TypeOK
<1>8. ASSUME NEW g \in Setters, missed'[g]
      PROVE  at'[g] \in {"later", "done"}
  <2>1. g \in Handlers
    BY SettersAreHandlers
  <2>2. CASE missed[g]
    BY <1>1, <2>2 DEF ScopedSeesOwn
  <2>3. CASE ~missed[g]
    <3>1. g = h
      BY <1>1, <1>8, <2>1, <2>3 DEF TypeOK
    <3>2. misses
      BY <1>1, <1>8, <2>1, <2>3, <3>1 DEF TypeOK
    <3>3. at[h] \in {"first", "later"}
      BY DEF InTransaction
    <3> QED
      BY <1>1, <1>2, <3>1, <3>2, <3>3
  <2> QED
    BY <2>2, <2>3
<1>9. ScopedSeesOwn'
  BY <1>8 DEF ScopedSeesOwn
<1> QED
  BY <1>4, <1>5, <1>6, <1>7, <1>9

(* In the first transaction of a session that sets it, the tenant owns all  *)
(* rows of the company.                                                     *)
LEMMA FirstOwns ==
    ASSUME TenantInv, NEW h \in Setters, at[h] = "first",
           NEW r \in Rows, r[1] = TenantOf[h]
    PROVE  Owns(setting[conn[h]], r)
  BY DEF TenantInv, FirstIsSet, Owns

(* What a SELECT marks: own rows, and pages that are published.             *)
LEMMA QueryMarks ==
    ASSUME TenantInv, NEW h \in Handlers, Query(h)
    PROVE  \E marks \in SUBSET (Tenants \X {"read", "shown", "wrote"}) :
              /\ Touch(h, marks, Readable(h))
              /\ h \notin Exempt => marks \subseteq
                    ({TenantOf[h]} \X {"read"}) \cup (published \X {"shown"})
<1> DEFINE mark(r) == <<r[1], IF Public(r) THEN "shown" ELSE "read">>
           marks == {mark(r) : r \in Readable(h)}
<1>1. Touch(h, marks, Readable(h)) /\ conn[h] # NoConn
  BY DEF Query, InTransaction
<1>2. ASSUME NEW r \in Readable(h)
      PROVE  /\ mark(r) \in Tenants \X {"read", "shown", "wrote"}
             /\ h \notin Exempt => mark(r) \in
                    ({TenantOf[h]} \X {"read"}) \cup (published \X {"shown"})
  <2>1. r \in Rows /\ r[1] \in Tenants
    BY DEF Readable, Rows
  <2>2. CASE Public(r)
    BY <2>1, <2>2 DEF Public
  <2>3. CASE ~Public(r)
    <3>1. h \notin Exempt => r[1] = TenantOf[h]
      BY <1>1, <2>1, <2>3, OwnRows DEF Readable
    <3> QED
      BY <2>1, <2>3, <3>1
  <2> QED
    BY <2>2, <2>3
<1> HIDE DEF mark
<1>3. marks \in SUBSET (Tenants \X {"read", "shown", "wrote"})
  BY <1>2
<1>4. h \notin Exempt => marks \subseteq ({TenantOf[h]} \X {"read"}) \cup (published \X {"shown"})
  BY <1>2
<1> HIDE DEF marks
<1> QED
  BY <1>1, <1>3, <1>4

(* What an INSERT, UPDATE or DELETE marks: own rows.                        *)
LEMMA ChangeMarks ==
    ASSUME TenantInv, NEW h \in Handlers, Change(h)
    PROVE  \E marks \in SUBSET (Tenants \X {"read", "shown", "wrote"}) :
              /\ Touch(h, marks, Writable(h))
              /\ h \notin Exempt => marks \subseteq {<<TenantOf[h], "wrote">>}
              /\ marks = {} => Writable(h) = {}
<1> DEFINE marks == {<<r[1], "wrote">> : r \in Writable(h)}
<1>1. Touch(h, marks, Writable(h)) /\ conn[h] # NoConn
  BY DEF Change, InTransaction
<1>2. ASSUME NEW r \in Writable(h)
      PROVE  r[1] \in Tenants /\ (h \notin Exempt => r[1] = TenantOf[h])
  BY <1>1, OwnRows DEF Writable, Rows
<1>3. marks \in SUBSET (Tenants \X {"read", "shown", "wrote"})
  BY <1>2
<1>4. h \notin Exempt => marks \subseteq {<<TenantOf[h], "wrote">>}
  BY <1>2
<1>5. marks = {} => Writable(h) = {}
  OBVIOUS
<1> HIDE DEF marks
<1> QED
  BY <1>1, <1>3, <1>4, <1>5

LEMMA QueryInv ==
    ASSUME TenantInv, NEW h \in Handlers, Query(h)
    PROVE  TenantInv'
<1>1. PICK marks \in SUBSET (Tenants \X {"read", "shown", "wrote"}) :
              /\ Touch(h, marks, Readable(h))
              /\ h \notin Exempt => marks \subseteq
                    ({TenantOf[h]} \X {"read"}) \cup (published \X {"shown"})
  BY QueryMarks
<1>2. published' \subseteq Tenants /\ InTransaction(h)
  BY DEF Query, TenantInv, TypeOK
<1>3. h \notin Exempt => \A m \in marks : m[1] = TenantOf[h] \/ m[2] = "shown"
  BY <1>1
<1>4. h \in Setters /\ at[h] = "first" =>
        \A r \in Rows : r[1] = TenantOf[h] => r \in Readable(h)
  BY FirstOwns DEF Readable
<1> QED
  BY <1>1, <1>2, <1>3, <1>4, TouchInv

LEMMA ChangeInv ==
    ASSUME TenantInv, NEW h \in Handlers, Change(h)
    PROVE  TenantInv'
<1>1. PICK marks \in SUBSET (Tenants \X {"read", "shown", "wrote"}) :
              /\ Touch(h, marks, Writable(h))
              /\ h \notin Exempt => marks \subseteq {<<TenantOf[h], "wrote">>}
              /\ marks = {} => Writable(h) = {}
  BY ChangeMarks
<1>2. published' \subseteq Tenants /\ InTransaction(h)
  BY DEF Change, TenantInv, TypeOK
<1>3. h \notin Exempt => \A m \in marks : m[1] = TenantOf[h] \/ m[2] = "shown"
  BY <1>1
<1>4. h \in Setters /\ at[h] = "first" =>
        \A r \in Rows : r[1] = TenantOf[h] => r \in Writable(h)
  BY FirstOwns DEF Writable
<1> QED
  BY <1>1, <1>2, <1>3, <1>4, TouchInv

(* The end of a transaction: the connection is returned without a tenant.   *)
LEMMA ReleaseInv ==
    ASSUME TenantInv, NEW h \in Handlers, NEW next \in {"later", "done"},
           setting' = [c \in Conns |-> IF conn[h] = c THEN NoTenant ELSE setting[c]],
           conn' = [conn EXCEPT ![h] = NoConn],
           at' = [at EXCEPT ![h] = next],
           UNCHANGED <<published, touched, missed>>
    PROVE  TenantInv'
<1> USE DEF TenantInv
<1>1. TypeOK'
  BY DEF TypeOK, Ats
<1>2. \A g \in Handlers : conn'[g] = IF g = h THEN NoConn ELSE conn[g]
  BY DEF TypeOK
<1>3. \A g \in Handlers : at'[g] = IF g = h THEN next ELSE at[g]
  BY DEF TypeOK
<1>4. Exclusive'
  BY <1>2 DEF Exclusive
<1>5. HoldsWhenBegun'
  BY <1>2, <1>3 DEF HoldsWhenBegun
<1>6. ASSUME NEW c \in Conns, setting'[c] # NoTenant
      PROVE  \E g \in Handlers : conn'[g] = c /\ setting'[c] = TenantOf[g]
  <2>1. conn[h] # c /\ setting'[c] = setting[c]
    BY <1>6
  <2>2. PICK g \in Handlers : conn[g] = c /\ setting[c] = TenantOf[g]
    BY <1>6, <2>1 DEF SettingIsOwn
  <2> QED
    BY <1>2, <2>1, <2>2
<1>7. SettingIsOwn'
  BY <1>6 DEF SettingIsOwn
<1>8. ASSUME NEW g \in Setters, at'[g] = "first"
      PROVE  setting'[conn'[g]] = TenantOf[g]
  <2>1. g \in Handlers /\ g # h /\ at[g] = "first"
    BY <1>3, <1>8, SettersAreHandlers
  <2>2. conn[g] # NoConn /\ conn[g] \in Conns
    BY <2>1 DEF HoldsWhenBegun, TypeOK
  <2>3. conn[h] # conn[g]
    BY <2>1, <2>2 DEF Exclusive
  <2> QED
    BY <1>2, <2>1, <2>2, <2>3 DEF FirstIsSet
<1>9. FirstIsSet'
  BY <1>8 DEF FirstIsSet
<1>10. NoForeignRows'
  BY DEF NoForeignRows
<1>11. ScopedSeesOwn'
  BY <1>3, SettersAreHandlers DEF ScopedSeesOwn
<1> QED
  BY <1>1, <1>4, <1>5, <1>7, <1>9, <1>10, <1>11

(* A commit and a rollback both end the transaction.                        *)
LEMMA CommitInv ==
    ASSUME TenantInv, NEW h \in Handlers, Commit(h)
    PROVE  TenantInv'
<1>1. PICK next \in {"later", "done"} : at' = [at EXCEPT ![h] = next]
  BY DEF Commit
<1>2. setting' = [c \in Conns |-> IF conn[h] = c THEN NoTenant ELSE setting[c]]
  BY DEF Commit, TenantInv, TypeOK
<1> QED
  BY <1>1, <1>2, ReleaseInv DEF Commit

LEMMA RollbackInv ==
    ASSUME TenantInv, NEW h \in Handlers, Rollback(h)
    PROVE  TenantInv'
  BY ReleaseInv DEF Rollback

(* Every step preserves the invariant.                                      *)
LEMMA TenantNext == TenantInv /\ [Next]_vars => TenantInv'
<1> SUFFICES ASSUME TenantInv, [Next]_vars PROVE TenantInv'
  OBVIOUS
<1>1. ASSUME NEW h \in Handlers, NEW c \in Conns, Begin(h, c) PROVE TenantInv'
  BY <1>1, BeginInv
<1>2. ASSUME NEW h \in Handlers, SetTenant(h) PROVE TenantInv'
  BY <1>2, SetTenantInv
<1>3. ASSUME NEW h \in Handlers, Query(h) \/ Change(h) PROVE TenantInv'
  BY <1>3, QueryInv, ChangeInv
<1>4. ASSUME NEW h \in Handlers, Commit(h) PROVE TenantInv'
  BY <1>4, CommitInv
<1>5. ASSUME NEW h \in Handlers, Rollback(h) PROVE TenantInv'
  BY <1>5, RollbackInv
<1>6. CASE UNCHANGED vars
  BY <1>6 DEF vars, TenantInv, TypeOK, Exclusive, HoldsWhenBegun, SettingIsOwn,
              FirstIsSet, NoForeignRows, ScopedSeesOwn
<1> QED
  BY <1>1, <1>2, <1>3, <1>4, <1>5, <1>6 DEF Next

LEMMA Inductive == Spec => []TenantInv
  BY TenantInit, TenantNext, PTL DEF Spec

(* Every reachable state is well typed.                                     *)
THEOREM TypeCorrect == Spec => []TypeOK
<1>1. TenantInv => TypeOK
  BY DEF TenantInv
<1> QED
  BY <1>1, Inductive, PTL

(* Under the policies no handler writes another company's rows or reads     *)
(* more of them than the published page, for any pool, any number of        *)
(* companies and any interleaving of transactions.                          *)
THEOREM TenantsIsolated == Spec => []NoForeignRows
<1>1. TenantInv => NoForeignRows
  BY DEF TenantInv
<1> QED
  BY <1>1, Inductive, PTL

(* A session that sets its tenant reaches its own rows until it commits.    *)
THEOREM ScopedReachesOwn == Spec => []ScopedSeesOwn
<1>1. TenantInv => ScopedSeesOwn
  BY DEF TenantInv
<1> QED
  BY <1>1, Inductive, PTL

(* Every step is a read, a write, one of an exempt role, or changes nothing *)
(* of what isolation is about.                                              *)
LEMMA StepRefines == TenantInv /\ [Next]_vars => [Isolation!Next]_<<published, touched>>
<1> SUFFICES ASSUME TenantInv, [Next]_vars PROVE [Isolation!Next]_<<published, touched>>
  OBVIOUS
<1>1. ASSUME NEW h \in Handlers, Query(h) PROVE [Isolation!Next]_<<published, touched>>
  <2>1. PICK marks \in SUBSET (Tenants \X {"read", "shown", "wrote"}) :
              /\ Touch(h, marks, Readable(h))
              /\ h \notin Exempt => marks \subseteq
                    ({TenantOf[h]} \X {"read"}) \cup (published \X {"shown"})
    BY <1>1, QueryMarks
  <2>2. published' = published
    BY <1>1 DEF Query
  <2>3. CASE h \in Exempt
    BY <2>1, <2>2, <2>3 DEF Touch
  <2>4. CASE h \notin Exempt
    <3>1. Isolation!Read(h)
      BY <2>1, <2>2, <2>4 DEF Touch, Isolation!Read, Isolation!Mark
    <3> QED
      BY <2>4, <3>1 DEF Isolation!Next
  <2> QED
    BY <2>3, <2>4
<1>2. ASSUME NEW h \in Handlers, Change(h) PROVE [Isolation!Next]_<<published, touched>>
  <2>1. PICK marks \in SUBSET (Tenants \X {"read", "shown", "wrote"}) :
              /\ Touch(h, marks, Writable(h))
              /\ h \notin Exempt => marks \subseteq {<<TenantOf[h], "wrote">>}
              /\ marks = {} => Writable(h) = {}
    BY <1>2, ChangeMarks
  <2>2. published' \subseteq Tenants /\ published \subseteq Tenants /\ conn[h] # NoConn
    BY <1>2 DEF Change, InTransaction, TenantInv, TypeOK
  <2>3. CASE h \in Exempt
    <3>1. Isolation!Roam
      BY <2>1, <2>2, <2>3 DEF Touch, Isolation!Roam
    <3> QED
      BY <2>3, <3>1 DEF Isolation!Next
  <2>4. CASE h \notin Exempt
    <3> DEFINE pages == {t \in Tenants : <<t, "page">> \in Writable(h)}
    <3>1. pages \subseteq {TenantOf[h]}
      <4> SUFFICES ASSUME NEW t \in pages PROVE t = TenantOf[h]
        OBVIOUS
      <4>1. <<t, "page">> \in Rows /\ Owns(setting[conn[h]], <<t, "page">>)
        BY <2>4 DEF Writable
      <4> QED
        BY <2>2, <4>1, OwnRows
    <3>2. PICK shown \in SUBSET pages : published' = (published \ pages) \cup shown
      BY <1>2 DEF Change
    <3>3. CASE marks = {} /\ pages = {}
      <4>1. published' = published
        BY <3>2, <3>3
      <4>2. touched' = touched
        BY <2>1, <2>4, <3>3 DEF Touch, TenantInv, TypeOK
      <4> QED
        BY <4>1, <4>2
    <3>4. CASE marks # {}
      <4>1. marks = {<<TenantOf[h], "wrote">>}
        BY <2>1, <2>4, <3>4
      <4>2. Isolation!Mark(h, {<<TenantOf[h], "wrote">>})
        BY <2>1, <2>4, <4>1 DEF Touch, Isolation!Mark
      <4> DEFINE now == published' \cap {TenantOf[h]}
      <4>3. published' = (published \ {TenantOf[h]}) \cup now /\ now \in SUBSET {TenantOf[h]}
        BY <3>1, <3>2
      <4> HIDE DEF now, pages
      <4>4. Isolation!Write(h)
        BY <4>2, <4>3 DEF Isolation!Write
      <4> QED
        BY <2>4, <4>4 DEF Isolation!Next
    <3>5. pages # {} => marks # {}
      BY <2>1
    <3> QED
      BY <3>3, <3>4, <3>5
  <2> QED
    BY <2>3, <2>4
<1>3. CASE UNCHANGED <<published, touched>>
  BY <1>3
<1>4. UNCHANGED <<published, touched>> \/ \E h \in Handlers : Query(h) \/ Change(h)
  BY DEF Next, Begin, SetTenant, Commit, Rollback, vars
<1> QED
  BY <1>1, <1>2, <1>3, <1>4

(* The pool, SET LOCAL and the policies implement the isolation they are    *)
(* there for.                                                               *)
THEOREM ImplementsIsolation == Spec => IsolationHolds
<1>1. Init => Isolation!Init
  BY DEF Init, Isolation!Init
<1> QED
  BY <1>1, StepRefines, Inductive, PTL DEF Spec, IsolationHolds, Isolation!Spec

-----------------------------------------------------------------------------
(* The limiter *)

USE Sizes DEF Sizes

(* The instances count as the module itself does.                           *)
LEMMA LimiterCounts == \A S : R!Cardinality(S) = Cardinality(S)
  BY DEF R!Cardinality, Cardinality

LEMMA AccountsCount == \A S : A!Cardinality(S) = Cardinality(S)
  BY DEF A!Cardinality, Cardinality

(* What was let through and registered stays in its bucket while a window   *)
(* that has not ended holds it; nothing else is in a bucket.                *)
ZsetInv ==
    /\ IsFiniteSet(admitted)
    /\ \A h \in Clients : member[h].stamp <= second
    /\ \A b \in R!Buckets : \A e \in zset[b] : e \in admitted /\ Bucket[e.route] = b
    /\ \A e \in admitted : e.stamp + Window > second => e \in zset[Bucket[e.route]]

(* The requests of a route that will be added whatever happens meanwhile.   *)
Pending(r) == {h \in Clients : step[h] = "counted" /\ member[h].route = r}

(* Each of them has its place within the bound already.                     *)
PlacesInv ==
    \A r \in Routes :
        Cardinality(R!Through(r)) + Cardinality(Pending(r))
            <= Limit[r] + Cardinality(Clients) - 1

LimiterInv == R!TypeOK /\ ZsetInv /\ PlacesInv

-----------------------------------------------------------------------------
(* Type correctness *)

LEMMA LimiterTypeInit == R!Init => R!TypeOK
  BY DEF Sizes, R!Init, R!TypeOK, R!Ats, R!Request

LEMMA OwnBucket ==
  ASSUME R!TypeOK, NEW h \in Clients
  PROVE  member[h] \in R!Request /\ member[h].route \in Routes /\ R!Own(h) \in R!Buckets
  BY DEF R!TypeOK, R!Request, R!Own, R!Buckets

LEMMA LimiterTypeNext == R!TypeOK /\ [R!Next]_(R!vars) => R!TypeOK'
<1> SUFFICES ASSUME R!TypeOK, [R!Next]_(R!vars) PROVE R!TypeOK'
  OBVIOUS
<1> USE DEF R!TypeOK, Sizes
<1>1. ASSUME NEW h \in Clients, NEW r \in Routes, R!Begin(h, r) PROVE R!TypeOK'
  <2>1. [id |-> arrived + 1, route |-> r, stamp |-> second] \in R!Request
    BY <1>1 DEF R!Begin, R!Request
  <2> QED
    BY <1>1, <2>1 DEF R!Begin, R!Ats
<1>2. ASSUME NEW h \in Clients, R!Count(h) PROVE R!TypeOK'
  <2>1. zset' \in [R!Buckets -> SUBSET R!Request]
    BY <1>2, OwnBucket DEF R!Count, R!Recent
  <2>2. step' \in [Clients -> R!Ats]
    BY <1>2 DEF R!Count, R!Ats
  <2> QED
    BY <1>2, <2>1, <2>2 DEF R!Count
<1>3. ASSUME NEW h \in Clients, R!Add(h) PROVE R!TypeOK'
  BY <1>3, OwnBucket DEF R!Add, R!Ats
<1>4. ASSUME NEW h \in Clients, R!RedisFails(h) PROVE R!TypeOK'
  BY <1>4 DEF R!RedisFails, R!Ats
<1>5. ASSUME R!Tick PROVE R!TypeOK'
  BY <1>5 DEF R!Tick
<1>6. CASE UNCHANGED R!vars
  BY <1>6 DEF R!vars
<1> QED
  BY <1>1, <1>2, <1>3, <1>4, <1>5, <1>6 DEF R!Next

(* Every reachable state is well typed.                                     *)
THEOREM LimiterTyped == R!Spec => []R!TypeOK
<1>1. R!Init => R!TypeOK
  BY LimiterTypeInit
<1>2. R!TypeOK /\ [R!Next]_(R!vars) => R!TypeOK'
  BY LimiterTypeNext
<1> QED
  BY <1>1, <1>2, PTL DEF R!Spec

-----------------------------------------------------------------------------
(* What is in the buckets *)

LEMMA ZsetInit == R!Init => ZsetInv
  BY FS_EmptySet DEF R!Init, ZsetInv

LEMMA ZsetNext == R!TypeOK /\ ZsetInv /\ [R!Next]_(R!vars) => ZsetInv'
<1> SUFFICES ASSUME R!TypeOK, ZsetInv, [R!Next]_(R!vars) PROVE ZsetInv'
  OBVIOUS
<1> USE DEF R!TypeOK, ZsetInv, Sizes
<1>1. ASSUME NEW h \in Clients, NEW r \in Routes, R!Begin(h, r) PROVE ZsetInv'
  BY <1>1 DEF R!Begin
<1>2. ASSUME NEW h \in Clients, R!Count(h) PROVE ZsetInv'
  <2>1. \A b \in R!Buckets : zset'[b] \subseteq zset[b]
    BY <1>2, OwnBucket DEF R!Count, R!Recent
  <2>2. ASSUME NEW e \in admitted, e.stamp + Window > second
        PROVE  e \in zset'[Bucket[e.route]]
    <3>1. e.stamp + Window > member[h].stamp
      BY <2>2, OwnBucket DEF R!Request
    <3> QED
      BY <1>2, <2>2, <3>1 DEF R!Count, R!Recent
  <2> QED
    BY <1>2, <2>1, <2>2 DEF R!Count
<1>3. ASSUME NEW h \in Clients, R!Add(h) PROVE ZsetInv'
  <2>1. IsFiniteSet(admitted \cup {member[h]})
    BY FS_AddElement
  <2>2. \A b \in R!Buckets :
            zset'[b] = IF b = R!Own(h) THEN zset[b] \cup {member[h]} ELSE zset[b]
    BY <1>3, OwnBucket DEF R!Add
  <2>3. \A b \in R!Buckets : \A e \in zset'[b] : e \in admitted' /\ Bucket[e.route] = b
    BY <1>3, <2>2 DEF R!Add, R!Own
  <2>4. ASSUME NEW e \in admitted', e.stamp + Window > second
        PROVE  e \in zset'[Bucket[e.route]]
    <3>1. e \in R!Request /\ Bucket[e.route] \in R!Buckets
      BY <1>3, OwnBucket DEF R!Add, R!Request, R!Buckets
    <3> QED
      BY <1>3, <2>2, <2>4, <3>1 DEF R!Add, R!Own
  <2> QED
    BY <1>3, <2>1, <2>3, <2>4 DEF R!Add
<1>4. ASSUME NEW h \in Clients, R!RedisFails(h) PROVE ZsetInv'
  BY <1>4 DEF R!RedisFails
<1>5. ASSUME R!Tick PROVE ZsetInv'
  <2>1. \A h \in Clients : member[h].stamp \in Nat
    BY OwnBucket DEF R!Request
  <2>2. \A e \in admitted : e.stamp \in Nat
    BY DEF R!Request
  <2> QED
    BY <1>5, <2>1, <2>2 DEF R!Tick
<1>6. CASE UNCHANGED R!vars
  BY <1>6 DEF R!vars
<1> QED
  BY <1>1, <1>2, <1>3, <1>4, <1>5, <1>6 DEF R!Next

-----------------------------------------------------------------------------
(* The limit *)

(* The sets that are counted are finite, so that counting them is monotone. *)
LEMMA Counted ==
  ASSUME R!TypeOK, ZsetInv, NEW r \in Routes
  PROVE  /\ IsFiniteSet(R!Through(r)) /\ Cardinality(R!Through(r)) \in Nat
         /\ IsFiniteSet(Pending(r)) /\ Cardinality(Pending(r)) \in Nat
         /\ Cardinality(Pending(r)) <= Cardinality(Clients)
         /\ Cardinality(Clients) \in Nat \ {0} /\ Limit[r] \in Nat
<1>1. R!Through(r) \in SUBSET admitted
  BY DEF R!Through, R!Recent
<1>2. Pending(r) \in SUBSET Clients
  BY DEF Pending
<1>3. IsFiniteSet(admitted) /\ IsFiniteSet(Clients) /\ Clients # {}
  BY DEF ZsetInv, Sizes
<1>4. IsFiniteSet(R!Through(r)) /\ IsFiniteSet(Pending(r))
  BY <1>1, <1>2, <1>3, FS_Subset
<1>5. Cardinality(Pending(r)) <= Cardinality(Clients)
  BY <1>2, <1>3, FS_Subset
<1>6. Cardinality(Clients) \in Nat \ {0}
  BY <1>3, FS_CardinalityType, FS_EmptySet
<1> QED
  BY <1>4, <1>5, <1>6, FS_CardinalityType DEF Sizes

LEMMA PlacesInit == R!Init => PlacesInv
<1> SUFFICES ASSUME R!Init, NEW r \in Routes
             PROVE  Cardinality(R!Through(r)) + Cardinality(Pending(r))
                        <= Limit[r] + Cardinality(Clients) - 1
  BY DEF PlacesInv
<1>1. R!Through(r) = {} /\ Pending(r) = {}
  BY DEF R!Init, R!Through, R!Recent, Pending
<1> QED
  BY <1>1, LimiterTypeInit, ZsetInit, Counted, FS_EmptySet

(* Nothing a step takes from the two sets can break the bound.              *)
LEMMA PlacesShrink ==
  ASSUME R!TypeOK, ZsetInv, PlacesInv, NEW r \in Routes,
         NEW S \in SUBSET R!Through(r), NEW T \in SUBSET Pending(r)
  PROVE  Cardinality(S) + Cardinality(T) <= Limit[r] + Cardinality(Clients) - 1
<1>1. IsFiniteSet(S) /\ Cardinality(S) <= Cardinality(R!Through(r))
  BY Counted, FS_Subset
<1>2. IsFiniteSet(T) /\ Cardinality(T) <= Cardinality(Pending(r))
  BY Counted, FS_Subset
<1>3. Cardinality(S) \in Nat /\ Cardinality(T) \in Nat
  BY <1>1, <1>2, FS_CardinalityType
<1> QED
  BY <1>1, <1>2, <1>3, Counted DEF PlacesInv

LEMMA PlacesNext ==
  R!TypeOK /\ ZsetInv /\ PlacesInv /\ [R!Next]_(R!vars) => PlacesInv'
<1> SUFFICES ASSUME R!TypeOK, ZsetInv, PlacesInv, [R!Next]_(R!vars), NEW r \in Routes
             PROVE  Cardinality(R!Through(r)') + Cardinality(Pending(r)')
                        <= Limit[r] + Cardinality(Clients) - 1
  BY DEF PlacesInv, R!Through, R!Recent, Pending
<1>0. R!TypeOK' /\ ZsetInv'
  BY LimiterTypeNext, ZsetNext
<1> DEFINE Bounded == Cardinality(R!Through(r)') + Cardinality(Pending(r)')
                          <= Limit[r] + Cardinality(Clients) - 1
<1>1. ASSUME NEW h \in Clients, NEW s \in Routes, R!Begin(h, s) PROVE Bounded
  <2>1. R!Through(r)' = R!Through(r)
    BY <1>1 DEF R!Begin, R!Through, R!Recent
  <2>2. Pending(r)' \subseteq Pending(r)
    BY <1>1 DEF R!Begin, Pending, R!TypeOK
  <2> QED
    BY <2>1, <2>2, PlacesShrink
<1>2. ASSUME NEW h \in Clients, R!Count(h) PROVE Bounded
  <2> DEFINE left == R!Recent(zset[R!Own(h)], member[h].stamp)
  <2>1. R!Through(r)' = R!Through(r)
    BY <1>2 DEF R!Count, R!Through, R!Recent
  <2>2. CASE member[h].route = r /\ Cardinality(left) < Limit[r]
    <3>1. left \in SUBSET admitted
      BY OwnBucket DEF R!Recent, ZsetInv
    <3>2. IsFiniteSet(left)
      BY <3>1, FS_Subset DEF ZsetInv
    <3>3. ASSUME NEW e \in R!Through(r) PROVE e \in left
      <4>1. e \in admitted /\ e.stamp + Window > second /\ e.route = r
        BY DEF R!Through, R!Recent
      <4>2. e.stamp \in Nat /\ member[h].stamp \in Nat /\ second \in Nat /\ member[h].stamp <= second
        BY <4>1, OwnBucket DEF R!TypeOK, R!Request, ZsetInv
      <4>3. e \in zset[R!Own(h)]
        BY <2>2, <4>1 DEF ZsetInv, R!Own
      <4> QED
        BY <4>1, <4>2, <4>3 DEF R!Recent, Sizes
    <3>4. Cardinality(R!Through(r)) <= Cardinality(left)
      BY <3>2, <3>3, FS_Subset
    <3>5. Cardinality(R!Through(r)') + 1 <= Limit[r]
      BY <2>1, <2>2, <3>2, <3>4, Counted, FS_CardinalityType
    <3>6. Cardinality(Pending(r)') \in Nat /\ Cardinality(Pending(r)') <= Cardinality(Clients)
      <4>1. Pending(r)' \in SUBSET Clients
        BY DEF Pending
      <4> QED
        BY <4>1, FS_Subset, FS_CardinalityType DEF Sizes
    <3> QED
      BY <2>1, <3>5, <3>6, Counted
  <2>3. CASE ~(member[h].route = r /\ Cardinality(left) < Limit[r])
    <3>1. member[h].route = r => Cardinality(left) >= Limit[r]
      <4>1. left \in SUBSET admitted
        BY OwnBucket DEF R!Recent, ZsetInv
      <4>2. Cardinality(left) \in Nat
        BY <4>1, FS_Subset, FS_CardinalityType DEF ZsetInv
      <4> QED
        BY <2>3, <4>2, Counted
    <3>2. Pending(r)' \subseteq Pending(r)
      BY <1>2, <3>1, LimiterCounts DEF R!Count, Pending, R!TypeOK
    <3> QED
      BY <2>1, <3>2, PlacesShrink
  <2> QED
    BY <2>2, <2>3
<1>3. ASSUME NEW h \in Clients, R!Add(h) PROVE Bounded
  <2>1. CASE member[h].route = r
    <3>1. R!Through(r)' \subseteq R!Through(r) \cup {member[h]}
      BY <1>3 DEF R!Add, R!Through, R!Recent
    <3>2. Pending(r)' = Pending(r) \ {h} /\ h \in Pending(r)
      BY <1>3, <2>1 DEF R!Add, Pending, R!TypeOK
    <3>3. /\ IsFiniteSet(R!Through(r) \cup {member[h]})
          /\ Cardinality(R!Through(r) \cup {member[h]}) <= Cardinality(R!Through(r)) + 1
      <4>1. IsFiniteSet(R!Through(r)) /\ Cardinality(R!Through(r)) \in Nat
        BY Counted
      <4>2. Cardinality(R!Through(r) \cup {member[h]}) =
                IF member[h] \in R!Through(r) THEN Cardinality(R!Through(r))
                                         ELSE Cardinality(R!Through(r)) + 1
        BY <4>1, FS_AddElement
      <4> QED
        BY <4>1, <4>2, FS_AddElement
    <3>4. /\ Cardinality(R!Through(r)') \in Nat
          /\ Cardinality(R!Through(r)') <= Cardinality(R!Through(r) \cup {member[h]})
      BY <3>1, <3>3, FS_Subset, FS_CardinalityType
    <3>5. Cardinality(Pending(r)') = Cardinality(Pending(r)) - 1
      <4>1. IsFiniteSet(Pending(r))
        BY Counted
      <4> QED
        BY <3>2, <4>1, FS_RemoveElement
    <3>6. Cardinality(R!Through(r) \cup {member[h]}) \in Nat
      BY <3>3, FS_CardinalityType
    <3> QED
      BY <3>3, <3>4, <3>5, <3>6, Counted DEF PlacesInv
  <2>2. CASE member[h].route # r
    <3>1. R!Through(r)' = R!Through(r)
      BY <1>3, <2>2 DEF R!Add, R!Through, R!Recent
    <3>2. Pending(r)' \subseteq Pending(r)
      BY <1>3 DEF R!Add, Pending, R!TypeOK
    <3> QED
      BY <3>1, <3>2, PlacesShrink
  <2> QED
    BY <2>1, <2>2
<1>4. ASSUME NEW h \in Clients, R!RedisFails(h) PROVE Bounded
  <2>1. R!Through(r)' = R!Through(r)
    BY <1>4 DEF R!RedisFails, R!Through, R!Recent
  <2>2. Pending(r)' \subseteq Pending(r)
    BY <1>4 DEF R!RedisFails, Pending, R!TypeOK
  <2> QED
    BY <2>1, <2>2, PlacesShrink
<1>5. ASSUME R!Tick PROVE Bounded
  <2>1. \A e \in admitted : e.stamp \in Nat
    BY DEF R!TypeOK, R!Request, Sizes
  <2>2. R!Through(r)' \subseteq R!Through(r)
    BY <1>5, <2>1 DEF R!Tick, R!Through, R!Recent, R!TypeOK, Sizes
  <2>3. Pending(r)' = Pending(r)
    BY <1>5 DEF R!Tick, Pending
  <2> QED
    BY <2>2, <2>3, PlacesShrink
<1>6. CASE UNCHANGED R!vars
  <2>1. R!Through(r)' = R!Through(r) /\ Pending(r)' = Pending(r)
    BY <1>6 DEF R!vars, R!Through, R!Recent, Pending
  <2> QED
    BY <2>1, PlacesShrink
<1> QED
  BY <1>1, <1>2, <1>3, <1>4, <1>5, <1>6 DEF R!Next

LEMMA BoundFollows == LimiterInv => R!OvershootBounded
  BY Counted, LimiterCounts DEF LimiterInv, PlacesInv, R!OvershootBounded

LEMMA LimiterInductive ==
  (R!Init => LimiterInv) /\ (LimiterInv /\ [R!Next]_(R!vars) => LimiterInv')
  BY LimiterTypeInit, ZsetInit, PlacesInit, LimiterTypeNext, ZsetNext, PlacesNext DEF LimiterInv

(* The docstring of is_allowed calls the two pipelines atomic; they are not,*)
(* and this is what that costs: never more than the other requests of the   *)
(* client that are being handled, whatever the limits and the window.       *)
THEOREM Overshoot == R!Spec => []R!OvershootBounded
<1>1. R!Init => LimiterInv
  BY LimiterInductive
<1>2. LimiterInv /\ [R!Next]_(R!vars) => LimiterInv'
  BY LimiterInductive
<1>3. LimiterInv => R!OvershootBounded
  BY BoundFollows
<1> QED
  BY <1>1, <1>2, <1>3, PTL DEF R!Spec

-----------------------------------------------------------------------------
(* Denials *)

LEMMA DenialNext ==
  ASSUME R!TypeOK, ZsetInv, [R!Next]_(R!vars), NEW h \in Clients,
         step[h] = "called", step'[h] = "idle", failures' = failures
  PROVE  Cardinality({e \in R!Recent(admitted, member[h].stamp) : Bucket[e.route] = R!Own(h)})
             >= Limit[member[h].route]
<1> DEFINE left == R!Recent(zset[R!Own(h)], member[h].stamp)
           held == {e \in R!Recent(admitted, member[h].stamp) : Bucket[e.route] = R!Own(h)}
<1>1. R!Count(h)
  <2>1. ASSUME NEW g \in Clients, NEW r \in Routes, R!Begin(g, r) PROVE FALSE
    BY <2>1 DEF R!Begin, R!TypeOK
  <2>2. ASSUME NEW g \in Clients, R!Add(g) PROVE FALSE
    BY <2>2 DEF R!Add, R!TypeOK
  <2>3. ASSUME NEW g \in Clients, R!RedisFails(g) PROVE FALSE
    BY <2>3 DEF R!RedisFails, R!TypeOK, Sizes
  <2>4. ASSUME NEW g \in Clients, R!Count(g) PROVE g = h
    BY <2>4 DEF R!Count, R!TypeOK
  <2>5. ~R!Tick /\ ~UNCHANGED R!vars
    BY DEF R!Tick, R!vars
  <2> QED
    BY <2>1, <2>2, <2>3, <2>4, <2>5 DEF R!Next
<1>2. Cardinality(left) >= Limit[member[h].route]
  BY <1>1, LimiterCounts DEF R!Count, R!TypeOK
<1>3. left \subseteq held /\ held \subseteq admitted
  BY OwnBucket DEF R!Recent, ZsetInv
<1>4. IsFiniteSet(held)
  BY <1>3, FS_Subset DEF ZsetInv
<1>5. IsFiniteSet(left) /\ Cardinality(left) <= Cardinality(held)
  BY <1>3, <1>4, FS_Subset
<1>6. Cardinality(left) \in Nat /\ Cardinality(held) \in Nat /\ Limit[member[h].route] \in Nat
  BY <1>4, <1>5, FS_CardinalityType, OwnBucket DEF Sizes
<1> QED
  BY <1>2, <1>5, <1>6

(* A client is denied only if the limit was let through in its window:      *)
(* denied requests are not counted, so waiting helps.                       *)
THEOREM Denials == R!Spec => R!DeniedHadLimit
<1>1. R!Init => R!TypeOK /\ ZsetInv
  BY LimiterTypeInit, ZsetInit
<1>2. R!TypeOK /\ ZsetInv /\ [R!Next]_(R!vars) => (R!TypeOK /\ ZsetInv)'
  BY LimiterTypeNext, ZsetNext
<1>3. R!TypeOK /\ ZsetInv /\ [R!Next]_(R!vars) =>
        [\A h \in Clients :
            step[h] = "called" /\ step'[h] = "idle" /\ failures' = failures =>
                R!Cardinality({e \in R!Recent(admitted, member[h].stamp) :
                                 Bucket[e.route] = R!Own(h)})
                    >= Limit[member[h].route]]_(R!vars)
  BY DenialNext, LimiterCounts
<1> QED
  BY <1>1, <1>2, <1>3, PTL DEF R!Spec, R!DeniedHadLimit

HIDE Sizes DEF Sizes

-----------------------------------------------------------------------------
(* The accounts *)

USE Lives DEF Lives

Register == [op : {"register"}, email : Emails, pwd : Passwords, role : BOOLEAN, since : Nat]
SignIn == [op : {"login", "refresh"}, user : A!Keys, roles : SUBSET A!RoleNames, since : Nat]
NewPassword == [op : {"reset", "change"}, user : A!Keys, pwd : Passwords]
Held == {A!Idle} \cup Register \cup SignIn \cup NewPassword

AccountsTypeInv ==
    /\ A!TypeOK
    /\ day \in 0..MaxDays
    /\ off \in [A!Keys -> Nat]
    /\ call \in [Clients -> Held]

(* What a handler has read was so when it began: its user is there, and if  *)
(* the user is deactivated by now, that came after.                         *)
Read(q) ==
    /\ q.op \in {"register", "login", "refresh"} => q.since <= day
    /\ q.op \in {"login", "refresh", "reset", "change"} => A!Exists(q.user)
    /\ q.op \in {"login", "refresh"} /\ ~users[q.user].active => q.since <= off[q.user]

ReadInv == \A h \in Clients : Read(call[h])

(* A token is for a user there is, and was not begun in the future.         *)
TokenInv == \A t \in tokens : A!Exists(t.user) /\ t.began <= day

(* Where requests come one at a time, the email a registration has looked   *)
(* up stays unknown until it commits.                                       *)
AloneInv ==
    scene = "alone" =>
        /\ \A u, v \in A!Keys : A!Exists(u) /\ A!Exists(v) /\ u[2] = v[2] => u = v
        /\ \A g, h \in Clients : call[g] # A!Idle /\ call[h] # A!Idle => g = h
        /\ \A h \in Clients, u \in A!Keys :
              call[h].op = "register" /\ u[2] = call[h].email => ~A!Exists(u)

AccountsInv == AccountsTypeInv /\ ReadInv /\ TokenInv /\ A!DeactivatedGetNothing /\ AloneInv

-----------------------------------------------------------------------------
(* Rows *)

LEMMA UserIsNot == A!NoUser \notin A!User
  BY DEF A!NoUser, A!User, A!RoleNames

LEMMA UserRow ==
  ASSUME AccountsTypeInv, NEW u \in A!Keys
  PROVE  /\ A!Exists(u) <=> users[u] \in A!User
         /\ A!Exists(u) => users[u].active \in BOOLEAN /\ users[u].roles \subseteq A!RoleNames
  BY UserIsNot DEF AccountsTypeInv, A!TypeOK, A!Exists, A!User

LEMMA HeldTyped ==
  ASSUME AccountsTypeInv, NEW h \in Clients, NEW r \in Held
  PROVE  /\ [call EXCEPT ![h] = r] \in [Clients -> Held]
         /\ [call EXCEPT ![h] = r][h] = r
         /\ \A g \in Clients \ {h} : [call EXCEPT ![h] = r][g] = call[g]
         /\ A!Idle \in Held
  BY DEF AccountsTypeInv, Held

LEMMA Released ==
  ASSUME AccountsTypeInv, NEW h \in Clients, A!Release(h)
  PROVE  /\ call' \in [Clients -> Held] /\ call'[h] = A!Idle
         /\ \A g \in Clients : call'[g] = call[g] \/ call'[g] = A!Idle
<1>1. A!Idle \in Held
  BY DEF Held
<1> QED
  BY <1>1 DEF A!Release, AccountsTypeInv

-----------------------------------------------------------------------------
(* The three kinds of steps *)

(* A step that only begins or ends requests, or lets time pass.             *)
LEMMA OnlyRequests ==
  ASSUME AccountsInv, UNCHANGED <<scene, users, roles, tokens, off>>,
         suspended' \subseteq Companies,
         day' \in 0..MaxDays, day <= day',
         call' \in [Clients -> Held],
         \A h \in Clients :
            \/ call'[h] = call[h] \/ call'[h] = A!Idle
            \/ call'[h].op # "register" /\ Read(call'[h])
            \/ /\ call'[h].op = "register" /\ call'[h].since <= day
               /\ \A u \in A!Keys : u[2] = call'[h].email => ~A!Exists(u),
         \A h \in Clients : scene = "alone" /\ call'[h] # call[h] /\ call'[h] # A!Idle
            => \A g \in Clients : call[g] = A!Idle /\ (g # h => call'[g] = A!Idle)
  PROVE  AccountsInv'
<1>1. AccountsTypeInv'
  BY DEF AccountsInv, AccountsTypeInv, A!TypeOK
<1>2. ReadInv'
  <2> SUFFICES ASSUME NEW h \in Clients PROVE Read(call[h])'
    BY DEF ReadInv
  <2>1. Read(call'[h])
    BY DEF AccountsInv, ReadInv, Read, A!Idle
  <2>2. call'[h].op \in {"register", "login", "refresh"} => call'[h].since \in Nat
    BY DEF Held, A!Idle, Register, SignIn, NewPassword
  <2>3. day \in Nat /\ day' \in Nat
    BY DEF AccountsInv, AccountsTypeInv, Lives
  <2> QED
    BY <2>1, <2>2, <2>3 DEF Read, A!Exists
<1>3. TokenInv'
  BY DEF AccountsInv, TokenInv, AccountsTypeInv, A!TypeOK, A!Token, A!Exists
<1>4. A!DeactivatedGetNothing'
  BY DEF AccountsInv, A!DeactivatedGetNothing, A!Exists
<1>5. AloneInv'
  BY DEF AccountsInv, AloneInv, A!Exists, A!Idle
<1> QED
  BY <1>1, <1>2, <1>3, <1>4, <1>5 DEF AccountsInv

(* A step that issues tokens to users there are.                            *)
LEMMA OnlyTokens ==
  ASSUME AccountsInv, UNCHANGED <<day, scene, users, roles, off>>,
         suspended' \subseteq Companies,
         NEW T \in SUBSET A!Token, tokens' = tokens \cup T,
         \A t \in T : /\ A!Exists(t.user) /\ t.began <= day
                      /\ ~users[t.user].active => t.began <= off[t.user],
         call' \in [Clients -> Held],
         \A h \in Clients : call'[h] = call[h] \/ call'[h] = A!Idle
  PROVE  AccountsInv'
<1>1. AccountsTypeInv'
  BY DEF AccountsInv, AccountsTypeInv, A!TypeOK
<1>2. ReadInv'
  BY DEF AccountsInv, ReadInv, Read, A!Exists, A!Idle
<1>3. TokenInv'
  BY DEF AccountsInv, TokenInv, A!Exists
<1>4. A!DeactivatedGetNothing'
  BY DEF AccountsInv, A!DeactivatedGetNothing, A!Exists
<1>5. AloneInv'
  BY DEF AccountsInv, AloneInv, A!Exists, A!Idle
<1> QED
  BY <1>1, <1>2, <1>3, <1>4, <1>5 DEF AccountsInv

(* A step that writes the table of users, with at most one new row, n.      *)
LEMMA OnlyRows ==
  ASSUME AccountsInv, UNCHANGED <<day, scene, suspended>>,
         roles' \subseteq A!RoleNames,
         users' \in [A!Keys -> A!User \cup {A!NoUser}],
         off' \in [A!Keys -> Nat],
         call' \in [Clients -> Held],
         \A h \in Clients : call'[h] = call[h] \/ call'[h] = A!Idle,
         NEW n \in A!Keys,
         \A u \in A!Keys : A!Exists(u) =>
            /\ users'[u] # A!NoUser
            /\ \/ users'[u].active
               \/ ~users[u].active /\ off'[u] = off[u]
               \/ off'[u] = day,
         \A u \in A!Keys \ {n} : ~A!Exists(u) => users'[u] = A!NoUser,
         ~A!Exists(n) => users'[n].active,
         scene = "alone" /\ ~A!Exists(n) =>
            /\ \A h \in Clients : call'[h] = A!Idle
            /\ \A u \in A!Keys : u[2] = n[2] => ~A!Exists(u),
         NEW T \in SUBSET A!Token, tokens' = tokens \cup T,
         \A t \in T : t.user = n /\ ~A!Exists(n) /\ t.began <= day
  PROVE  AccountsInv'
<1>1. AccountsTypeInv'
  BY DEF AccountsInv, AccountsTypeInv, A!TypeOK
<1>2. ~A!Exists(n) => users'[n] # A!NoUser
  BY DEF A!NoUser
<1>3. ReadInv'
  <2> SUFFICES ASSUME NEW h \in Clients PROVE Read(call[h])'
    BY DEF ReadInv
  <2>1. CASE call'[h] = A!Idle
    BY <2>1 DEF Read, A!Idle
  <2>2. CASE call'[h] = call[h]
    <3>1. Read(call[h])
      BY DEF AccountsInv, ReadInv
    <3>2. call[h].op \in {"login", "refresh", "reset", "change"} => call[h].user \in A!Keys
      BY DEF AccountsInv, AccountsTypeInv, Held, A!Idle, Register, SignIn, NewPassword
    <3> QED
      BY <2>2, <3>1, <3>2 DEF Read, A!Exists
  <2> QED
    BY <2>1, <2>2
<1>4. \A t \in tokens : t.user \in A!Keys /\ A!Exists(t.user) /\ t.began <= day
  BY DEF AccountsInv, TokenInv, AccountsTypeInv, A!TypeOK, A!Token
<1>5. TokenInv'
  BY <1>2, <1>4 DEF TokenInv, A!Exists
<1>6. A!DeactivatedGetNothing'
  BY <1>4 DEF AccountsInv, A!DeactivatedGetNothing, A!Exists
<1>7. AloneInv'
  <2> SUFFICES ASSUME scene = "alone" PROVE AloneInv'
    BY DEF AloneInv
  <2>1. \A g, h \in Clients : call'[g] # A!Idle /\ call'[h] # A!Idle => g = h
    BY DEF AccountsInv, AloneInv
  <2>2. CASE A!Exists(n)
    <3>1. \A u \in A!Keys : users'[u] # A!NoUser <=> A!Exists(u)
      BY <2>2
    <3> QED
      BY <2>1, <3>1 DEF AccountsInv, AloneInv, A!Exists, A!Idle
  <2>3. CASE ~A!Exists(n)
    <3>1. \A u \in A!Keys : users'[u] # A!NoUser => A!Exists(u) \/ u = n
      OBVIOUS
    <3>2. \A u, v \in A!Keys : users'[u] # A!NoUser /\ users'[v] # A!NoUser /\ u[2] = v[2] => u = v
      BY <2>3, <3>1 DEF AccountsInv, AloneInv
    <3> QED
      BY <2>1, <2>3, <3>2 DEF AloneInv, A!Exists, A!Idle
  <2> QED
    BY <2>2, <2>3
<1> QED
  BY <1>1, <1>3, <1>5, <1>6, <1>7 DEF AccountsInv

-----------------------------------------------------------------------------
(* Requests and tokens *)

LEMMA AccountsInit == A!Init => AccountsInv
<1> SUFFICES ASSUME A!Init PROVE AccountsInv
  OBVIOUS
<1>1. AccountsTypeInv
  BY DEF Lives, A!Init, AccountsTypeInv, A!TypeOK, Held
<1>2. ReadInv
  BY DEF A!Init, ReadInv, Read, A!Idle
<1>3. TokenInv /\ A!DeactivatedGetNothing
  BY DEF A!Init, TokenInv, A!DeactivatedGetNothing
<1>4. AloneInv
  BY DEF A!Init, AloneInv, A!Exists, A!Idle
<1> QED
  BY <1>1, <1>2, <1>3, <1>4 DEF AccountsInv

(* What the first step of a handler hands to its second.                    *)
LEMMA Begins ==
  ASSUME AccountsInv, NEW h \in Clients, NEW r \in Held, A!Start(h), A!Hold(h, r),
         UNCHANGED <<day, scene, users, roles, suspended, tokens, off>>,
         \/ r.op # "register" /\ Read(r)
         \/ /\ r.op = "register" /\ r.since <= day
            /\ \A u \in A!Keys : u[2] = r.email => ~A!Exists(u)
  PROVE  AccountsInv'
<1>1. /\ call' \in [Clients -> Held] /\ call'[h] = r
      /\ \A g \in Clients \ {h} : call'[g] = call[g]
  BY HeldTyped DEF A!Hold, AccountsInv
<1>2. scene = "alone" => \A g \in Clients : call[g] = A!Idle
  BY DEF A!Start
<1>3. day \in 0..MaxDays /\ day <= day /\ suspended \subseteq Companies
  BY DEF AccountsInv, AccountsTypeInv, A!TypeOK, Lives
<1> QED
  BY <1>1, <1>2, <1>3, OnlyRequests

LEMMA BeginsInv ==
  ASSUME AccountsInv, NEW h \in Clients,
         \/ \E e \in Emails, p \in Passwords : A!RegisterCheck(h, e, p) \/ A!LoginCheck(h, e, p)
         \/ \E t \in tokens : A!RefreshCheck(h, t) \/ \E p \in Passwords : A!ResetCheck(h, t, p)
         \/ \E t \in A!Callers, old, new \in Passwords : A!ChangeCheck(h, t, old, new)
  PROVE  AccountsInv'
<1>0. day \in Nat /\ day <= day
  BY DEF AccountsInv, AccountsTypeInv, Lives
<1>1. ASSUME NEW e \in Emails, NEW p \in Passwords, A!RegisterCheck(h, e, p) PROVE AccountsInv'
  <2> DEFINE r == [op |-> "register", email |-> e, pwd |-> p, role |-> "owner" \in roles,
                   since |-> day]
  <2>1. r \in Held /\ r.op = "register" /\ r.since = day /\ r.email = e
    BY <1>0 DEF Held, Register
  <2>2. \A u \in A!Keys : u[2] = e => ~A!Exists(u)
    BY <1>1 DEF A!RegisterCheck, A!WithEmail
  <2> QED
    BY <1>0, <1>1, <2>1, <2>2, Begins DEF A!RegisterCheck
<1>2. ASSUME NEW e \in Emails, NEW p \in Passwords, A!LoginCheck(h, e, p) PROVE AccountsInv'
  <2>1. PICK u \in A!WithEmail(e) :
           /\ users[u].active
           /\ A!Hold(h, [op |-> "login", user |-> u, roles |-> users[u].roles, since |-> day])
    BY <1>2 DEF A!LoginCheck
  <2> DEFINE r == [op |-> "login", user |-> u, roles |-> users[u].roles, since |-> day]
  <2>2. u \in A!Keys /\ A!Exists(u)
    BY DEF A!WithEmail
  <2>3. r \in Held
    BY <1>0, <2>2, UserRow DEF AccountsInv, Held, SignIn
  <2>4. r.op # "register" /\ Read(r)
    BY <1>0, <2>1, <2>2 DEF Read
  <2> QED
    BY <1>2, <2>1, <2>3, <2>4, Begins DEF A!LoginCheck
<1>3. ASSUME NEW t \in tokens, A!RefreshCheck(h, t) PROVE AccountsInv'
  <2> DEFINE r == [op |-> "refresh", user |-> t.user, roles |-> users[t.user].roles,
                   since |-> day]
  <2>1. t.user \in A!Keys /\ A!Exists(t.user) /\ users[t.user].active
    BY <1>3 DEF A!RefreshCheck, AccountsInv, AccountsTypeInv, A!TypeOK, A!Token
  <2>2. r \in Held
    BY <1>0, <2>1, UserRow DEF AccountsInv, Held, SignIn
  <2>3. r.op # "register" /\ Read(r)
    BY <1>0, <2>1 DEF Read
  <2> QED
    BY <1>3, <2>2, <2>3, Begins DEF A!RefreshCheck
<1>4. ASSUME NEW t \in tokens, NEW p \in Passwords, A!ResetCheck(h, t, p) PROVE AccountsInv'
  <2> DEFINE r == [op |-> "reset", user |-> t.user, pwd |-> p]
  <2>1. t.user \in A!Keys /\ A!Exists(t.user)
    BY <1>4 DEF A!ResetCheck, AccountsInv, AccountsTypeInv, A!TypeOK, A!Token
  <2>2. r \in Held /\ r.op # "register" /\ Read(r)
    BY <2>1 DEF Held, NewPassword, Read
  <2> QED
    BY <1>4, <2>2, Begins DEF A!ResetCheck
<1>5. ASSUME NEW t \in A!Callers, NEW old \in Passwords, NEW new \in Passwords,
             A!ChangeCheck(h, t, old, new)
      PROVE  AccountsInv'
  <2> DEFINE r == [op |-> "change", user |-> t.user, pwd |-> new]
  <2>1. t.user \in A!Keys /\ A!Exists(t.user)
    BY <1>5 DEF A!ChangeCheck, A!Callers, AccountsInv, AccountsTypeInv, A!TypeOK, A!Token
  <2>2. r \in Held /\ r.op # "register" /\ Read(r)
    BY <2>1 DEF Held, NewPassword, Read
  <2> QED
    BY <1>5, <2>2, Begins DEF A!ChangeCheck
<1> QED
  BY <1>1, <1>2, <1>3, <1>4, <1>5

(* The tokens a sign-in, an impersonation and a reset issue.                *)
LEMMA Issued ==
  ASSUME day \in 0..MaxDays, NEW u \in A!Keys, NEW rs \in SUBSET A!RoleNames,
         NEW since \in Nat, since <= day
  PROVE  /\ {A!Access(u, rs, since), A!Refresh(u, since), A!Reset(u)} \in SUBSET A!Token
         /\ \A t \in {A!Access(u, rs, since), A!Refresh(u, since)} : t.user = u /\ t.began = since
         /\ A!Reset(u).user = u /\ A!Reset(u).began = day
<1>1. /\ day + AccessLife \in 0..(MaxDays + RefreshLife)
      /\ day + RefreshLife \in 0..(MaxDays + RefreshLife)
      /\ day + ResetLife \in 0..(MaxDays + RefreshLife)
      /\ since \in 0..MaxDays
  BY DEF Lives
<1> QED
  BY <1>1 DEF A!Access, A!Refresh, A!Reset, A!Token, A!RoleNames

LEMMA IssuesInv ==
  ASSUME AccountsInv, NEW h \in Clients,
         \/ A!SignInCommit(h) \/ \E e \in Emails : A!ForgotPassword(h, e)
         \/ \E t \in A!Callers, c \in Companies : A!Impersonate(h, t, c)
  PROVE  AccountsInv'
<1>0. day \in 0..MaxDays /\ day \in Nat /\ day <= day /\ suspended \subseteq Companies
  BY DEF AccountsInv, AccountsTypeInv, A!TypeOK, Lives
<1>1. ASSUME A!SignInCommit(h) PROVE AccountsInv'
  <2> DEFINE q == call[h]
             T == {A!Access(q.user, q.roles, q.since), A!Refresh(q.user, q.since)}
  <2>1. q \in SignIn
    BY <1>1 DEF A!SignInCommit, AccountsInv, AccountsTypeInv, Held, A!Idle, Register, NewPassword
  <2>2. Read(q) /\ q.op \in {"login", "refresh"}
    BY <1>1 DEF A!SignInCommit, AccountsInv, ReadInv
  <2>3. T \in SUBSET A!Token /\ \A t \in T : t.user = q.user /\ t.began = q.since
    BY <1>0, <2>1, <2>2, Issued DEF SignIn, Read
  <2>4. \A t \in T : /\ A!Exists(t.user) /\ t.began <= day
                     /\ ~users[t.user].active => t.began <= off[t.user]
    BY <2>2, <2>3 DEF Read
  <2>5. tokens' = tokens \cup T /\ UNCHANGED <<day, scene, users, roles, suspended, off>>
    BY <1>1 DEF A!SignInCommit, A!CreateTokens
  <2>6. call' \in [Clients -> Held] /\ \A g \in Clients : call'[g] = call[g] \/ call'[g] = A!Idle
    BY <1>1, Released DEF A!SignInCommit, AccountsInv
  <2> QED
    BY <1>0, <2>3, <2>4, <2>5, <2>6, OnlyTokens
<1>2. ASSUME NEW e \in Emails, A!ForgotPassword(h, e) PROVE AccountsInv'
  <2>1. PICK u \in A!WithEmail(e) : users[u].active /\ tokens' = tokens \cup {A!Reset(u)}
    BY <1>2 DEF A!ForgotPassword
  <2>2. u \in A!Keys /\ A!Exists(u)
    BY DEF A!WithEmail
  <2>3. {A!Reset(u)} \in SUBSET A!Token /\ A!Reset(u).user = u /\ A!Reset(u).began = day
    BY <1>0, <2>2, Issued
  <2>4. call' = call /\ UNCHANGED <<day, scene, users, roles, suspended, off>>
    BY <1>2 DEF A!ForgotPassword, A!Once
  <2> QED
    BY <1>0, <2>1, <2>2, <2>3, <2>4, OnlyTokens DEF AccountsInv, AccountsTypeInv
<1>3. ASSUME NEW s \in A!Callers, NEW c \in Companies, A!Impersonate(h, s, c) PROVE AccountsInv'
  <2> DEFINE rs == {"platform_admin", "owner"}
  <2>1. PICK u \in {c} \X Emails :
           A!Exists(u) /\ users[u].active /\ tokens' = A!CreateTokens(u, rs, day)
    BY <1>3 DEF A!Impersonate
  <2> DEFINE T == {A!Access(u, rs, day), A!Refresh(u, day)}
  <2>2. u \in A!Keys /\ rs \in SUBSET A!RoleNames
    BY DEF A!Keys, A!RoleNames
  <2>3. T \in SUBSET A!Token /\ \A t \in T : t.user = u /\ t.began = day
    BY <1>0, <2>2, Issued
  <2>4. call' = call /\ UNCHANGED <<day, scene, users, roles, suspended, off>>
    BY <1>3 DEF A!Impersonate, A!Once
  <2> QED
    BY <1>0, <2>1, <2>3, <2>4, OnlyTokens DEF AccountsInv, AccountsTypeInv, A!CreateTokens
<1> QED
  BY <1>1, <1>2, <1>3

-----------------------------------------------------------------------------
(* Rows of users *)

(* The frame of OnlyRows for a step that issues nothing.                    *)
LEMMA RowsAlone ==
  ASSUME AccountsInv, UNCHANGED <<day, scene, suspended, tokens>>,
         roles' \subseteq A!RoleNames,
         users' \in [A!Keys -> A!User \cup {A!NoUser}],
         off' \in [A!Keys -> Nat],
         call' \in [Clients -> Held],
         \A h \in Clients : call'[h] = call[h] \/ call'[h] = A!Idle,
         NEW n \in A!Keys,
         \A u \in A!Keys : A!Exists(u) =>
            /\ users'[u] # A!NoUser
            /\ \/ users'[u].active
               \/ ~users[u].active /\ off'[u] = off[u]
               \/ off'[u] = day,
         \A u \in A!Keys \ {n} : ~A!Exists(u) => users'[u] = A!NoUser,
         ~A!Exists(n) => users'[n].active,
         scene = "alone" /\ ~A!Exists(n) =>
            /\ \A h \in Clients : call'[h] = A!Idle
            /\ \A u \in A!Keys : u[2] = n[2] => ~A!Exists(u)
  PROVE  AccountsInv'
<1> DEFINE T == {}
<1>1. T \in SUBSET A!Token /\ tokens' = tokens \cup T
      /\ \A t \in T : t.user = n /\ ~A!Exists(n) /\ t.began <= day
  OBVIOUS
<1> QED
  BY <1>1, OnlyRows

LEMMA RegisterInv ==
  ASSUME AccountsInv, NEW h \in Clients, NEW c \in Companies, A!RegisterCommit(h, c)
  PROVE  AccountsInv'
<1> DEFINE q == call[h]
           u == <<c, q.email>>
           row == [pwd |-> q.pwd, active |-> TRUE, roles |-> {"owner"}]
           T == {A!Access(u, {"owner"}, q.since), A!Refresh(u, q.since)}
<1>1. q \in Register
  BY DEF A!RegisterCommit, AccountsInv, AccountsTypeInv, Held, A!Idle, SignIn, NewPassword
<1>2. u \in A!Keys /\ ~A!Exists(u)
  BY <1>1 DEF A!RegisterCommit, Register, A!Keys
<1>3. row \in A!User /\ row.active /\ {"owner"} \in SUBSET A!RoleNames
  BY <1>1 DEF A!User, Register, A!RoleNames
<1>4. /\ call' \in [Clients -> Held] /\ call'[h] = A!Idle
      /\ \A g \in Clients : call'[g] = call[g] \/ call'[g] = A!Idle
  BY Released DEF A!RegisterCommit, AccountsInv
<1>5. UNCHANGED <<day, scene, suspended, off>>
  BY DEF A!RegisterCommit
<1>6. day \in 0..MaxDays /\ day \in Nat /\ day <= day
  BY DEF AccountsInv, AccountsTypeInv, Lives
<1>7. CASE UNCHANGED <<users, roles, tokens>>
  <2>1. suspended' \subseteq Companies
    BY <1>5 DEF AccountsInv, AccountsTypeInv, A!TypeOK
  <2> QED
    BY <1>4, <1>5, <1>6, <1>7, <2>1, OnlyRequests
<1>8. CASE /\ roles' = roles \cup {"owner"}
           /\ users' = [users EXCEPT ![u] = row]
           /\ tokens' = tokens \cup T
  <2>1. roles' \subseteq A!RoleNames /\ users' \in [A!Keys -> A!User \cup {A!NoUser}]
    BY <1>3, <1>8 DEF AccountsInv, AccountsTypeInv, A!TypeOK
  <2>2. /\ \A v \in A!Keys \ {u} : users'[v] = users[v]
        /\ users'[u].active
    BY <1>2, <1>3, <1>8 DEF AccountsInv, AccountsTypeInv, A!TypeOK
  <2>3. \A v \in A!Keys : A!Exists(v) => v # u /\ users'[v] = users[v] /\ users'[v] # A!NoUser
    BY <1>2, <2>2 DEF A!Exists
  <2>4. T \in SUBSET A!Token /\ \A t \in T : t.user = u /\ t.began <= day
    <3>1. q.since \in Nat /\ q.since <= day
      BY <1>1 DEF Register, AccountsInv, ReadInv, Read
    <3> HIDE DEF q, u, row
    <3>2. /\ {A!Access(u, {"owner"}, q.since), A!Refresh(u, q.since), A!Reset(u)} \in SUBSET A!Token
          /\ \A t \in {A!Access(u, {"owner"}, q.since), A!Refresh(u, q.since)} :
                t.user = u /\ t.began = q.since
      BY <1>2, <1>3, <1>6, <3>1, Issued
    <3> QED
      BY <3>1, <3>2
  <2>5. off' \in [A!Keys -> Nat]
    BY <1>5 DEF AccountsInv, AccountsTypeInv
  <2>6. scene = "alone" => /\ \A g \in Clients : call'[g] = A!Idle
                           /\ \A v \in A!Keys : v[2] = u[2] => ~A!Exists(v)
    <3>1. q # A!Idle /\ q.op = "register" /\ u[2] = q.email
      BY <1>1 DEF Register, A!Idle
    <3>2. scene = "alone" => \A g \in Clients : call[g] # A!Idle => g = h
      BY <3>1 DEF AccountsInv, AloneInv
    <3> QED
      BY <1>4, <3>1, <3>2 DEF AccountsInv, AloneInv
  <2>7. \A v \in A!Keys : A!Exists(v) =>
            /\ users'[v] # A!NoUser
            /\ \/ users'[v].active
               \/ ~users[v].active /\ off'[v] = off[v]
               \/ off'[v] = day
    <3>1. \A v \in A!Keys : A!Exists(v) => users[v].active \in BOOLEAN
      BY UserRow DEF AccountsInv
    <3> QED
      BY <1>5, <2>3, <3>1
  <2>8. \A v \in A!Keys \ {u} : ~A!Exists(v) => users'[v] = A!NoUser
    BY <2>2 DEF A!Exists
  <2>9. \A t \in T : t.user = u /\ ~A!Exists(u) /\ t.began <= day
    BY <1>2, <2>4
  <2> HIDE DEF q, u, row, T
  <2> QED
    BY <1>2, <1>4, <1>5, <1>8, <2>1, <2>2, <2>4, <2>5, <2>6, <2>7, <2>8, <2>9, OnlyRows
<1> QED
  BY <1>7, <1>8 DEF A!RegisterCommit, A!CreateTokens

(* A step that writes one row that is there, or n, which is not.            *)
LEMMA OneRow ==
  ASSUME AccountsInv, UNCHANGED <<day, scene, suspended, tokens>>,
         roles' \subseteq A!RoleNames,
         NEW n \in A!Keys, NEW row \in A!User, users' = [users EXCEPT ![n] = row],
         off' \in [A!Keys -> Nat], \A u \in A!Keys \ {n} : off'[u] = off[u],
         call' \in [Clients -> Held],
         \A h \in Clients : call'[h] = call[h] \/ call'[h] = A!Idle,
         A!Exists(n) => \/ row.active \/ off'[n] = day
                        \/ ~users[n].active /\ off'[n] = off[n],
         ~A!Exists(n) => row.active,
         scene = "alone" /\ ~A!Exists(n) =>
            /\ \A h \in Clients : call'[h] = A!Idle
            /\ \A u \in A!Keys : u[2] = n[2] => ~A!Exists(u)
  PROVE  AccountsInv'
<1>1. users' \in [A!Keys -> A!User \cup {A!NoUser}] /\ users'[n] = row
      /\ \A u \in A!Keys \ {n} : users'[u] = users[u]
  BY DEF AccountsInv, AccountsTypeInv, A!TypeOK
<1>2. row # A!NoUser
  BY UserIsNot
<1>3. ASSUME NEW u \in A!Keys, A!Exists(u)
      PROVE  /\ users'[u] # A!NoUser
             /\ \/ users'[u].active
                \/ ~users[u].active /\ off'[u] = off[u]
                \/ off'[u] = day
  <2>1. CASE u = n
    BY <1>1, <1>2, <1>3, <2>1
  <2>2. CASE u # n
    <3>1. users'[u] = users[u] /\ off'[u] = off[u] /\ users[u].active \in BOOLEAN
      BY <1>1, <1>3, <2>2, UserRow DEF AccountsInv
    <3> QED
      BY <1>3, <3>1 DEF A!Exists
  <2> QED
    BY <2>1, <2>2
<1>4. \A u \in A!Keys \ {n} : ~A!Exists(u) => users'[u] = A!NoUser
  BY <1>1 DEF A!Exists
<1> QED
  BY <1>1, <1>3, <1>4, RowsAlone

LEMMA RowsInv ==
  ASSUME AccountsInv,
         \/ \E h \in Clients : A!PasswordCommit(h)
         \/ \E h \in Clients, t \in A!Callers, e \in Emails, r \in A!Invitable :
               A!InviteUser(h, t, e, r)
         \/ \E h \in Clients, t \in A!Callers, u \in A!Keys :
               A!UpdateUser(h, t, u, TRUE) \/ A!DeactivateUser(h, t, u)
         \/ \E u \in A!Keys : A!Promote(u)
  PROVE  AccountsInv'
<1>0. /\ day \in Nat /\ off \in [A!Keys -> Nat] /\ roles \subseteq A!RoleNames
      /\ call \in [Clients -> Held] /\ users \in [A!Keys -> A!User \cup {A!NoUser}]
  BY DEF AccountsInv, AccountsTypeInv, A!TypeOK, Lives
<1>1. ASSUME NEW h \in Clients, A!PasswordCommit(h) PROVE AccountsInv'
  <2> DEFINE q == call[h]
             row == [users[q.user] EXCEPT !.pwd = q.pwd]
  <2>1. q \in NewPassword
    BY <1>1 DEF A!PasswordCommit, AccountsInv, AccountsTypeInv, Held, A!Idle, Register, SignIn
  <2>2. q.user \in A!Keys /\ q.pwd \in Passwords /\ A!Exists(q.user)
    BY <2>1 DEF NewPassword, AccountsInv, ReadInv, Read
  <2>3. users[q.user] \in A!User
    BY <2>2, UserRow DEF AccountsInv
  <2>4. row \in A!User /\ row.active = users[q.user].active /\ row.active \in BOOLEAN
    BY <2>2, <2>3 DEF A!User
  <2>5. users' = [users EXCEPT ![q.user] = row]
    BY <1>1 DEF A!PasswordCommit
  <2>6. UNCHANGED <<day, scene, suspended, tokens, roles, off>>
    BY <1>1 DEF A!PasswordCommit
  <2>7. call' \in [Clients -> Held] /\ \A g \in Clients : call'[g] = call[g] \/ call'[g] = A!Idle
    BY <1>1, Released DEF A!PasswordCommit, AccountsInv
  <2> HIDE DEF row, q
  <2> QED
    BY <1>0, <2>2, <2>4, <2>5, <2>6, <2>7, OneRow
<1>2. ASSUME NEW h \in Clients, NEW t \in A!Callers, NEW e \in Emails,
             NEW r \in A!Invitable, A!InviteUser(h, t, e, r)
      PROVE  AccountsInv'
  <2> DEFINE n == <<t.user[1], e>>
             row == [pwd |-> A!Temporary, active |-> TRUE, roles |-> {r} \cap roles]
  <2>1. t.user \in A!Keys
    BY DEF A!Callers, AccountsInv, AccountsTypeInv, A!TypeOK, A!Token
  <2>2. n \in A!Keys /\ ~A!Exists(n) /\ n[2] = e
    BY <1>2, <2>1 DEF A!Keys, A!InviteUser
  <2>3. row \in A!User /\ row.active
    BY <1>0 DEF A!User
  <2>4. users' = [users EXCEPT ![n] = row]
    BY <1>2 DEF A!InviteUser
  <2>5. UNCHANGED <<day, scene, suspended, tokens, roles, off, call>>
    BY <1>2 DEF A!InviteUser, A!Once
  <2>6. scene = "alone" => /\ \A g \in Clients : call'[g] = A!Idle
                           /\ \A u \in A!Keys : u[2] = n[2] => ~A!Exists(u)
    BY <1>2, <2>2, <2>5 DEF A!InviteUser, A!Once, A!Start, A!WithEmail
  <2> HIDE DEF row, n
  <2> QED
    BY <1>0, <2>2, <2>3, <2>4, <2>5, <2>6, OneRow
<1>3. ASSUME NEW h \in Clients, NEW t \in A!Callers, NEW u \in A!Keys, NEW a \in BOOLEAN,
             A!UpdateUser(h, t, u, a)
      PROVE  AccountsInv'
  <2> DEFINE row == [users[u] EXCEPT !.active = a]
  <2>1. A!Exists(u) /\ users[u] \in A!User /\ users[u].active \in BOOLEAN
    BY <1>3, UserRow DEF A!UpdateUser, AccountsInv
  <2>2. row \in A!User /\ row.active = a
    <3>1. {} \in SUBSET A!RoleNames
      OBVIOUS
    <3> QED
      BY <2>1, UserIsNot DEF A!User
  <2>3. users' = [users EXCEPT ![u] = row]
    BY <1>3 DEF A!UpdateUser
  <2>4. UNCHANGED <<day, scene, suspended, tokens, roles, call>>
    BY <1>3 DEF A!UpdateUser, A!Once
  <2>5. off' = IF a \/ ~users[u].active THEN off ELSE [off EXCEPT ![u] = day]
    BY <1>3 DEF A!UpdateUser
  <2>6. /\ off' \in [A!Keys -> Nat] /\ \A v \in A!Keys \ {u} : off'[v] = off[v]
        /\ a \/ off'[u] = day \/ (~users[u].active /\ off'[u] = off[u])
    BY <1>0, <2>1, <2>5
  <2> HIDE DEF row
  <2> QED
    BY <1>0, <2>1, <2>2, <2>3, <2>4, <2>6, OneRow
<1>4. ASSUME NEW u \in A!Keys, A!Promote(u) PROVE AccountsInv'
  <2> DEFINE row == [users[u] EXCEPT !.roles = {"platform_admin"}]
  <2>1. A!Exists(u) /\ users[u] \in A!User /\ users[u].active \in BOOLEAN
    BY <1>4, UserRow DEF A!Promote, A!WithEmail, AccountsInv
  <2>2. row \in A!User /\ row.active = users[u].active
    BY <2>1 DEF A!User, A!RoleNames
  <2>3. users' = [users EXCEPT ![u] = row] /\ roles' \subseteq A!RoleNames
    BY <1>0, <1>4 DEF A!Promote, A!RoleNames
  <2>4. UNCHANGED <<day, scene, suspended, tokens, off, call>>
    BY <1>4 DEF A!Promote
  <2> HIDE DEF row
  <2> QED
    BY <1>0, <2>1, <2>2, <2>3, <2>4, OneRow
<1> QED
  BY <1>1, <1>2, <1>3, <1>4 DEF A!DeactivateUser

-----------------------------------------------------------------------------
(* The theorems *)

LEMMA AccountsNext == AccountsInv /\ [A!Next]_(A!vars) => AccountsInv'
<1> SUFFICES ASSUME AccountsInv, [A!Next]_(A!vars) PROVE AccountsInv'
  OBVIOUS
<1>0. /\ day \in Nat /\ day <= day /\ day \in 0..MaxDays /\ suspended \subseteq Companies
      /\ call \in [Clients -> Held]
  BY DEF AccountsInv, AccountsTypeInv, A!TypeOK, Lives
<1>1. ASSUME UNCHANGED <<day, scene, users, roles, suspended, tokens, call, off>> PROVE AccountsInv'
  BY <1>0, <1>1, OnlyRequests
<1>2. ASSUME NEW h \in Clients, A!Abort(h) PROVE AccountsInv'
  BY <1>0, <1>2, Released, OnlyRequests DEF A!Abort, AccountsInv
<1>3. ASSUME NEW h \in Clients, NEW t \in A!Callers, NEW c \in Companies,
             A!SuspendCompany(h, t, c) \/ A!ActivateCompany(h, t, c)
      PROVE  AccountsInv'
  <2>1. UNCHANGED <<day, scene, users, roles, tokens, off, call>> /\ suspended' \subseteq Companies
    BY <1>0, <1>3 DEF A!SuspendCompany, A!ActivateCompany, A!Once
  <2> QED
    BY <1>0, <2>1, OnlyRequests
<1>4. ASSUME A!Tick PROVE AccountsInv'
  <2>1. day' \in 0..MaxDays /\ day <= day'
        /\ UNCHANGED <<scene, users, roles, suspended, tokens, off, call>>
    BY <1>0, <1>4 DEF A!Tick, Lives
  <2> QED
    BY <1>0, <2>1, OnlyRequests
<1>5. CASE UNCHANGED A!vars
  BY <1>1, <1>5 DEF A!vars
<1>6. ASSUME NEW h \in Clients,
             \/ \E e \in Emails, p \in Passwords : A!LoginRefused(h, e, p)
             \/ \E t \in A!Callers, old \in Passwords : A!ChangeRefused(h, t, old)
      PROVE  AccountsInv'
  BY <1>1, <1>6 DEF A!LoginRefused, A!ChangeRefused, A!Once
<1>7. ASSUME NEW h \in Clients, NEW c \in Companies, A!RegisterCommit(h, c) PROVE AccountsInv'
  BY <1>7, RegisterInv
<1> QED
  BY <1>2, <1>3, <1>4, <1>5, <1>6, <1>7, BeginsInv, IssuesInv, RowsInv DEF A!Next

(* Whatever was outstanding when a user was deactivated, a password-reset   *)
(* token included, nothing is issued to the user by a handler that begins   *)
(* later.                                                                   *)
THEOREM Deactivation == A!Spec => []A!DeactivatedGetNothing
<1>1. A!Init => AccountsInv
  BY AccountsInit
<1>2. AccountsInv /\ [A!Next]_(A!vars) => AccountsInv'
  BY AccountsNext
<1>3. AccountsInv => A!DeactivatedGetNothing
  BY DEF AccountsInv
<1> QED
  BY <1>1, <1>2, <1>3, PTL DEF A!Spec

(* An email signs in one user where requests come one at a time and nobody  *)
(* invites a user of another company.                                       *)
THEOREM Emailed == A!Spec => []A!EmailsUnambiguous
<1>1. A!Init => AccountsInv
  BY AccountsInit
<1>2. AccountsInv /\ [A!Next]_(A!vars) => AccountsInv'
  BY AccountsNext
<1>3. AccountsInv => A!EmailsUnambiguous
  <2> SUFFICES ASSUME AccountsInv, scene = "alone", NEW e \in Emails
               PROVE  Cardinality(A!WithEmail(e)) <= 1
    BY AccountsCount DEF A!EmailsUnambiguous
  <2>1. CASE A!WithEmail(e) = {}
    BY <2>1, FS_EmptySet
  <2>2. ASSUME NEW u \in A!WithEmail(e) PROVE Cardinality(A!WithEmail(e)) <= 1
    <3>1. A!WithEmail(e) = {u}
      BY DEF A!WithEmail, AccountsInv, AloneInv
    <3>2. Cardinality({u}) = 1
      BY FS_Singleton
    <3> QED
      BY <3>1, <3>2
  <2> QED
    BY <2>1, <2>2
<1> QED
  BY <1>1, <1>2, <1>3, PTL DEF A!Spec

(* Every reachable state is well typed.                                     *)
THEOREM AccountsTyped == A!Spec => []A!TypeOK
<1>1. A!Init => AccountsInv
  BY AccountsInit
<1>2. AccountsInv /\ [A!Next]_(A!vars) => AccountsInv'
  BY AccountsNext
<1>3. AccountsInv => A!TypeOK
  BY DEF AccountsInv, AccountsTypeInv
<1> QED
  BY <1>1, <1>2, <1>3, PTL DEF A!Spec

HIDE Lives DEF Lives

-----------------------------------------------------------------------------
(* The composition *)

(* A behaviour of Requests is one of each part: the parts share no variable *)
(* and those whose behaviour it is not stand still.                         *)
LEMMA IsEachPart == AllSpec => Spec /\ R!Spec /\ A!Spec
<1>1. AllInit => Init /\ R!Init /\ A!Init
  BY DEF AllInit
<1>2. [AllNext]_all => [Next]_vars
  BY DEF AllNext, LimiterStep, AccountsStep, TenantStep, all
<1>3. [AllNext]_all => [R!Next]_(R!vars)
  BY DEF AllNext, LimiterStep, AccountsStep, TenantStep, all, limiter, R!vars
<1>4. [AllNext]_all => [A!Next]_(A!vars)
  BY DEF AllNext, LimiterStep, AccountsStep, TenantStep, all, accounts, A!vars
<1> QED
  BY <1>1, <1>2, <1>3, <1>4, PTL DEF AllSpec, Spec, R!Spec, A!Spec

(* The types of the sorted sets, of users, tokens and requests in flight.   *)
THEOREM TypesOfParts == AllSpec => []PartsTyped
<1>1. R!TypeOK /\ A!TypeOK => PartsTyped
  BY DEF PartsTyped
<1> QED
  BY <1>1, IsEachPart, LimiterTyped, AccountsTyped, PTL

(* For any limits, buckets and window, requests in flight add at most their *)
(* own number less one to a limit, and a denial had a full window.          *)
THEOREM LimitsHold == AllSpec => LimiterSound
<1>1. R!OvershootBounded => (part = "limiter" => R!OvershootBounded)
  OBVIOUS
<1> QED
  BY <1>1, IsEachPart, Overshoot, Denials, PTL DEF LimiterSound

(* For any companies, users, lives of tokens and interleaving of requests,  *)
(* a deactivated user gets nothing new and an email signs in one user at    *)
(* most.                                                                    *)
THEOREM AccountsHold == AllSpec => []AccountsSound
<1>1. A!DeactivatedGetNothing /\ A!EmailsUnambiguous => AccountsSound
  BY DEF AccountsSound
<1> QED
  BY <1>1, IsEachPart, Deactivation, Emailed, PTL
=============================================================================
