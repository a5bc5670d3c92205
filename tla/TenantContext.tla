--------------------------- MODULE TenantContext ---------------------------
(***************************************************************************)
(* Tenant isolation by row-level security: sessions, the connection pool,   *)
(* the setting app.current_tenant and the policies.                         *)
(*                                                                          *)
(* A session takes a connection from the pool for each transaction.         *)
(* get_tenant_db and tenant_session run SET LOCAL as the first statement of *)
(* the session, and the setting ends with that transaction.  A handler that *)
(* commits and goes on queries in a new transaction, on any free            *)
(* connection, without the setting.  get_db alone never sets it.            *)
(*                                                                          *)
(* A published landing page may be read by everybody: its policy and that   *)
(* of the tenant are alternatives for a SELECT.  Platform sessions set no   *)
(* tenant and count on a role that is free of the policies; where the role  *)
(* is not, they are like any session without a tenant.                      *)
(***************************************************************************)
CONSTANTS
    Tenants,     \* companies
    Handlers,    \* API requests, webhook handlers and tasks
    TenantOf,    \* the company each handler works for
    Setters,     \* the handlers whose session sets the tenant
    Exempt,      \* the handlers whose role is free of the policies
    Conns,       \* connections of the pool
    NoTenant,    \* the setting is unset or empty
    NoConn       \* the session is in no transaction

ASSUME TenantOfType == TenantOf \in [Handlers -> Tenants]
ASSUME SettersAreHandlers == Setters \subseteq Handlers /\ Exempt \subseteq Handlers
ASSUME NoTenantIsNone == NoTenant \notin Tenants
ASSUME NoConnIsNone == NoConn \notin Conns

VARIABLES
    setting,     \* app.current_tenant on each connection
    conn,        \* the connection each handler's transaction runs on
    at,          \* where each handler stands
    published,   \* the companies whose landing page is published
    touched,     \* history of the handlers that are not exempt: whose rows they have read
                 \* or written, and whose pages they were shown
    missed       \* history: a statement of it did not reach its own rows

vars == <<setting, conn, at, published, touched, missed>>

Ats == {"start", "begun", "first", "later", "done"}

Free(c) == \A h \in Handlers : conn[h] # c

(* Of each company a landing page, and a row of another tenant table.       *)
Rows == Tenants \X {"page", "row"}

(* Mutant: without a setting the policy does not filter.                    *)
OwnsUnlessSet(t, r) == t = NoTenant \/ r[1] = t

(* The policies: company_id = NULLIF(current_setting(..., true), '')::uuid, *)
Owns(t, r) == r[1] = t

(* and, to read, status = 'published'.                                      *)
Public(r) == r[2] = "page" /\ r[1] \in published

Readable(h) == {r \in Rows : h \in Exempt \/ Owns(setting[conn[h]], r) \/ Public(r)}
Writable(h) == {r \in Rows : h \in Exempt \/ Owns(setting[conn[h]], r)}

Init ==
    /\ setting = [c \in Conns |-> NoTenant]
    /\ conn = [h \in Handlers |-> NoConn]
    /\ at = [h \in Handlers |-> "start"]
    /\ published \in SUBSET Tenants
    /\ touched = [h \in Handlers |-> {}]
    /\ missed = [h \in Handlers |-> FALSE]

-----------------------------------------------------------------------------
(* Mutant: no session sets the tenant.                                      *)
BeginUnset(h, c) ==
    /\ conn[h] = NoConn
    /\ at[h] \in {"start", "later"}
    /\ Free(c)
    /\ conn' = [conn EXCEPT ![h] = c]
    /\ at' = [at EXCEPT ![h] = IF @ = "later" THEN "later" ELSE "first"]
    /\ UNCHANGED <<setting, published, touched, missed>>

(* The first statement of a session takes a connection; so does the first   *)
(* one after a commit.                                                      *)
Begin(h, c) ==
    /\ conn[h] = NoConn
    /\ at[h] \in {"start", "later"}
    /\ Free(c)
    /\ conn' = [conn EXCEPT ![h] = c]
    /\ at' = [at EXCEPT ![h] = IF @ = "later" THEN "later"
                               ELSE IF h \in Setters THEN "begun" ELSE "first"]
    /\ UNCHANGED <<setting, published, touched, missed>>

(* SET LOCAL app.current_tenant, before the handler sees the session.       *)
SetTenant(h) ==
    /\ at[h] = "begun"
    /\ setting' = [setting EXCEPT ![conn[h]] = TenantOf[h]]
    /\ at' = [at EXCEPT ![h] = "first"]
    /\ UNCHANGED <<conn, published, touched, missed>>

(* The statement reached rows, in that way, but not all of its company's.   *)
Touch(h, marks, rows) ==
    /\ touched' = IF h \in Exempt THEN touched ELSE [touched EXCEPT ![h] = @ \cup marks]
    /\ missed' = [missed EXCEPT ![h] = @ \/ \E r \in Rows \ rows : r[1] = TenantOf[h]]
    /\ UNCHANGED <<setting, conn, at>>

InTransaction(h) == conn[h] # NoConn /\ at[h] \in {"first", "later"}

(* A SELECT returns the rows that one of the policies lets it read.         *)
Query(h) ==
    /\ InTransaction(h)
    /\ Touch(h, {<<r[1], IF Public(r) THEN "shown" ELSE "read">> : r \in Readable(h)}, Readable(h))
    /\ UNCHANGED published

(* An INSERT, UPDATE or DELETE needs the tenant's; it may publish a landing *)
(* page or take it back.                                                    *)
Change(h) ==
    LET pages == {t \in Tenants : <<t, "page">> \in Writable(h)} IN
        /\ InTransaction(h)
        /\ Touch(h, {<<r[1], "wrote">> : r \in Writable(h)}, Writable(h))
        /\ \E shown \in SUBSET pages : published' = (published \ pages) \cup shown

(* Mutant: a commit closes the session in a way nothing else knows.         *)
CommitCloses(h) ==
    /\ conn[h] # NoConn
    /\ at[h] \in {"first", "later"}
    /\ setting' = [setting EXCEPT ![conn[h]] = NoTenant]
    /\ conn' = [conn EXCEPT ![h] = NoConn]
    /\ \E next \in {"closed", "done"} : at' = [at EXCEPT ![h] = next]
    /\ UNCHANGED <<published, touched, missed>>

(* A commit ends SET LOCAL and returns the connection; the handler may be   *)
(* over or go on.                                                           *)
Commit(h) ==
    /\ conn[h] # NoConn
    /\ at[h] \in {"first", "later"}
    /\ setting' = [setting EXCEPT ![conn[h]] = NoTenant]
    /\ conn' = [conn EXCEPT ![h] = NoConn]
    /\ \E next \in {"later", "done"} : at' = [at EXCEPT ![h] = next]
    /\ UNCHANGED <<published, touched, missed>>

(* An error anywhere rolls back and closes the session.                     *)
Rollback(h) ==
    /\ at[h] # "done"
    /\ setting' = [c \in Conns |-> IF conn[h] = c THEN NoTenant ELSE setting[c]]
    /\ conn' = [conn EXCEPT ![h] = NoConn]
    /\ at' = [at EXCEPT ![h] = "done"]
    /\ UNCHANGED <<published, touched, missed>>

Next ==
    \E h \in Handlers :
        \/ \E c \in Conns : Begin(h, c)
        \/ SetTenant(h)
        \/ Query(h)
        \/ Change(h)
        \/ Commit(h)
        \/ Rollback(h)

Spec == Init /\ [][Next]_vars

-----------------------------------------------------------------------------
(* Properties *)

TypeOK ==
    /\ setting \in [Conns -> Tenants \cup {NoTenant}]
    /\ conn \in [Handlers -> Conns \cup {NoConn}]
    /\ at \in [Handlers -> Ats]
    /\ published \subseteq Tenants
    /\ touched \in [Handlers -> SUBSET (Tenants \X {"read", "shown", "wrote"})]
    /\ missed \in [Handlers -> BOOLEAN]

(* A handler whose role is under the policies never writes a row of another *)
(* company, and reads none but its landing page while that is published,    *)
(* whichever connections it gets and whoever used them before, also after a *)
(* commit in the middle of it and when it never sets a tenant.              *)
NoForeignRows ==
    \A h \in Handlers : \A m \in touched[h] : m[1] = TenantOf[h] \/ m[2] = "shown"

(* A handler misses rows of its own company only if its session sets no     *)
(* tenant, or after it has committed.                                       *)
ScopedSeesOwn ==
    \A h \in Setters : missed[h] => at[h] \in {"later", "done"}

(* "payment confirmations": a handler that looks up a row of its company    *)
(* finds it.                                                                *)
OwnRowsFound == \A h \in Handlers : ~missed[h]

(* Row-level security implements the isolation it promises.                 *)
Isolation == INSTANCE TenantIsolation
    WITH Tenants <- Tenants, Handlers <- Handlers, TenantOf <- TenantOf, Exempt <- Exempt,
         published <- published, touched <- touched
IsolationHolds == Isolation!Spec
=============================================================================
