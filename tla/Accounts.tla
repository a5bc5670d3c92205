------------------------------ MODULE Accounts ------------------------------
(***************************************************************************)
(* Users, their tokens, and the handlers that issue and accept them.        *)
(*                                                                          *)
(* users has one row per company and email (uq_user_company_email); tokens  *)
(* are JWTs, valid until they expire whatever happens to the user.  A       *)
(* handler that decides by a row and writes later has two steps: the SELECT *)
(* and the commit at the end of get_db.  An exception rolls back, with the  *)
(* audit entries the handler has flushed before raising it.                 *)
(***************************************************************************)
EXTENDS Naturals, FiniteSets

CONSTANTS
    Companies, Emails,
    Passwords,     \* what people type
    Handlers,      \* requests handled at the same time
    AccessLife, RefreshLife, ResetLife,
    MaxTime,       \* bound: the clock
    MaxRequests,   \* bound: requests
    Scenes         \* subset of {"alone", "open"}: see Init

VARIABLES
    now, begun,
    scene,         \* alone: one request at a time, outsiders are not invited
    users,         \* table users, with the role names of user_roles
    roles,         \* table roles
    suspended,     \* companies with is_active = FALSE
    tokens,        \* what has been issued
    req,           \* the handlers between their SELECT and their commit
    audit,         \* table audit_logs, as the set of its entries
    off            \* history: when each user was last deactivated

vars == <<now, begun, scene, users, roles, suspended, tokens, req, audit, off>>

Keys == Companies \X Emails
RoleNames == {"platform_admin", "owner", "admin", "manager", "agent"}
Temporary == "temporary"      \* invite_user's password, which nobody is told
NoUser == [pwd |-> Temporary, active |-> FALSE, roles |-> {"nobody"}]

User == [pwd : Passwords \cup {Temporary}, active : BOOLEAN, roles : SUBSET RoleNames]

(* began is a history field: when the handler that issued it read the user. *)
Token == [type : {"access", "refresh", "password_reset"}, user : Keys,
          roles : SUBSET RoleNames, exp : 0..(MaxTime + RefreshLife), began : 0..MaxTime]

Idle == [op |-> "idle"]

Exists(u) == users[u] # NoUser
WithEmail(e) == {u \in Keys : u[2] = e /\ Exists(u)}

Init ==
    /\ now = 0 /\ begun = 0
    /\ scene \in Scenes
    /\ users = [u \in Keys |-> NoUser]
    /\ roles = {}
    /\ suspended = {}
    /\ tokens = {}
    /\ req = [h \in Handlers |-> Idle]
    /\ audit = {}
    /\ off = [u \in Keys |-> 0]

-----------------------------------------------------------------------------
(* Tokens *)

Access(u, rs, since) == [type |-> "access", user |-> u, roles |-> rs,
                         exp |-> now + AccessLife, began |-> since]
Refresh(u, since) == [type |-> "refresh", user |-> u, roles |-> {},
                      exp |-> now + RefreshLife, began |-> since]
Reset(u) == [type |-> "password_reset", user |-> u, roles |-> {},
             exp |-> now + ResetLife, began |-> now]

CreateTokens(u, rs, since) == tokens \cup {Access(u, rs, since), Refresh(u, since)}

(* decode_token and the test of the type claim.                             *)
Valid(t, type) == t.exp > now /\ t.type = type

(* get_current_user: the claims of the token are the user, no row is read.  *)
Callers == {t \in tokens : Valid(t, "access")}

(* require_platform_admin.                                                  *)
PlatformAdmins == {t \in Callers : "platform_admin" \in t.roles}

Log(action, u) == audit \cup {<<action, u>>}

Start(h) ==
    /\ req[h] = Idle
    /\ scene = "alone" => \A g \in Handlers : req[g] = Idle
    /\ begun < MaxRequests
    /\ begun' = begun + 1

Hold(h, r) == req' = [req EXCEPT ![h] = r]
Release(h) == req' = [req EXCEPT ![h] = Idle]

(* A request of one step: it reads and commits before anything it depends   *)
(* on can change, or writes whatever it finds.                              *)
Once(h) == Start(h) /\ UNCHANGED <<req, scene, now, roles>>

-----------------------------------------------------------------------------
(* AuthService *)

(* Mutant: registers without looking the email up.                          *)
RegisterCheckBlind(h, e, p) ==
    /\ Start(h)
    /\ Hold(h, [op |-> "register", email |-> e, pwd |-> p, role |-> "owner" \in roles, since |-> now])
    /\ UNCHANGED <<now, scene, users, roles, suspended, tokens, audit, off>>

(* register: no company has a user of that email, and the owner role is     *)
(* looked up.                                                               *)
RegisterCheck(h, e, p) ==
    /\ Start(h)
    /\ WithEmail(e) = {}
    /\ Hold(h, [op |-> "register", email |-> e, pwd |-> p, role |-> "owner" \in roles, since |-> now])
    /\ UNCHANGED <<now, scene, users, roles, suspended, tokens, audit, off>>

(* It creates the role if it found none, the company, its owner, their      *)
(* tokens and two audit entries; a role that is there by now fails it.      *)
RegisterCommit(h, c) ==
    LET q == req[h]
        u == <<c, q.email>>
    IN  /\ q.op = "register"
        /\ \A e \in Emails : ~Exists(<<c, e>>)
        /\ Release(h)
        /\ IF ~q.role /\ "owner" \in roles
           THEN UNCHANGED <<users, roles, tokens, audit>>
           ELSE /\ roles' = roles \cup {"owner"}
                /\ users' = [users EXCEPT ![u] = [pwd |-> q.pwd, active |-> TRUE, roles |-> {"owner"}]]
                /\ tokens' = CreateTokens(u, {"owner"}, q.since)
                /\ audit' = audit \cup {<<"company.registered", u>>, <<"user.registered", u>>}
        /\ UNCHANGED <<now, begun, scene, suspended, off>>

(* login with an unknown password or a deactivated user: the audit entry is *)
(* flushed, then UnauthorizedError rolls it back.                           *)
LoginRefused(h, e, p) ==
    /\ Once(h)
    /\ Cardinality(WithEmail(e)) = 1
    /\ \E u \in WithEmail(e) : users[u].pwd # p \/ ~users[u].active
    /\ UNCHANGED <<users, suspended, tokens, audit, off>>

(* login: the email must find one row, else scalar_one_or_none raises.      *)
LoginCheck(h, e, p) ==
    /\ Start(h)
    /\ Cardinality(WithEmail(e)) = 1
    /\ \E u \in WithEmail(e) :
          /\ users[u].pwd = p /\ users[u].active
          /\ Hold(h, [op |-> "login", user |-> u, roles |-> users[u].roles, since |-> now])
    /\ UNCHANGED <<now, scene, users, roles, suspended, tokens, audit, off>>

(* refresh_tokens: the token stays valid; the user must be active.          *)
RefreshCheck(h, t) ==
    /\ Start(h)
    /\ Valid(t, "refresh")
    /\ Exists(t.user) /\ users[t.user].active
    /\ Hold(h, [op |-> "refresh", user |-> t.user, roles |-> users[t.user].roles, since |-> now])
    /\ UNCHANGED <<now, scene, users, roles, suspended, tokens, audit, off>>

(* Both issue tokens with the roles they read and log it.                   *)
SignInCommit(h) ==
    LET q == req[h] IN
        /\ q.op \in {"login", "refresh"}
        /\ tokens' = CreateTokens(q.user, q.roles, q.since)
        /\ audit' = Log(IF q.op = "login" THEN "user.login" ELSE "user.token_refreshed", q.user)
        /\ Release(h)
        /\ UNCHANGED <<now, begun, scene, users, roles, suspended, off>>

(* request_password_reset: the mail leaves before the commit.               *)
ForgotPassword(h, e) ==
    /\ Once(h)
    /\ Cardinality(WithEmail(e)) = 1
    /\ \E u \in WithEmail(e) :
          /\ users[u].active
          /\ tokens' = tokens \cup {Reset(u)}
          /\ audit' = Log("user.password_reset_requested", u)
    /\ UNCHANGED <<users, suspended, off>>

(* reset_password: a valid token, used before or not, and an active user.   *)
ResetCheck(h, t, p) ==
    /\ Start(h)
    /\ Valid(t, "password_reset")
    /\ Exists(t.user) /\ users[t.user].active
    /\ Hold(h, [op |-> "reset", user |-> t.user, pwd |-> p])
    /\ UNCHANGED <<now, scene, users, roles, suspended, tokens, audit, off>>

(* change_password: the caller knows the current password, and changes it.  *)
ChangeCheck(h, t, old, new) ==
    /\ Start(h)
    /\ Exists(t.user) /\ users[t.user].active
    /\ users[t.user].pwd = old /\ old # new
    /\ Hold(h, [op |-> "change", user |-> t.user, pwd |-> new])
    /\ UNCHANGED <<now, scene, users, roles, suspended, tokens, audit, off>>

(* Its refusal is flushed to the log and rolled back like that of login.    *)
ChangeRefused(h, t, old) ==
    /\ Once(h)
    /\ Exists(t.user) /\ users[t.user].active
    /\ users[t.user].pwd # old
    /\ UNCHANGED <<users, suspended, tokens, audit, off>>

(* Both write the column password_hash of the row they read.                *)
PasswordCommit(h) ==
    LET q == req[h] IN
        /\ q.op \in {"reset", "change"}
        /\ users' = [users EXCEPT ![q.user].pwd = q.pwd]
        /\ audit' = Log(IF q.op = "reset" THEN "user.password_reset" ELSE "user.password_changed", q.user)
        /\ Release(h)
        /\ UNCHANGED <<now, begun, scene, roles, suspended, tokens, off>>

(* Any exception after the SELECT.                                          *)
Abort(h) ==
    /\ req[h] # Idle
    /\ Release(h)
    /\ UNCHANGED <<now, begun, scene, users, roles, suspended, tokens, audit, off>>

-----------------------------------------------------------------------------
(* Staff *)

(* The roles invite_user accepts.                                           *)
Invitable == {"admin", "manager", "agent"}

(* invite_user: the email is looked up in the caller's company only; a role *)
(* that is not in the table is not given.                                   *)
InviteUser(h, t, e, r) ==
    /\ Once(h)
    /\ ~Exists(<<t.user[1], e>>)
    /\ scene = "alone" => WithEmail(e) = {}
    /\ users' = [users EXCEPT ![<<t.user[1], e>>] =
                     [pwd |-> Temporary, active |-> TRUE, roles |-> {r} \cap roles]]
    /\ UNCHANGED <<suspended, tokens, audit, off>>

(* update_user: the names are abstracted, the role of the request is not    *)
(* written.                                                                 *)
UpdateUser(h, t, u, active) ==
    /\ Once(h)
    /\ u[1] = t.user[1] /\ Exists(u)
    /\ users' = [users EXCEPT ![u].active = active]
    /\ off' = IF active \/ ~users[u].active THEN off ELSE [off EXCEPT ![u] = now]
    /\ UNCHANGED <<suspended, tokens, audit>>

(* deactivate_user.                                                         *)
DeactivateUser(h, t, u) == UpdateUser(h, t, u, FALSE)

-----------------------------------------------------------------------------
(* The platform *)

(* scripts/promote_platform_admin.py replaces the roles of a user; run      *)
(* while no request is being handled.                                       *)
Promote(u) ==
    /\ \A h \in Handlers : req[h] = Idle
    /\ WithEmail(u[2]) = {u}
    /\ "platform_admin" \notin users[u].roles
    /\ roles' = roles \cup {"platform_admin"}
    /\ users' = [users EXCEPT ![u].roles = {"platform_admin"}]
    /\ UNCHANGED <<now, begun, scene, suspended, tokens, req, audit, off>>

(* impersonate_company_owner: tokens of an active owner, for the caller.    *)
Impersonate(h, t, c) ==
    /\ Once(h)
    /\ t \in PlatformAdmins
    /\ \E u \in {c} \X Emails :
          /\ Exists(u) /\ users[u].active /\ "owner" \in users[u].roles
          /\ tokens' = CreateTokens(u, {"platform_admin", "owner"}, now)
          /\ audit' = Log("platform.impersonation_started", u)
    /\ UNCHANGED <<users, suspended, off>>

(* suspend_company: no handler asks for the flag, users go on signing in.   *)
SuspendCompany(h, t, c) ==
    /\ Once(h)
    /\ t \in PlatformAdmins
    /\ c \notin suspended /\ \E e \in Emails : Exists(<<c, e>>)
    /\ suspended' = suspended \cup {c}
    /\ audit' = Log("platform.company_suspended", c)
    /\ UNCHANGED <<users, tokens, off>>

(* activate_company.                                                        *)
ActivateCompany(h, t, c) ==
    /\ Once(h)
    /\ t \in PlatformAdmins
    /\ c \in suspended
    /\ suspended' = suspended \ {c}
    /\ audit' = Log("platform.company_activated", c)
    /\ UNCHANGED <<users, tokens, off>>

Tick ==
    /\ now < MaxTime
    /\ now' = now + 1
    /\ UNCHANGED <<begun, scene, users, roles, suspended, tokens, req, audit, off>>

Next ==
    \/ \E h \in Handlers :
        \/ \E e \in Emails, p \in Passwords :
              RegisterCheck(h, e, p) \/ LoginCheck(h, e, p) \/ LoginRefused(h, e, p)
        \/ \E c \in Companies : RegisterCommit(h, c)
        \/ \E t \in tokens : RefreshCheck(h, t) \/ \E p \in Passwords : ResetCheck(h, t, p)
        \/ SignInCommit(h) \/ PasswordCommit(h) \/ Abort(h)
        \/ \E e \in Emails : ForgotPassword(h, e)
        \/ \E t \in Callers :
              \/ \E old \in Passwords : ChangeRefused(h, t, old)
                                        \/ \E new \in Passwords : ChangeCheck(h, t, old, new)
              \/ \E e \in Emails, r \in Invitable : InviteUser(h, t, e, r)
              \/ \E u \in Keys : UpdateUser(h, t, u, TRUE) \/ DeactivateUser(h, t, u)
              \/ \E c \in Companies : \/ Impersonate(h, t, c)
                                      \/ SuspendCompany(h, t, c) \/ ActivateCompany(h, t, c)
    \/ \E u \in Keys : Promote(u)
    \/ Tick

Spec == Init /\ [][Next]_vars

-----------------------------------------------------------------------------
(* Properties *)

TypeOK ==
    /\ users \in [Keys -> User \cup {NoUser}]
    /\ roles \subseteq RoleNames
    /\ suspended \subseteq Companies
    /\ tokens \subseteq Token

(* What a deactivation is worth: every token of a deactivated user was      *)
(* issued by a handler that read the user before, whichever way tokens are  *)
(* issued, so access ends when those expire.                                *)
DeactivatedGetNothing ==
    \A t \in tokens :
        Exists(t.user) /\ ~users[t.user].active => t.began <= off[t.user]

(* An email finds one user, so that its login does not fail with several    *)
(* rows found: true while requests happen to be handled one at a time and   *)
(* nobody invites a user of another company.                                *)
EmailsUnambiguous ==
    scene = "alone" => \A e \in Emails : Cardinality(WithEmail(e)) <= 1

=============================================================================
