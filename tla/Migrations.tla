----------------------------- MODULE Migrations -----------------------------
(***************************************************************************)
(* The nine revisions of the database, run up and down by alembic.  A       *)
(* command runs in one transaction (env.py), whatever number of revisions   *)
(* it takes: the database has all of its effect or none.  The tables of the *)
(* first revision are created and dropped one by one; of the others only    *)
(* what they leave behind is kept.                                          *)
(***************************************************************************)
EXTENDS Naturals, Schema

CONSTANT MaxCommands   \* bound: alembic commands

VARIABLES
    stored,    \* the database
    command,   \* the command that runs: where it goes and what it has so far
    clash,     \* two companies have an invoice of the same number
    commands

vars == <<stored, command, clash, commands>>

Latest == 9
(* rls: tables with forced policies; strict: the policies raise when no     *)
(* tenant is set; numbers: the companies an invoice number is unique in.    *)
Database == [rev : 0..Latest, tables : SUBSET Tables, rls : SUBSET Tables, strict : BOOLEAN,
             grants : BOOLEAN, defaults : BOOLEAN, resolver : BOOLEAN, public : BOOLEAN,
             numbers : {"global", "company"}, indexes : BOOLEAN]

(* A new database; init.sql may have set default privileges for app_user.   *)
Empty(d) == [rev |-> 0, tables |-> {}, rls |-> {}, strict |-> TRUE, grants |-> FALSE,
             defaults |-> d, resolver |-> FALSE, public |-> FALSE, numbers |-> "global",
             indexes |-> FALSE]
Idle == [idle |-> TRUE]

Init ==
    /\ \E d \in BOOLEAN : stored = Empty(d)
    /\ command = Idle
    /\ clash = FALSE
    /\ commands = 0

(* Each revision but the first, from the database s.                        *)
EnableRls(s) == [s EXCEPT !.rls = TENANT_TABLES, !.strict = TRUE]
DisableRls(s) == [s EXCEPT !.rls = @ \ TENANT_TABLES]
GrantApp(s) == [s EXCEPT !.grants = TRUE, !.defaults = TRUE]
RevokeApp(s) == [s EXCEPT !.grants = FALSE, !.defaults = FALSE]
ExcludeUsers(s) == [s EXCEPT !.rls = @ \ {"users"}]
IncludeUsers(s) == [s EXCEPT !.rls = @ \cup {"users"}]
AddResolver(s) == [s EXCEPT !.resolver = TRUE]
DropResolver(s) == [s EXCEPT !.resolver = FALSE]
Harden(s) == [s EXCEPT !.rls = @ \cup EXPECTED_RLS_TABLES, !.strict = FALSE]
\* Mutant: restores the function and leaves the policies it made.
SoftenFunctionOnly(s) == s
Soften(s) == [s EXCEPT !.rls = @ \cup EXPECTED_RLS_TABLES, !.strict = TRUE]
NumberPerCompany(s) == [s EXCEPT !.numbers = "company"]
NumberGlobally(s) == [s EXCEPT !.numbers = "global"]
PublicPages(s) == [s EXCEPT !.public = TRUE]
PrivatePages(s) == [s EXCEPT !.public = FALSE]
AddIndexes(s) == [s EXCEPT !.indexes = TRUE]
DropIndexes(s) == [s EXCEPT !.indexes = FALSE]

Up(s) ==
    LET Done(t) == [t EXCEPT !.rev = @ + 1] IN
        CASE s.rev = 1 -> Done(EnableRls(s))
          [] s.rev = 2 -> Done(GrantApp(s))
          [] s.rev = 3 -> Done(ExcludeUsers(s))
          [] s.rev = 4 -> Done(AddResolver(s))
          [] s.rev = 5 -> Done(Harden(s))
          [] s.rev = 6 -> Done(NumberPerCompany(s))
          [] s.rev = 7 -> Done(PublicPages(s))
          [] s.rev = 8 -> Done(AddIndexes(s))

Down(s) ==
    LET Undone(t) == [t EXCEPT !.rev = @ - 1] IN
        CASE s.rev = 9 -> Undone(DropIndexes(s))
          [] s.rev = 8 -> Undone(PrivatePages(s))
          [] s.rev = 7 -> Undone(NumberGlobally(s))
          [] s.rev = 6 -> Undone(Soften(s))
          [] s.rev = 5 -> Undone(DropResolver(s))
          [] s.rev = 4 -> Undone(IncludeUsers(s))
          [] s.rev = 3 -> Undone(RevokeApp(s))
          [] s.rev = 2 -> Undone(DisableRls(s))

(* make migrate, make migrate-down and the deployment's task.               *)
Start(to) ==
    /\ command = Idle
    /\ commands < MaxCommands
    /\ to # stored.rev
    /\ command' = [to |-> to, so |-> stored, at |-> 0]
    /\ commands' = commands + 1
    /\ UNCHANGED <<stored, clash>>

(* The first revision, a table at a time.                                   *)
WithTable(s, k) ==
    [s EXCEPT !.tables = s.tables \cup {Created[k].table}, !.grants = stored.defaults,
              !.rev = IF k = Len(Created) THEN 1 ELSE 0]

CreateTable ==
    /\ command # Idle
    /\ command.to > command.so.rev /\ command.so.rev = 0
    /\ LET k == command.at + 1 IN
          command' = [command EXCEPT !.at = IF k = Len(Created) THEN 0 ELSE k,
                                     !.so = WithTable(command.so, k)]
    /\ UNCHANGED <<stored, clash, commands>>

WithoutTable(s, k) ==
    [s EXCEPT !.tables = s.tables \ {Dropped[k]}, !.grants = s.grants /\ k # Len(Dropped),
              !.rev = IF k = Len(Dropped) THEN 0 ELSE 1]

DropTable ==
    /\ command # Idle
    /\ command.to < command.so.rev /\ command.so.rev = 1
    /\ LET k == command.at + 1 IN
          command' = [command EXCEPT !.at = IF k = Len(Dropped) THEN 0 ELSE k,
                                     !.so = WithoutTable(command.so, k)]
    /\ UNCHANGED <<stored, clash, commands>>

(* Every other revision, and the end of the command.                        *)
Step ==
    /\ command # Idle
    /\ \/ /\ command.to > command.so.rev /\ command.so.rev > 0
          /\ command' = [command EXCEPT !.so = Up(@)]
       \/ /\ command.to < command.so.rev /\ command.so.rev > 1
          /\ command.so.rev = 7 => ~clash
          /\ command' = [command EXCEPT !.so = Down(@)]
    /\ UNCHANGED <<stored, clash, commands>>

Finish ==
    /\ command # Idle
    /\ command.to = command.so.rev
    /\ stored' = command.so
    /\ clash' = (clash /\ stored'.rev > 0)
    /\ command' = Idle
    /\ UNCHANGED commands

(* Anything that raises, the unique key over numbers in use among it: the   *)
(* transaction is rolled back.                                              *)
Fail ==
    /\ command # Idle
    /\ command' = Idle
    /\ UNCHANGED <<stored, clash, commands>>

(* Two companies number their first invoices of a month.                    *)
SameNumber ==
    /\ command = Idle
    /\ stored.rev > 0 /\ stored.numbers = "company"
    /\ clash' = TRUE
    /\ UNCHANGED <<stored, command, commands>>

Next ==
    \/ \E to \in 0..Latest : Start(to)
    \/ CreateTable \/ DropTable \/ Step \/ Finish \/ Fail
    \/ SameNumber

Spec == Init /\ [][Next]_vars

-----------------------------------------------------------------------------
(* ComplianceService._check_rls_enforced: what the compliance page says.    *)
RlsStatus(s) == IF EXPECTED_RLS_TABLES \subseteq s.rls THEN "pass" ELSE "fail"

(* Properties *)

TypeOK ==
    /\ stored \in Database
    /\ command # Idle => command.so \in Database /\ command.to \in 0..Latest

(* No table is created before one it references or dropped before one that  *)
(* references it, which PostgreSQL would refuse.                            *)
ReferencesStand ==
    \A s \in {stored} \cup {command.so : k \in {command} \ {Idle}} :
        \A t \in s.tables : Parents(t) \subseteq s.tables

(* A database of a revision is the same whichever way it was reached, but   *)
(* for the privileges a downgrade revokes: from the third revision on they  *)
(* are there, before it they may be.                                        *)
SameEitherWay ==
    LET r == stored.rev IN
        /\ stored.tables = IF r = 0 THEN {} ELSE Tables
        /\ stored.rls = IF r < 2 THEN {} ELSE IF r < 4 THEN TENANT_TABLES ELSE EXPECTED_RLS_TABLES
        /\ r >= 2 => (stored.strict <=> r < 6)
        /\ r >= 3 => stored.grants /\ stored.defaults
        /\ stored.resolver <=> r >= 5
        /\ stored.numbers = "company" <=> r >= 7
        /\ stored.public <=> r >= 8
        /\ stored.indexes <=> r >= 9

(* When the compliance page reports the isolation as passed, every table    *)
(* with a company but users, which logins read before there is a tenant,    *)
(* forces its policies; and an invoice number of two companies is only      *)
(* there where the key allows it.                                           *)
PassMeansIsolated ==
    /\ RlsStatus(stored) = "pass" =>
           \A t \in stored.tables \ {"users"} : Owner \in Refs(t) => t \in stored.rls
    /\ clash => stored.numbers = "company"

MigrationsSound == ReferencesStand /\ SameEitherWay /\ PassMeansIsolated
=============================================================================
