----------------------------- MODULE Operations -----------------------------
(***************************************************************************)
(* What runs beside the conversations: shipments, the retention purge, the  *)
(* events of the web socket, the migrations of the database and the         *)
(* compliance pages.  The five share no variable; a behaviour is one of one *)
(* of them, and the others stay in one of their initial states.             *)
(***************************************************************************)
EXTENDS Naturals, FiniteSets, Sequences

CONSTANTS
    Workers, Statuses, MaxAsks, MaxLost,                 \* see Shipments
    Tenants, MaxTraffic, MaxRuns,                        \* see Retention
    Pods, Users, CompanyOf, Sockets, Events, MaxBreaks,  \* see Realtime
    MaxCommands,                                         \* see Migrations
    OptIns                                               \* see Compliance

(* A process handles finitely many requests at a time.                      *)
ASSUME FewWorkers == IsFiniteSet(Workers)

(* "none" stands for the status of no shipment.                             *)
ASSUME StatusesReal == "none" \notin Statuses

(* Those who opted in are contacts.                                         *)
ASSUME OptInsFit == OptIns \subseteq {c \in Nat \X Nat : c[2] <= c[1]}

VARIABLES
    part,
    booked, ship, events, busy, asks, notices, told, losses, overlapped, undone,
    rows, age, status, deleted, purge, unreadable, answered, counted, entry, traffic, runs, met,
    link, home, registry, redis, subscribed, inbox, jobs, sent, unsure, got, owed, breaks,
    stored, command, clash, commands,
    facts, page, overall, tiers

shipmentsVars ==
    <<booked, ship, events, busy, asks, notices, told, losses, overlapped, undone>>
retentionVars ==
    <<rows, age, status, deleted, purge, unreadable, answered, counted, entry, traffic, runs, met>>
realtimeVars ==
    <<link, home, registry, redis, subscribed, inbox, jobs, sent, unsure, got, owed, breaks>>
migrationsVars == <<stored, command, clash, commands>>
complianceVars == <<facts, page, overall, tiers>>

-----------------------------------------------------------------------------
S == INSTANCE Shipments WITH Handlers <- Workers, MaxRequests <- MaxAsks
P == INSTANCE Retention
E == INSTANCE Realtime
M == INSTANCE Migrations
F == INSTANCE Compliance WITH Contacts <- OptIns
SomeFacts == CHOOSE f \in F!Facts : TRUE

-----------------------------------------------------------------------------
Init ==
    /\ part \in {"shipments", "retention", "realtime", "migrations", "compliance"}
    /\ S!Init /\ P!Init /\ E!Init /\ M!Init /\ F!Init
    /\ part # "realtime" => redis = TRUE
    /\ part # "migrations" => stored.defaults
    /\ part # "compliance" => facts = SomeFacts

ShipmentsStep ==
    /\ part = "shipments" /\ S!Next
    /\ UNCHANGED <<part, retentionVars, realtimeVars, migrationsVars, complianceVars>>
RetentionStep ==
    /\ part = "retention" /\ P!Next
    /\ UNCHANGED <<part, shipmentsVars, realtimeVars, migrationsVars, complianceVars>>
RealtimeStep ==
    /\ part = "realtime" /\ E!Next
    /\ UNCHANGED <<part, shipmentsVars, retentionVars, migrationsVars, complianceVars>>
MigrationsStep ==
    /\ part = "migrations" /\ M!Next
    /\ UNCHANGED <<part, shipmentsVars, retentionVars, realtimeVars, complianceVars>>
ComplianceStep ==
    /\ part = "compliance" /\ F!Next
    /\ UNCHANGED <<part, shipmentsVars, retentionVars, realtimeVars, migrationsVars>>

Next == ShipmentsStep \/ RetentionStep \/ RealtimeStep \/ MigrationsStep \/ ComplianceStep

Spec ==
    Init /\ [][Next]_<<part, shipmentsVars, retentionVars, realtimeVars, migrationsVars,
                       complianceVars>>

-----------------------------------------------------------------------------
(* Each is evaluated in the behaviours of its part only.                    *)

(* Every variable of every part has its type.                               *)
PartsTyped ==
    /\ part = "shipments" => S!TypeOK
    /\ part = "retention" => P!TypeOK
    /\ part = "realtime" => E!TypeOK
    /\ part = "migrations" => M!TypeOK
    /\ part = "compliance" => F!TypeOK

(* See Retention: what a purge deletes, tries and reports, and that records *)
(* law or business keeps are never deleted with it.                         *)
RetentionSound == [](part = "retention" => P!PurgeSound) /\ P!RecordsKept

(* See Shipments, Realtime, Migrations and Compliance.                      *)
ShipmentsSound == part = "shipments" => S!ShipmentsSound
EventsSound == part = "realtime" => E!EventsSound
MigrationsSound == part = "migrations" => M!MigrationsSound
ComplianceSound == part = "compliance" => F!ComplianceSound
=============================================================================
