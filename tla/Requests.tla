------------------------------ MODULE Requests ------------------------------
(***************************************************************************)
(* What a request meets before its handler: the rate limiter, the tokens of *)
(* its user, and the tenant of its session.  The three share no variable;   *)
(* a behaviour is one of one of them, and the other two stay in one of      *)
(* their initial states.                                                    *)
(***************************************************************************)
EXTENDS TenantContext, Naturals, FiniteSets

CONSTANTS
    Clients,      \* requests of one client at the same time
    Routes, Limit, Bucket, Window, MaxReqs, MaxSeconds, MaxFailures,  \* see RateLimiter
    Companies, Emails, Passwords, AccessLife, RefreshLife, ResetLife, \* see Accounts
    MaxDays, MaxCalls, Scenes

(* A worker handles finitely many requests at a time, and at least one.     *)
ASSUME Sizes ==
    /\ IsFiniteSet(Clients) /\ Clients # {}
    /\ Limit \in [Routes -> Nat]
    /\ Window \in Nat /\ MaxReqs \in Nat /\ MaxSeconds \in Nat /\ MaxFailures \in Nat

(* A refresh token lives longest.                                           *)
ASSUME Lives ==
    /\ MaxDays \in Nat /\ AccessLife \in Nat /\ RefreshLife \in Nat /\ ResetLife \in Nat
    /\ AccessLife <= RefreshLife /\ ResetLife <= RefreshLife

VARIABLES
    part,                                                      \* whose behaviour it is
    second, zset, step, member, arrived, failures, admitted,   \* the rate limiter
    day, calls, scene, users, roles, suspended, tokens, call, audit, off

R == INSTANCE RateLimiter WITH
    Handlers <- Clients, MaxTime <- MaxSeconds,
    now <- second, at <- step, req <- member, begun <- arrived

A == INSTANCE Accounts WITH
    Handlers <- Clients, MaxTime <- MaxDays, MaxRequests <- MaxCalls,
    now <- day, begun <- calls, req <- call

limiter == <<second, zset, step, member, arrived, failures, admitted>>
accounts == <<day, calls, scene, users, roles, suspended, tokens, call, audit, off>>
all == <<part, vars, limiter, accounts>>

AllInit ==
    /\ part \in {"limiter", "accounts", "tenant"}
    /\ Init
    /\ R!Init
    /\ A!Init
    /\ part # "tenant" => published = {}
    /\ part # "limiter" => \A h \in Clients : member[h].route = CHOOSE r \in Routes : TRUE
    /\ part # "accounts" => scene = "alone"

LimiterStep == part = "limiter" /\ R!Next /\ UNCHANGED <<part, vars, accounts>>
AccountsStep == part = "accounts" /\ A!Next /\ UNCHANGED <<part, vars, limiter>>
TenantStep == part = "tenant" /\ Next /\ UNCHANGED <<part, limiter, accounts>>

AllNext == LimiterStep \/ AccountsStep \/ TenantStep

AllSpec == AllInit /\ [][AllNext]_all

-----------------------------------------------------------------------------
(* Each is evaluated in the behaviours of its part only.                    *)

(* Every variable of the limiter and of the accounts has its type.          *)
PartsTyped ==
    /\ part = "limiter" => R!TypeOK
    /\ part = "accounts" => A!TypeOK

(* See RateLimiter: what concurrency can add to the limit of a route, and   *)
(* that a request is denied only if its window was full.                    *)
LimiterSound == [](part = "limiter" => R!OvershootBounded) /\ R!DeniedHadLimit

(* See Accounts: nothing is issued to a deactivated user, and an email      *)
(* signs in one user or nobody.                                             *)
AccountsSound ==
    part = "accounts" => A!DeactivatedGetNothing /\ A!EmailsUnambiguous
=============================================================================
