------------------------------ MODULE Realtime ------------------------------
(***************************************************************************)
(* ConnectionManager: API processes (pods) with the sockets of the clients  *)
(* connected to each, and broadcasts to a company over one Redis channel.   *)
(* A pod dispatches an event to its sockets one send at a time; anything of *)
(* the pod runs between two sends.  Nothing calls send_to_user.             *)
(***************************************************************************)
EXTENDS Naturals, FiniteSets, Sequences, SequencesExt

CONSTANTS
    Pods,
    Users,
    CompanyOf,  \* [Users -> companies]
    Sockets,
    Events,     \* each broadcast once
    MaxBreaks   \* bound: failures of Redis or of a subscription

VARIABLES
    link,       \* of each socket: "new", "open", "dead" (gone, not noticed), "closed"
    home,       \* its pod and user
    registry,   \* _connections of each pod: how often a user's list has a socket
    redis,      \* is Redis reachable
    subscribed, \* of each pod: "starting", "on", "broken", "never"
    inbox,      \* what each subscription has still to read
    jobs,       \* dispatches under way
    sent,       \* [Events -> the company it was broadcast to, or "none"]
    unsure,     \* events whose publish raised after Redis had taken them
    got,        \* how often each socket was sent each event
    owed,       \* history: what Redis took for a pod with that socket open
    breaks

vars == <<link, home, registry, redis, subscribed, inbox, jobs, sent, unsure, got, owed, breaks>>

Nowhere == [pod |-> "nowhere", user |-> "nobody"]
Unsent == [company |-> "none"]

Init ==
    /\ link = [s \in Sockets |-> "new"]
    /\ home = [s \in Sockets |-> Nowhere]
    /\ registry = [p \in Pods |-> [u \in Users |-> [s \in Sockets |-> 0]]]
    /\ redis \in BOOLEAN
    /\ subscribed = [p \in Pods |-> "starting"]
    /\ inbox = [p \in Pods |-> <<>>]
    /\ jobs = {}
    /\ sent = [e \in Events |-> Unsent]
    /\ unsure = {}
    /\ got = [s \in Sockets |-> [e \in Events |-> 0]]
    /\ owed = [s \in Sockets |-> {}]
    /\ breaks = 0

-----------------------------------------------------------------------------
(* start: a pod that cannot subscribe when it starts never does.            *)
Start(p) ==
    /\ subscribed[p] = "starting"
    /\ subscribed' = [subscribed EXCEPT ![p] = IF redis THEN "on" ELSE "never"]
    /\ UNCHANGED <<link, home, registry, redis, inbox, jobs, sent, unsure, got, owed, breaks>>

(* connect.  A dispatch under way sees the socket if it still walks over    *)
(* the list the socket is appended to.                                      *)
Connect(s, p, u, seen) ==
    /\ link[s] = "new" /\ subscribed[p] # "starting"
    /\ link' = [link EXCEPT ![s] = "open"]
    /\ home' = [home EXCEPT ![s] = [pod |-> p, user |-> u]]
    /\ registry' = [registry EXCEPT ![p][u][s] = @ + 1]
    /\ jobs' = {IF j.pod = p /\ seen /\ sent[j.event].company = CompanyOf[u] /\ j.todo # {}
                THEN [j EXCEPT !.todo = @ \cup {s}] ELSE j : j \in jobs}
    /\ UNCHANGED <<redis, subscribed, inbox, sent, unsure, got, owed, breaks>>

(* The client goes away ...                                                 *)
Drop(s) ==
    /\ link[s] = "open"
    /\ link' = [link EXCEPT ![s] = "dead"]
    /\ owed' = [owed EXCEPT ![s] = {}]
    /\ UNCHANGED <<home, registry, redis, subscribed, inbox, jobs, sent, unsure, got, breaks>>

\* The lists of pod p without the sockets S.
Pruned(p, S) ==
    [registry EXCEPT ![p] =
        [u \in Users |-> [s \in Sockets |-> IF s \in S THEN 0 ELSE @[u][s]]]]

(* ... and the endpoint notices (disconnect).  It may end otherwise too,    *)
(* and leave the socket to the next send.                                   *)
Notice(s) ==
    /\ link[s] = "dead"
    /\ link' = [link EXCEPT ![s] = "closed"]
    /\ registry' = Pruned(home[s].pod, {s})
    /\ UNCHANGED <<home, redis, subscribed, inbox, jobs, sent, unsure, got, owed, breaks>>

-----------------------------------------------------------------------------
Listening(p) == {s \in Sockets : \E u \in Users : registry[p][u][s] > 0}
Audience(p, c) == {s \in Listening(p) : CompanyOf[home[s].user] = c}
Job(p, e, c, own) == [pod |-> p, event |-> e, own |-> own, todo |-> Audience(p, c), dead |-> {}]

(* _publish dispatches on its own pod when the publish raises, whether      *)
(* Redis has taken the event ("unsure") or not.                             *)
Fallback(outcome) == outcome \in {"refused", "unsure"}

Taken(outcome) == outcome \in {"taken", "unsure"}
Publish(p, e, c, outcome) ==
    /\ subscribed[p] # "starting"
    /\ sent[e] = Unsent
    /\ IF redis THEN outcome = "taken" \/ (outcome = "unsure" /\ breaks < MaxBreaks)
       ELSE outcome = "refused"
    /\ breaks' = IF outcome = "unsure" THEN breaks + 1 ELSE breaks
    /\ sent' = [sent EXCEPT ![e] = [company |-> c, pod |-> p]]
    /\ unsure' = IF outcome = "unsure" THEN unsure \cup {e} ELSE unsure
    /\ jobs' = IF Fallback(outcome) THEN jobs \cup {Job(p, e, c, TRUE)} ELSE jobs
    /\ inbox' = [q \in Pods |-> IF Taken(outcome) /\ subscribed[q] = "on"
                                THEN Append(inbox[q], e) ELSE inbox[q]]
    /\ owed' = [s \in Sockets |->
                  IF Taken(outcome) /\ \E q \in Pods : subscribed[q] = "on" /\ s \in Audience(q, c)
                                                         /\ link[s] = "open"
                  THEN owed[s] \cup {e} ELSE owed[s]]
    /\ UNCHANGED <<link, home, registry, redis, subscribed, got>>

(* _consume_loop: one event after the other.                                *)
Consume(p) ==
    /\ subscribed[p] = "on" /\ inbox[p] # <<>>
    /\ \A j \in jobs : j.pod = p => j.own
    /\ jobs' = jobs \cup {Job(p, Head(inbox[p]), sent[Head(inbox[p])].company, FALSE)}
    /\ inbox' = [inbox EXCEPT ![p] = Tail(@)]
    /\ UNCHANGED <<link, home, registry, redis, subscribed, sent, unsure, got, owed, breaks>>

(* _send_to_all_in_company, one socket at a time ...                        *)
Send(j, s) ==
    /\ s \in j.todo
    /\ got' = IF link[s] = "open" THEN [got EXCEPT ![s][j.event] = @ + 1] ELSE got
    /\ jobs' = (jobs \ {j}) \cup
                 {[j EXCEPT !.todo = @ \ {s}, !.dead = IF link[s] = "open" THEN @ ELSE @ \cup {s}]}
    /\ UNCHANGED <<link, home, registry, redis, subscribed, inbox, sent, unsure, owed, breaks>>

\* Mutant: forgets the users of the dead sockets.
ForgottenUsers(j) ==
    [registry EXCEPT ![j.pod] =
        [u \in Users |-> IF \E s \in j.dead : home[s].user = u THEN [s \in Sockets |-> 0]
                         ELSE @[u]]]
(* ... and _prune_dead: the sockets that failed, whoever connected since.   *)
Forgotten(j) == Pruned(j.pod, j.dead)

Prune(j) ==
    /\ j.todo = {}
    /\ registry' = Forgotten(j)
    /\ jobs' = jobs \ {j}
    /\ UNCHANGED <<link, home, redis, subscribed, inbox, sent, unsure, got, owed, breaks>>

-----------------------------------------------------------------------------
(* Redis fails and recovers; so does the connection of a subscription,      *)
(* which loses what it has not read and subscribes again.                   *)
Toggle ==
    /\ redis => breaks < MaxBreaks
    /\ redis' = ~redis
    /\ breaks' = IF redis THEN breaks + 1 ELSE breaks
    /\ UNCHANGED <<link, home, registry, subscribed, inbox, jobs, sent, unsure, got, owed>>

Break(p) ==
    /\ subscribed[p] = "on" /\ breaks < MaxBreaks
    /\ breaks' = breaks + 1
    /\ subscribed' = [subscribed EXCEPT ![p] = "broken"]
    /\ inbox' = [inbox EXCEPT ![p] = <<>>]
    /\ owed' = [s \in Sockets |-> IF home[s].pod = p THEN owed[s] \ ToSet(inbox[p]) ELSE owed[s]]
    /\ UNCHANGED <<link, home, registry, redis, jobs, sent, unsure, got>>

Resume(p) ==
    /\ subscribed[p] = "broken" /\ redis
    /\ subscribed' = [subscribed EXCEPT ![p] = "on"]
    /\ UNCHANGED <<link, home, registry, redis, inbox, jobs, sent, unsure, got, owed, breaks>>

Next ==
    \/ \E p \in Pods :
        \/ Start(p) \/ Consume(p) \/ Break(p) \/ Resume(p)
        \/ \E s \in Sockets, u \in Users, seen \in BOOLEAN : Connect(s, p, u, seen)
        \/ \E e \in Events, u \in Users, outcome \in {"taken", "refused", "unsure"} :
               Publish(p, e, CompanyOf[u], outcome)
    \/ \E s \in Sockets : Drop(s) \/ Notice(s)
    \/ \E j \in jobs : Prune(j) \/ \E s \in j.todo : Send(j, s)
    \/ Toggle

Spec == Init /\ [][Next]_vars

-----------------------------------------------------------------------------
(* Properties *)

TypeOK ==
    /\ link \in [Sockets -> {"new", "open", "dead", "closed"}]
    /\ \A p \in Pods : subscribed[p] \in {"starting", "on", "broken", "never"}
    /\ got \in [Sockets -> [Events -> Nat]]

(* A client is sent the events of its company alone, and one of them twice  *)
(* only if its publish raised after Redis had taken it, on that pod.        *)
SentOnce ==
    \A s \in Sockets, e \in Events :
        /\ got[s][e] > 0 => sent[e].company = CompanyOf[home[s].user]
        /\ got[s][e] > 1 => e \in unsure /\ home[s].pod = sent[e].pod /\ got[s][e] = 2

(* An open socket is registered, once, whatever was pruned around it.       *)
OpenIsRegistered ==
    \A s \in Sockets : link[s] = "open" => registry[home[s].pod][home[s].user][s] = 1

(* When a pod has nothing left to read or to send, the sockets that were    *)
(* open on it when Redis took an event, and still are, have it, unless the  *)
(* subscription broke before it was read.                                   *)
OwedArrived ==
    \A s \in Sockets : link[s] = "open" =>
        LET p == home[s].pod IN
            inbox[p] = <<>> /\ (\A j \in jobs : j.pod # p) =>
                \A e \in owed[s] : got[s][e] > 0

EventsSound == SentOnce /\ OpenIsRegistered /\ OwedArrived
=============================================================================
