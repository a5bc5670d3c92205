---------------------------- MODULE RateLimiter ----------------------------
(***************************************************************************)
(* The sliding-window rate limiter of the API, for one client: the          *)
(* middleware picks limit and bucket from the path, the limiter prunes and  *)
(* counts the bucket in one pipeline and adds to it in another.  The keys'  *)
(* expiry is left out: it comes a window after the last member was added.   *)
(***************************************************************************)
EXTENDS Naturals, FiniteSets

CONSTANTS
    Handlers,    \* requests of the client handled at the same time
    Routes,      \* path prefixes of RATE_LIMITS
    Limit,       \* requests per window of each of them
    Bucket,      \* the bucket of each: the first segment of the path
    Window,
    MaxReqs,     \* bound: requests
    MaxTime,     \* bound: the clock
    MaxFailures  \* bound: Redis calls that fail

Buckets == {Bucket[r] : r \in Routes}

VARIABLES
    now,
    zset,        \* the sorted set of each bucket: members with their stamps
    at,          \* where each handler stands
    req,         \* the request it handles: its number, route and time.time()
    begun,       \* requests so far
    failures,
    admitted     \* history: the requests the limiter let through

vars == <<now, zset, at, req, begun, failures, admitted>>

Ats == {"idle", "called", "counted"}

Request == [id : 0..MaxReqs, route : Routes, stamp : 0..MaxTime]

(* The members a window that ends at t still holds.                         *)
Recent(members, t) == {e \in members : e.stamp + Window > t}

Own(h) == Bucket[req[h].route]

Init ==
    /\ now = 0
    /\ zset = [b \in Buckets |-> {}]
    /\ at = [h \in Handlers |-> "idle"]
    /\ req \in [Handlers -> {[id |-> 0, route |-> r, stamp |-> 0] : r \in Routes}]
    /\ begun = 0
    /\ failures = 0
    /\ admitted = {}

-----------------------------------------------------------------------------
(* The middleware reads the clock and calls Redis.                          *)
Begin(h, r) ==
    /\ at[h] = "idle"
    /\ begun < MaxReqs
    /\ begun' = begun + 1
    /\ req' = [req EXCEPT ![h] = [id |-> begun + 1, route |-> r, stamp |-> now]]
    /\ at' = [at EXCEPT ![h] = "called"]
    /\ UNCHANGED <<now, zset, failures, admitted>>

(* Mutant: the denial is a state of its own that nothing leaves.            *)
CountDenies(h) ==
    /\ at[h] = "called"
    /\ LET left == Recent(zset[Own(h)], req[h].stamp) IN
          /\ zset' = [zset EXCEPT ![Own(h)] = left]
          /\ at' = [at EXCEPT ![h] = IF Cardinality(left) >= Limit[req[h].route]
                                     THEN "denied" ELSE "counted"]
    /\ UNCHANGED <<now, req, begun, failures, admitted>>

(* Mutant: a denied request is added to the bucket.                         *)
CountAddsDenied(h) ==
    /\ at[h] = "called"
    /\ LET left == Recent(zset[Own(h)], req[h].stamp) IN
          IF Cardinality(left) >= Limit[req[h].route]
          THEN /\ zset' = [zset EXCEPT ![Own(h)] = left \cup {req[h]}]
               /\ at' = [at EXCEPT ![h] = "idle"]
          ELSE /\ zset' = [zset EXCEPT ![Own(h)] = left]
               /\ at' = [at EXCEPT ![h] = "counted"]
    /\ UNCHANGED <<now, req, begun, failures, admitted>>

(* Step 1: prune by the time read before, count, and deny at the limit      *)
(* without adding.                                                          *)
Count(h) ==
    /\ at[h] = "called"
    /\ LET left == Recent(zset[Own(h)], req[h].stamp) IN
          /\ zset' = [zset EXCEPT ![Own(h)] = left]
          /\ at' = [at EXCEPT ![h] = IF Cardinality(left) >= Limit[req[h].route]
                                     THEN "idle" ELSE "counted"]
    /\ UNCHANGED <<now, req, begun, failures, admitted>>

(* Step 2: register the request, which then passes.                         *)
Add(h) ==
    /\ at[h] = "counted"
    /\ zset' = [zset EXCEPT ![Own(h)] = @ \cup {req[h]}]
    /\ admitted' = admitted \cup {req[h]}
    /\ at' = [at EXCEPT ![h] = "idle"]
    /\ UNCHANGED <<now, req, begun, failures>>

(* A Redis call fails: the request passes, registered or not.               *)
RedisFails(h) ==
    /\ at[h] \in {"called", "counted"}
    /\ failures < MaxFailures
    /\ failures' = failures + 1
    /\ at' = [at EXCEPT ![h] = "idle"]
    /\ UNCHANGED <<now, zset, req, begun, admitted>>

Tick ==
    /\ now < MaxTime
    /\ now' = now + 1
    /\ UNCHANGED <<zset, at, req, begun, failures, admitted>>

Next ==
    \/ \E h \in Handlers : \/ \E r \in Routes : Begin(h, r)
                           \/ Count(h) \/ Add(h) \/ RedisFails(h)
    \/ Tick

Spec == Init /\ [][Next]_vars

-----------------------------------------------------------------------------
(* Properties *)

TypeOK ==
    /\ now \in 0..MaxTime
    /\ zset \in [Buckets -> SUBSET Request]
    /\ at \in [Handlers -> Ats]
    /\ req \in [Handlers -> Request]
    /\ begun \in 0..MaxReqs
    /\ failures \in 0..MaxFailures
    /\ admitted \subseteq Request

(* The requests of a route let through in the last window.                  *)
Through(r) == {e \in Recent(admitted, now) : e.route = r}

(* What concurrency can add to a limit: the other requests in flight, also  *)
(* when some of them are slower than the window.                            *)
OvershootBounded ==
    \A r \in Routes :
        Cardinality(Through(r)) <= Limit[r] + Cardinality(Handlers) - 1

(* A request is denied only if a full limit of requests of its bucket was   *)
(* let through in its window: a client that waits recovers, however many of *)
(* its requests were denied.                                                *)
DeniedHadLimit ==
    [][\A h \in Handlers :
          at[h] = "called" /\ at'[h] = "idle" /\ failures' = failures =>
              Cardinality({e \in Recent(admitted, req[h].stamp) : Bucket[e.route] = Own(h)})
                  >= Limit[req[h].route]]_vars
=============================================================================
