----------------------------- MODULE MCRequests -----------------------------
(* Instance of Requests for TLC: two companies on two connections, two      *)
(* routes with limits of their own that share a bucket, and two requests of *)
(* one client at the same time.                                             *)
EXTENDS Requests, TLC

CONSTANTS t1, t2, h1, h2, h3, login, refresh, auth

TwoCompanies == h1 :> t1 @@ h2 :> t2 @@ h3 :> t1
TwoLimits == login :> 1 @@ refresh :> 2
OneBucket == login :> auth @@ refresh :> auth

Swaps ==
    Permutations(Conns) \cup Permutations(Clients) \cup Permutations(Companies) \cup Permutations(Emails)
        \cup Permutations(Passwords)
=============================================================================
