---------------------------- MODULE MCOperations ----------------------------
(* Instance of Operations for TLC: two handlers, two tenants, and two pods  *)
(* with a user of a company of its own each.                                *)
EXTENDS Operations, TLC

CONSTANTS ann, bob, acme, best

Owners == ann :> acme @@ bob :> best

(* On both sides of the grades' borders: half, a majority, four in five.    *)
Borders == {<<0, 0>>, <<5, 2>>, <<5, 3>>, <<10000, 7994>>, <<10000, 7995>>}

Swaps ==
    Permutations(Workers) \cup Permutations(Tenants) \cup Permutations(Pods)
        \cup Permutations(Sockets)
=============================================================================
