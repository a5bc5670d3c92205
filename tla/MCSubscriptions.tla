-------------------------- MODULE MCSubscriptions --------------------------
(* Instance of Subscriptions for TLC: a subscription is created, changed    *)
(* and cancelled in both ways.                                              *)
EXTENDS Subscriptions, TLC

CONSTANTS r1, r2, r3, r4

Ending == r1 :> "create" @@ r2 :> "change" @@ r3 :> "cancel" @@ r4 :> "cancel_now"
=============================================================================
