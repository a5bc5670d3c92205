----------------------------- MODULE MCInbound -----------------------------
(* Instance of Inbound for TLC: two requests, the first with a message of   *)
(* each of two customers, the second with one to a number of no company and *)
(* one more of the first customer.                                          *)
EXTENDS Inbound, TLC

CONSTANTS m1, m2, m3, m4, p1, p2, q1, q2

TwoSenders == m1 :> p1 @@ m2 :> p1 @@ m3 :> p2 @@ m4 :> p2
TwoRequests == q1 :> <<m1, m3>> @@ q2 :> <<m4, m2>>
LimitOne == [a \in Agents |-> 1]

(* Concurrent handlers and redelivery; the same with staff in the inbox;    *)
(* handlers that run alone while agents come and go; and while staff do     *)
(* what they like.                                                          *)
FourScenes ==
    {[alone |-> FALSE, tries |-> 2, staff |-> {}],
     [alone |-> FALSE, tries |-> 1, staff |-> {"read", "assign", "close"}],
     [alone |-> TRUE, tries |-> 1, staff |-> {"close", "agents"}],
     [alone |-> TRUE, tries |-> 1, staff |-> {"assign", "close", "reopen", "delete"}]}
=============================================================================
