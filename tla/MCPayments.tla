----------------------------- MODULE MCPayments -----------------------------
(* Instance of Payments for TLC: two charges, of one invoice or of two.     *)
EXTENDS Payments, TLC

CONSTANTS c1, c2, h1, h2
=============================================================================
