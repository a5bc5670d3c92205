-------------------------- MODULE MCTenantContext --------------------------
(* Instance of TenantContext for TLC: three handlers of two companies.      *)
EXTENDS TenantContext, TLC

CONSTANTS t1, t2, h1, h2, h3

TwoCompanies == h1 :> t1 @@ h2 :> t2 @@ h3 :> t1
=============================================================================
