-------------------------- MODULE TenantIsolation --------------------------
(***************************************************************************)
(* What row-level security promises: whatever a handler reads or writes     *)
(* belongs to the tenant it works for, but for landing pages that are       *)
(* published when it reads them; and only a company publishes its page or   *)
(* takes it back.  Of roles that are free of it it promises nothing.        *)
(***************************************************************************)
CONSTANTS
    Tenants,     \* companies
    Handlers,    \* API requests, webhook handlers and tasks
    TenantOf,    \* the company each handler works for
    Exempt       \* the handlers whose role is free of the policies

VARIABLES
    published,   \* the companies whose landing page is published
    touched      \* whose rows each handler under the policies has read or written, and
                 \* whose pages it was shown

Init ==
    /\ published \subseteq Tenants
    /\ touched = [h \in Handlers |-> {}]

Mark(h, marks) == touched' = [touched EXCEPT ![h] = @ \cup marks]

Read(h) ==
    /\ \E marks \in SUBSET (({TenantOf[h]} \X {"read"}) \cup (published \X {"shown"})) :
          Mark(h, marks)
    /\ UNCHANGED published

Write(h) ==
    /\ Mark(h, {<<TenantOf[h], "wrote">>})
    /\ \E now \in SUBSET {TenantOf[h]} : published' = (published \ {TenantOf[h]}) \cup now

Roam == published' \subseteq Tenants /\ UNCHANGED touched

Next ==
    \/ \E h \in Handlers \ Exempt : Read(h) \/ Write(h)
    \/ Exempt # {} /\ Roam

Spec == Init /\ [][Next]_<<published, touched>>
=============================================================================
