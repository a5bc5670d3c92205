----------------------------- MODULE Compliance -----------------------------
(***************************************************************************)
(* What the compliance pages say of a tenant: ComplianceService grades ten  *)
(* checks and their worst, CITRAComplianceService derives the tiers.  The   *)
(* facts they read are any; wording is left out.                            *)
(***************************************************************************)
EXTENDS Naturals, Sequences

CONSTANT Contacts   \* pairs <<contacts, contacts that opted in>>

VARIABLES
    facts,   \* what the checks look at
    page,    \* the grades last served, in the order of the checks
    overall,
    tiers    \* the tiers the CITRA report calls compliant

vars == <<facts, page, overall, tiers>>

(* Storage endpoints, by the substrings the code looks for: the region, a   *)
(* local store, Amazon's domain.                                            *)
Endpoints ==
    {[region |-> r, local |-> l, amazon |-> a] :
        r \in {"me-south-1", "me-south", "me-central", "none"}, l \in BOOLEAN, a \in BOOLEAN}

Facts == [endpoint : Endpoints, contacts : Contacts, purged : BOOLEAN, audited : BOOLEAN,
          rls : {"all", "some", "unreadable"}, env : {"development", "production"}]

Init ==
    /\ facts \in Facts
    /\ page = <<>> /\ overall = "none" /\ tiers = {}

Residency(e) ==
    CASE e.region = "me-south-1" \/ (e.amazon /\ e.region = "me-south") -> "pass"
      [] e.local /\ e.region # "me-south-1" /\ ~(e.amazon /\ e.region = "me-south") -> "info"
      [] OTHER -> "warn"

(* The rate is rounded to a tenth of a percent before it is compared.       *)
Tenths(c) == (2000 * c[2] + c[1]) \div (2 * c[1])
Consent(c) ==
    IF c[1] = 0 THEN "info"
    ELSE IF Tenths(c) >= 800 THEN "pass" ELSE IF Tenths(c) >= 500 THEN "warn" ELSE "fail"

RlsEnforced(r) == [all |-> "pass", some |-> "fail", unreadable |-> "warn"][r]

Grades(f) ==
    <<Residency(f.endpoint), "info", "info", Consent(f.contacts),
      IF f.purged THEN "pass" ELSE "info", IF f.audited THEN "pass" ELSE "warn", "pass", "pass",
      RlsEnforced(f.rls), IF f.env = "development" THEN "info" ELSE "pass">>

\* Mutant: the last bad grade decides.
WorstIsLast(g) ==
    LET worst[k \in 0..Len(g)] ==
          IF k = 0 THEN "pass" ELSE IF g[k] \in {"warn", "fail"} THEN g[k] ELSE worst[k - 1]
    IN worst[Len(g)]
(* The loop ends at the first failure, and a warning does not hide one.     *)
Worst(g) ==
    LET worst[k \in 0..Len(g)] ==
          IF k = 0 THEN "pass"
          ELSE IF worst[k - 1] = "fail" THEN "fail"
          ELSE IF g[k] \in {"warn", "fail"} THEN g[k] ELSE worst[k - 1]
    IN worst[Len(g)]

GetStatus ==
    /\ page' = Grades(facts)
    /\ overall' = [pass |-> "compliant", warn |-> "needs_attention", fail |-> "non_compliant"]
                      [Worst(Grades(facts))]
    /\ UNCHANGED <<facts, tiers>>

InGcc(e) == e.region \in {"me-south-1", "me-south", "me-central"}
GetClassification ==
    /\ tiers' = IF InGcc(facts.endpoint) THEN {1, 2, 3} ELSE {1}
    /\ UNCHANGED <<facts, page, overall>>

Next == GetStatus \/ GetClassification

Spec == Init /\ [][Next]_vars

-----------------------------------------------------------------------------
(* Properties *)

TypeOK == facts \in Facts /\ tiers \subseteq 1..4

(* The page calls a tenant compliant exactly when no check warns or fails,  *)
(* and non-compliant exactly when one fails, in whatever order they come.   *)
WorstDecides ==
    LET given == {page[k] : k \in DOMAIN page} IN
        page # <<>> =>
            /\ overall = "compliant" <=> given \cap {"warn", "fail"} = {}
            /\ overall = "non_compliant" <=> "fail" \in given

(* Whoever passes the residency check is in a region of the CITRA report's  *)
(* third tier, and consent passes with no less than 79.95 percent.          *)
PassIsEarned ==
    page # <<>> =>
        /\ page[1] = "pass" /\ tiers # {} => 3 \in tiers
        /\ page[4] = "pass" => 10000 * facts.contacts[2] >= 7995 * facts.contacts[1]

ComplianceSound == WorstDecides /\ PassIsEarned
=============================================================================
