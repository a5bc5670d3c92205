---------------------------- MODULE LandingPages ----------------------------
(***************************************************************************)
(* The landing pages of several companies.  Slugs are one name space, but a *)
(* company only sees its own pages and published ones; visitors come        *)
(* without a tenant, read what the policy for published pages shows and     *)
(* count themselves in an UPDATE that only a role free of the policies can  *)
(* make.  Titles, blocks and settings are left out.                         *)
(***************************************************************************)
EXTENDS Naturals, FiniteSets

CONSTANTS
    Companies, NoCompany,
    Slugs, NoSlug,
    PageIds,
    Handlers,    \* requests of users and visitors
    MaxRequests  \* bound: requests

VARIABLES
    bypass,      \* whether the role of the application is free of the policies
    pages,       \* table landing_pages
    act,         \* the requests between their SELECT and their last statement
    asked,
    served,      \* history: the visits answered, and the clicks, of each page
    clicked

vars == <<bypass, pages, act, asked, served, clicked>>

Page == [owner : Companies, slug : Slugs, status : {"draft", "published"},
         deleted : BOOLEAN, visits : Nat, conversions : Nat]
NoPage == [owner |-> NoCompany, slug |-> NoSlug, status |-> "draft", deleted |-> FALSE,
           visits |-> 0, conversions |-> 0]
NoAct == [op |-> "none"]

Init ==
    /\ bypass \in BOOLEAN
    /\ pages = [p \in PageIds |-> NoPage]
    /\ act = [h \in Handlers |-> NoAct]
    /\ asked = 0
    /\ served = [p \in PageIds |-> 0]
    /\ clicked = [p \in PageIds |-> 0]

Exists(p) == pages[p] # NoPage

(* tenant_isolation_policy and public_read_published.                       *)
Sees(c, p) == Exists(p) /\ (bypass \/ pages[p].owner = c \/ pages[p].status = "published")

(* Mutant: slugs are unique in a company only.                              *)
SlugFreeOfOwn(s, c, p) == \A q \in PageIds \ {p} : pages[q].slug = s => pages[q].owner # c

(* The unique index over slugs, deleted pages and other companies included. *)
SlugFree(s, c, p) == \A q \in PageIds \ {p} : pages[q].slug # s

(* A request, through any of the endpoints.                                *)
Ask == asked < MaxRequests /\ asked' = asked + 1
Hold(h, r) ==
    /\ Ask
    /\ act[h] = NoAct
    /\ act' = [act EXCEPT ![h] = r]
    /\ UNCHANGED <<bypass, pages, served, clicked>>
Done(h) == act' = [act EXCEPT ![h] = NoAct]

(* create_page looks the slug up among the pages it sees.                   *)
CreateCheck(h, c, s) ==
    /\ \A p \in PageIds : Sees(c, p) => pages[p].slug # s
    /\ Hold(h, [op |-> "create", company |-> c, slug |-> s])

CreateCommit(h) ==
    LET a == act[h] IN
        /\ a.op = "create"
        /\ SlugFree(a.slug, a.company, NoSlug)
        /\ \E p \in PageIds :
              /\ ~Exists(p)
              /\ pages' = [pages EXCEPT ![p] = [NoPage EXCEPT !.owner = a.company, !.slug = a.slug]]
        /\ Done(h)
        /\ UNCHANGED <<bypass, asked, served, clicked>>

(* update_page, publish_page, unpublish_page, delete_page: the page must be *)
(* there; the slug is assigned before it is compared with itself, so only   *)
(* the index refuses it.                                                    *)
EditCheck(h, p, change) ==
    /\ Exists(p) /\ ~pages[p].deleted
    /\ Hold(h, [op |-> "edit", page |-> p, change |-> change])

EditCommit(h) ==
    LET a == act[h] IN
        /\ a.op = "edit"
        /\ "slug" \in DOMAIN a.change => SlugFree(a.change.slug, pages[a.page].owner, a.page)
        /\ pages' = [pages EXCEPT ![a.page] =
                        [f \in DOMAIN @ |-> IF f \in DOMAIN a.change THEN a.change[f] ELSE @[f]]]
        /\ Done(h)
        /\ UNCHANGED <<bypass, asked, served, clicked>>

Edits == [{"slug"} -> Slugs] \cup [{"status"} -> {"draft", "published"}] \cup [{"deleted"} -> {TRUE}]

(* get_public_page answers with the count it has read plus one,             *)
VisitRead(h, s) ==
    \E p \in PageIds :
        /\ pages[p].slug = s /\ pages[p].status = "published" /\ ~pages[p].deleted
        /\ Ask
        /\ act[h] = NoAct
        /\ act' = [act EXCEPT ![h] = [op |-> "visit", page |-> p, count |-> pages[p].visits + 1]]
        /\ served' = [served EXCEPT ![p] = @ + 1]
        /\ UNCHANGED <<bypass, pages, clicked>>

(* and writes that count, if the policies let it.                           *)
VisitWrite(h) ==
    /\ act[h].op = "visit"
    /\ pages' = IF bypass THEN [pages EXCEPT ![act[h].page].visits = act[h].count] ELSE pages
    /\ Done(h)
    /\ UNCHANGED <<bypass, asked, served, clicked>>

(* record_conversion increments in the database, deleted pages too.         *)
Convert(s) ==
    LET hit == {p \in PageIds : pages[p].slug = s /\ pages[p].status = "published"} IN
        /\ Ask
        /\ hit # {}
        /\ clicked' = [p \in PageIds |-> clicked[p] + (IF p \in hit THEN 1 ELSE 0)]
        /\ pages' = [p \in PageIds |-> IF p \in hit /\ bypass
                                       THEN [pages[p] EXCEPT !.conversions = @ + 1] ELSE pages[p]]
        /\ UNCHANGED <<bypass, act, served>>

Abort(h) ==
    /\ act[h] # NoAct
    /\ Done(h)
    /\ UNCHANGED <<bypass, pages, asked, served, clicked>>

Next ==
    \/ \E h \in Handlers :
        \/ \E s \in Slugs : VisitRead(h, s) \/ \E c \in Companies : CreateCheck(h, c, s)
        \/ \E p \in PageIds, e \in Edits : EditCheck(h, p, e)
        \/ CreateCommit(h) \/ EditCommit(h) \/ VisitWrite(h) \/ Abort(h)
    \/ \E s \in Slugs : Convert(s)

Spec == Init /\ [][Next]_vars

-----------------------------------------------------------------------------
(* Properties *)

TypeOK == pages \in [PageIds -> Page \cup {NoPage}]

(* A slug leads to one page whoever looks it up, and keeps leading nowhere  *)
(* else, although the companies cannot see each other's drafts; and no page *)
(* counts more visits or conversions than it had.                           *)
PagesSound ==
    /\ \A s \in Slugs : Cardinality({p \in PageIds : pages[p].slug = s}) <= 1
    /\ \A p \in PageIds : pages[p].visits <= served[p] /\ pages[p].conversions <= clicked[p]
=============================================================================
