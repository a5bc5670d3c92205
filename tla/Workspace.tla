----------------------------- MODULE Workspace -----------------------------
(***************************************************************************)
(* The pages of one company's workspace: contacts, automations, deals,      *)
(* landing pages and chatbot flows.  Apart from the contact they are about  *)
(* the five share no table; a behaviour is one of one of them, and the      *)
(* others stay in one of their initial states.                              *)
(***************************************************************************)
EXTENDS Naturals, FiniteSets, Sequences

CONSTANTS
    Null,                                                          \* the null of every table
    Workers,                                                       \* requests, tasks, executions
    Ids, Phones, LongPhones, TagIds, Names, Fields, Files, ChunkSize, MaxCalls, \* see Contacts
    Order, Configs, Events, MaxSaves, MaxLost,                     \* see Automation
    Pipelines, Stages, DealIds, Values, MaxEdits,                  \* see Deals
    Companies, Slugs, PageIds, MaxVisits,                          \* see LandingPages
    NodeIds, Drawings, MaxDrawings, MaxRuns                        \* see Chatbots

(* The keys of contacts are numbers from 1 on.                              *)
ASSUME KeysFit == IsFiniteSet(Ids) /\ Ids \subseteq Nat \ {0}

(* Null is no value.                                                        *)
ASSUME NullFits ==
    /\ Null \notin Phones /\ Null \notin Names
    /\ Null \notin Companies /\ Null \notin Slugs /\ Null \notin PageIds

(* A row of a file is a phone or empty.                                     *)
ASSUME FilesFit == Files \subseteq Seq(Phones \cup {Null})

(* The automations in an order, each once.                                  *)
ASSUME OrderFits ==
    /\ Order \in Seq({Order[k] : k \in DOMAIN Order})
    /\ \A j, k \in DOMAIN Order : Order[j] = Order[k] => j = k

VARIABLES
    part,
    rows, details, tags, links, fields, values, change, requests, imp, \* contacts
    visible, autos, logs, contact, tagExists, queue, work, saves, lost,
    pipelines, stages, deals, timeline, edit, edits,                   \* deals
    bypass, pages, act, asked, served, clicked,                        \* landing pages
    flow, walks, tagged, assigned, drawings, begun, ended, crossed     \* chatbots

contactsVars == <<rows, details, tags, links, fields, values, change, requests, imp>>
automationVars == <<visible, autos, logs, contact, tagExists, queue, work, saves, lost>>
dealsVars == <<pipelines, stages, deals, timeline, edit, edits>>
pagesVars == <<bypass, pages, act, asked, served, clicked>>
chatbotVars == <<flow, walks, tagged, assigned, drawings, begun, ended, crossed>>

-----------------------------------------------------------------------------
C == INSTANCE Contacts WITH
    NoPhone <- Null, NoName <- Null, Handlers <- Workers, MaxRequests <- MaxCalls,
    edit <- change, asked <- requests
M == INSTANCE Automation WITH MaxEdits <- MaxSaves, edits <- saves
D == INSTANCE Deals WITH NoPipeline <- Null, NoStage <- Null, Handlers <- Workers
L == INSTANCE LandingPages WITH
    NoCompany <- Null, NoSlug <- Null, Handlers <- Workers, MaxRequests <- MaxVisits
B == INSTANCE Chatbots WITH Runners <- Workers, MaxEdits <- MaxDrawings

(* A flow that can be drawn.                                                *)
ASSUME DrawingsFit ==
    Drawings \subseteq [nodes : Seq(NodeIds \X B!Kinds), edges : Seq(NodeIds \X NodeIds)]

-----------------------------------------------------------------------------
Init ==
    /\ part \in {"contacts", "automation", "deals", "pages", "chatbots"}
    /\ C!Init /\ M!Init /\ D!Init /\ L!Init /\ B!Init
    /\ part # "automation" => visible = TRUE
    /\ part # "pages" => bypass = FALSE

ContactsStep ==
    /\ part = "contacts" /\ C!Next
    /\ UNCHANGED <<part, automationVars, dealsVars, pagesVars, chatbotVars>>
AutomationStep ==
    /\ part = "automation" /\ M!Next
    /\ UNCHANGED <<part, contactsVars, dealsVars, pagesVars, chatbotVars>>
DealsStep ==
    /\ part = "deals" /\ D!Next
    /\ UNCHANGED <<part, contactsVars, automationVars, pagesVars, chatbotVars>>
PagesStep ==
    /\ part = "pages" /\ L!Next
    /\ UNCHANGED <<part, contactsVars, automationVars, dealsVars, chatbotVars>>
ChatbotsStep ==
    /\ part = "chatbots" /\ B!Next
    /\ UNCHANGED <<part, contactsVars, automationVars, dealsVars, pagesVars>>

Next == ContactsStep \/ AutomationStep \/ DealsStep \/ PagesStep \/ ChatbotsStep

Spec ==
    Init /\ [][Next]_<<part, contactsVars, automationVars, dealsVars, pagesVars, chatbotVars>>

-----------------------------------------------------------------------------
(* Each is evaluated in the behaviours of its part only.                    *)

(* Every variable of every part has its type.                               *)
PartsTyped ==
    /\ part = "contacts" => C!TypeOK
    /\ part = "automation" => M!TypeOK
    /\ part = "deals" => D!TypeOK
    /\ part = "pages" => L!TypeOK
    /\ part = "chatbots" => B!TypeOK

(* See Contacts: a phone finds at most one contact, an import that reports  *)
(* no error has stored its rows, and only an edit that had read a contact   *)
(* before its deletion still writes into it.                                *)
ContactsSound ==
    /\ [](part = "contacts" => C!PhonesUnambiguous /\ C!CleanReportTrue)
    /\ C!DeletedStay

(* See Automation: a log tells what was done, and a retry repeats nothing.  *)
AutomationSound ==
    part = "automation" => M!LogsTrue /\ M!RetriesRepeatNothing

(* See Deals, LandingPages and Chatbots.                                    *)
TimelineTells == part = "deals" => D!TimelineTells
PagesSound == part = "pages" => L!PagesSound
FlowsSound == part = "chatbots" => B!FlowsSound
=============================================================================
