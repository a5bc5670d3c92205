------------------------------ MODULE Inbound ------------------------------
(***************************************************************************)
(* The WhatsApp webhook: requests that carry several inbound messages, each *)
(* handled in a transaction of its own that finds or inserts the contact,   *)
(* finds or opens the conversation, stores the message, bumps the unread    *)
(* badge and lets the routing engine assign an agent.  Messages to a number *)
(* that no company has connected are passed over.  Requests are handled     *)
(* concurrently, and Meta delivers one again when it was not answered 200.  *)
(* Around them staff read, assign, close and reopen conversations and       *)
(* delete contacts.                                                         *)
(*                                                                          *)
(* Transactions are READ COMMITTED: a SELECT sees what is committed, a row  *)
(* that was flushed is locked until the end of its transaction, and an      *)
(* UPDATE writes the attributes the handler changed, computed from what it  *)
(* read.                                                                    *)
(***************************************************************************)
EXTENDS Naturals, Sequences, FiniteSets, FiniteSetsExt, Routing

CONSTANTS
    Phones,      \* customers' numbers
    Msgs,        \* wamids
    Sender,      \* the number each message comes from
    Known,       \* those to a phone_number_id that a company has, throughout
    Requests,    \* webhook requests
    Payload,     \* the messages of each request, in order
    Readers,     \* GET /conversations/{id} requests of staff
    Scenes,      \* what may go on around the requests; one is the case
    MaxConvs     \* bound: conversations

ASSUME SenderType == Sender \in [Msgs -> Phones]
ASSUME KnownAreMsgs == Known \subseteq Msgs
ASSUME PayloadType == \A q \in Requests : Payload[q] \in Seq(Msgs) /\ Payload[q] # <<>>
ASSUME RequestsFinite == IsFiniteSet(Requests)
ASSUME ScenesType ==
    \A e \in Scenes :
        /\ e.alone \in BOOLEAN    \* handlers happen to run one at a time
        /\ e.tries \in Nat        \* bound: deliveries of one request
        /\ e.staff \subseteq {"read", "assign", "close", "reopen", "delete", "agents"}
ASSUME MaxConvsIsNat == MaxConvs \in Nat

VARIABLES
    contacts,    \* the contact row of each number
    convs,       \* the conversations, in the order they were opened
    stored,      \* history: rows stored per wamid
    req,         \* the handler of each webhook request
    reader,      \* the handler of each GET request
    active,      \* the agents with is_active
    onDuty,      \* the agents within their working hours
    scene        \* the scene that is the case

vars == <<contacts, convs, stored, req, reader, active, onDuty, scene>>
others == <<active, onDuty, scene>>

Ats == {"idle", "contact", "insert", "conv", "route", "commit", "dispatch",
        "ok", "error", "rejected"}
Running == {"contact", "insert", "conv", "route", "commit", "dispatch"}
Fresh == [at |-> "idle", i |-> 1, tries |-> 0, new |-> FALSE, conv |-> 0,
          unread |-> 0, pick |-> Nobody, held |-> FALSE]

Msg(q) == Payload[q][req[q].i]
Phone(q) == Sender[Msg(q)]
Go(q, at) == req' = [req EXCEPT ![q].at = at]

(* The conversations of a number, and those the inbox still counts as open. *)
ConvsOf(p) == {c \in DOMAIN convs : convs[c].phone = p}
OpenConvs(p) == {c \in ConvsOf(p) : convs[c].open}
Latest(S) == IF S = {} THEN 0 ELSE Max(S)

(* A handler that has flushed a row holds it until it commits.              *)
Inserting(p) ==
    \E q \in Requests : req[q].new /\ req[q].at \in {"conv", "route", "commit"}
                          /\ Phone(q) = p
Locked(c) == \E q \in Requests : req[q].held /\ req[q].conv = c

Load == [a \in Agents |->
           Cardinality({c \in DOMAIN convs : convs[c].open /\ convs[c].agent = a})]

(* _find_previous_agent: the agent of the last conversation that has one.   *)
Previous(p) ==
    LET had == {c \in ConvsOf(p) : convs[c].agent # Nobody}
    IN  IF had = {} THEN Nobody ELSE convs[Max(had)].agent

Init ==
    /\ contacts \in [Phones -> {"none", "live"}]
    /\ convs = <<>>
    /\ stored = [m \in Msgs |-> 0]
    /\ req = [q \in Requests |-> Fresh]
    /\ reader = [s \in Readers |-> [at |-> "idle", conv |-> 0, unread |-> 0, seen |-> 0]]
    /\ active = Agents
    /\ onDuty = Agents
    /\ scene \in Scenes

-----------------------------------------------------------------------------
(* receive_whatsapp_webhook *)

(* Meta delivers a request; again, and from its first message, when it got  *)
(* no 200 or the 200 was lost.                                              *)
Deliver(q) ==
    /\ req[q].at \in {"idle", "ok", "error", "rejected"}
    /\ req[q].tries < scene.tries
    /\ scene.alone => \A o \in Requests : req[o].at \notin Running
    /\ req' = [req EXCEPT ![q] = [Fresh EXCEPT !.at = "contact",
                                               !.tries = req[q].tries + 1]]
    /\ UNCHANGED <<contacts, convs, stored, reader, others>>

(* Mutant: the end of the payload is missed by one.                         *)
AdvanceOverruns(q) ==
    req' = [req EXCEPT ![q] =
         [Fresh EXCEPT !.tries = req[q].tries,
            !.at = IF req[q].i > Len(Payload[q]) THEN "ok" ELSE "contact",
            !.i = IF req[q].i > Len(Payload[q]) THEN 1 ELSE req[q].i + 1]]

(* The next message of the payload, or the 200.                             *)
Advance(q) ==
    req' = [req EXCEPT ![q] =
         [Fresh EXCEPT !.tries = req[q].tries,
            !.at = IF req[q].i = Len(Payload[q]) THEN "ok" ELSE "contact",
            !.i = IF req[q].i = Len(Payload[q]) THEN 1 ELSE req[q].i + 1]]

(* A change without phone_number_id, or with one of no company.             *)
Skip(q) ==
    /\ req[q].at = "contact"
    /\ Msg(q) \notin Known
    /\ Advance(q)
    /\ UNCHANGED <<contacts, convs, stored, reader, others>>

(* The contact is looked up among those that are not deleted ...            *)
FindContact(q) ==
    /\ req[q].at = "contact"
    /\ Msg(q) \in Known
    /\ Go(q, IF contacts[Phone(q)] = "live" THEN "conv" ELSE "insert")
    /\ UNCHANGED <<contacts, convs, stored, reader, others>>

(* Mutant: the insert waits for ever for a key that is taken.               *)
InsertContactWaits(q) ==
    /\ req[q].at = "insert"
    /\ ~Inserting(Phone(q))
    /\ contacts[Phone(q)] = "none"
    /\ req' = [req EXCEPT ![q].at = "conv", ![q].new = TRUE]
    /\ UNCHANGED <<contacts, convs, stored, reader, others>>

(* ... and inserted when there is none: the insert waits for one that is    *)
(* not committed, and violates the unique key of a row that is, deleted or  *)
(* not.                                                                     *)
InsertContact(q) ==
    /\ req[q].at = "insert"
    /\ ~Inserting(Phone(q))
    /\ req' = [req EXCEPT ![q].at = IF contacts[Phone(q)] = "none" THEN "conv"
                                    ELSE "rejected",
                          ![q].new = contacts[Phone(q)] = "none"]
    /\ UNCHANGED <<contacts, convs, stored, reader, others>>

(* Mutant: a conversation is opened without looking for one.                *)
FindConvNew(q) ==
    /\ req[q].at = "conv"
    /\ Len(convs) < MaxConvs
    /\ req' = [req EXCEPT ![q].at = "route", ![q].conv = 0, ![q].unread = 0]
    /\ UNCHANGED <<contacts, convs, stored, reader, others>>

(* Mutant: the engine is asked about assigned conversations too.            *)
FindConvRoutes(q) ==
    /\ req[q].at = "conv"
    /\ LET c == Latest(OpenConvs(Phone(q)))
       IN  /\ c = 0 => Len(convs) < MaxConvs
           /\ req' = [req EXCEPT ![q].at = "route", ![q].conv = c,
                                 ![q].unread = IF c = 0 THEN 0 ELSE convs[c].unread]
    /\ UNCHANGED <<contacts, convs, stored, reader, others>>

(* The latest open conversation of the contact, or a new one.               *)
FindConv(q) ==
    /\ req[q].at = "conv"
    /\ LET c == Latest(OpenConvs(Phone(q)))
           unassigned == c = 0 \/ convs[c].agent = Nobody
       IN  /\ c = 0 => Len(convs) < MaxConvs
           /\ req' = [req EXCEPT ![q].at = IF unassigned THEN "route" ELSE "commit",
                                 ![q].conv = c,
                                 ![q].unread = IF c = 0 THEN 0 ELSE convs[c].unread]
    /\ UNCHANGED <<contacts, convs, stored, reader, others>>

(* The engine is asked when the conversation was unassigned as it was read. *)
(* Its first query flushes the conversation, whose row is locked from here. *)
Route(q) ==
    /\ req[q].at = "route"
    /\ ~Locked(req[q].conv)
    /\ \E a \in Assignable(Previous(Phone(q)), active, onDuty, Load) :
         req' = [req EXCEPT ![q].at = "commit", ![q].pick = a, ![q].held = req[q].conv # 0]
    /\ UNCHANGED <<contacts, convs, stored, reader, others>>

(* The conversation row the handler leaves: its unread count is the one it  *)
(* read, plus one, and an agent is written only when one was chosen.        *)
Written(q) ==
    IF req[q].conv = 0
    THEN [phone |-> Phone(q), open |-> TRUE, agent |-> req[q].pick, unread |-> 1,
          total |-> 1, shown |-> 0, hand |-> Nobody]
    ELSE [convs[req[q].conv] EXCEPT
            !.unread = req[q].unread + 1, !.total = @ + 1,
            !.agent = IF req[q].pick = Nobody THEN @ ELSE req[q].pick]

(* tenant_session commits contact, conversation and message together.       *)
Commit(q) ==
    /\ req[q].at = "commit"
    /\ req[q].held \/ ~Locked(req[q].conv)
    /\ convs' = IF req[q].conv = 0 THEN Append(convs, Written(q))
                ELSE [convs EXCEPT ![req[q].conv] = Written(q)]
    /\ contacts' = [contacts EXCEPT ![Phone(q)] = IF req[q].new THEN "live" ELSE @]
    /\ stored' = [stored EXCEPT ![Msg(q)] = @ + 1]
    /\ req' = [req EXCEPT ![q].at = "dispatch", ![q].new = FALSE, ![q].held = FALSE]
    /\ UNCHANGED <<reader, others>>

(* Mutant: the loop answers after the first message.                        *)
DispatchFirstOnly(q) ==
    /\ req[q].at = "dispatch"
    /\ req' = [req EXCEPT ![q] = [Fresh EXCEPT !.tries = req[q].tries, !.at = "ok"]]
    /\ UNCHANGED <<contacts, convs, stored, reader, others>>

(* Automations and AI are dispatched; then the next message.                *)
Dispatch(q) ==
    /\ req[q].at = "dispatch"
    /\ Advance(q)
    /\ UNCHANGED <<contacts, convs, stored, reader, others>>

(* The process, the database or the broker fails: what is not committed is  *)
(* rolled back and the request is not answered 200.                         *)
Abort(q) ==
    /\ req[q].at \in Running
    /\ req' = [req EXCEPT ![q] = [Fresh EXCEPT !.tries = req[q].tries, !.at = "error"]]
    /\ UNCHANGED <<contacts, convs, stored, reader, others>>

-----------------------------------------------------------------------------
(* Staff *)

(* get_conversation loads the row and its messages ...                      *)
ReadLoad(s) ==
    /\ "read" \in scene.staff
    /\ reader[s].at = "idle"
    /\ \E c \in DOMAIN convs :
         reader' = [reader EXCEPT ![s] = [at |-> "loaded", conv |-> c,
                      unread |-> convs[c].unread, seen |-> convs[c].total]]
    /\ UNCHANGED <<contacts, convs, stored, req, others>>

(* ... and resets the badge, with no UPDATE when it was already 0.          *)
ReadReset(s) ==
    /\ reader[s].at = "loaded"
    /\ ~Locked(reader[s].conv)
    /\ reader' = [reader EXCEPT ![s].at = "done"]
    /\ convs' = [convs EXCEPT ![reader[s].conv].unread =
                                IF reader[s].unread = 0 THEN @ ELSE 0,
                              ![reader[s].conv].shown = Max({@, reader[s].seen})]
    /\ UNCHANGED <<contacts, stored, req, others>>

(* Handlers that have read the conversation as unassigned and are about to  *)
(* ask the engine.                                                          *)
Routing(c) == \E q \in Requests : req[q].at = "route" /\ req[q].conv = c

(* update_conversation: assignment and status.                              *)
Assign(c, a) ==
    /\ "assign" \in scene.staff
    /\ ~Locked(c)
    /\ convs[c].agent # a
    /\ convs' = [convs EXCEPT ![c].agent = a, ![c].hand = IF Routing(c) THEN Nobody ELSE a]
    /\ UNCHANGED <<contacts, stored, req, reader, others>>

SetOpen(c, open) ==
    /\ (IF open THEN "reopen" ELSE "close") \in scene.staff
    /\ ~Locked(c)
    /\ convs[c].open # open
    /\ convs' = [convs EXCEPT ![c].open = open]
    /\ UNCHANGED <<contacts, stored, req, reader, others>>

(* delete_contact sets deleted_at; the row and its key stay.                *)
DeleteContact(p) ==
    /\ "delete" \in scene.staff
    /\ contacts[p] = "live"
    /\ contacts' = [contacts EXCEPT ![p] = "deleted"]
    /\ UNCHANGED <<convs, stored, req, reader, others>>

(* deactivate_user and update_user; working hours begin and end.            *)
ChangeAgent(a) ==
    /\ "agents" \in scene.staff
    /\ \/ active' \in {active \ {a}, active \cup {a}} /\ UNCHANGED onDuty
       \/ onDuty' \in {onDuty \ {a}, onDuty \cup {a}} /\ UNCHANGED active
    /\ UNCHANGED <<contacts, convs, stored, req, reader, scene>>

-----------------------------------------------------------------------------
Handle(q) ==
    \/ Skip(q) \/ FindContact(q) \/ InsertContact(q) \/ FindConv(q) \/ Route(q)
    \/ Commit(q) \/ Dispatch(q)

Next ==
    \/ \E q \in Requests : Deliver(q) \/ Handle(q) \/ Abort(q)
    \/ \E s \in Readers : ReadLoad(s) \/ ReadReset(s)
    \/ \E c \in DOMAIN convs : \/ \E a \in Agents : Assign(c, a)
                               \/ \E open \in BOOLEAN : SetOpen(c, open)
    \/ \E p \in Phones : DeleteContact(p)
    \/ \E a \in Agents : ChangeAgent(a)

Spec == Init /\ [][Next]_vars

(* The event loop runs every handler that can go on.                        *)
FairSpec == Spec /\ \A q \in Requests : WF_vars(Handle(q))

-----------------------------------------------------------------------------
(* Properties *)

TypeOK ==
    /\ contacts \in [Phones -> {"none", "live", "deleted"}]
    /\ Len(convs) <= MaxConvs + Cardinality(Requests)
    /\ \A c \in DOMAIN convs :
         convs[c] \in [phone : Phones, open : BOOLEAN, agent : Agents \cup {Nobody},
                       unread : Nat, total : Nat, shown : Nat, hand : Agents \cup {Nobody}]
    /\ stored \in [Msgs -> Nat]
    /\ \A q \in Requests :
         /\ req[q] \in [at : Ats, i : 1..Len(Payload[q]), tries : 0..scene.tries,
                        new : BOOLEAN, conv : Nat, unread : Nat,
                        pick : Agents \cup {Nobody}, held : BOOLEAN]
         /\ req[q].conv \in 0..Len(convs)
    /\ reader \in [Readers -> [at : {"idle", "loaded", "done"}, conv : Nat,
                               unread : Nat, seen : Nat]]
    /\ active \subseteq Agents
    /\ onDuty \subseteq Agents
    /\ scene \in Scenes

(* A request is answered 200 only when every message it carried for a       *)
(* company is stored, whatever crashes, retries and rejected inserts came   *)
(* before, and wherever in it there are changes that are passed over.       *)
Kept(q, i) == Payload[q][i] \in Known => stored[Payload[q][i]] > 0
AnsweredIsStored ==
    \A q \in Requests : req[q].at = "ok" => \A i \in DOMAIN Payload[q] : Kept(q, i)

(* The handler that loses the race to insert a contact is rejected, and     *)
(* finds the winner's contact when Meta delivers the request again, unless  *)
(* staff deleted the contact.                                               *)
RejectedCanRetry ==
    "delete" \notin scene.staff =>
        \A q \in Requests : req[q].at = "rejected" => contacts[Phone(q)] = "live"

(* "Get or create open conversation": a contact has one open conversation,  *)
(* as long as handlers run alone and staff reopen none.                     *)
OneOpenConversation ==
    scene.alone /\ "reopen" \notin scene.staff =>
        \A p \in Phones : Cardinality(OpenConvs(p)) <= 1

(* "Checks agent availability and capacity before assigning": the engine,   *)
(* run alone, loads no agent beyond max_concurrent_conversations.           *)
LoadWithinLimit ==
    scene.alone /\ {"assign", "reopen"} \cap scene.staff = {} =>
        \A a \in Agents : Load[a] <= Limit[a]

(* "auto-assign if unassigned": what staff assign by hand stays through all *)
(* later deliveries and whatever the engine would choose, with any handlers *)
(* running, unless one of them had read the conversation as unassigned and  *)
(* not yet locked it when they did.                                         *)
HandAssignmentsStay ==
    \A c \in DOMAIN convs : convs[c].hand # Nobody => convs[c].agent = convs[c].hand

(* A conversation nobody has ever opened shows a badge, whatever updates of *)
(* its count are lost.                                                      *)
BadgeShown ==
    \A c \in DOMAIN convs : convs[c].shown = 0 => convs[c].unread > 0

(* What a delivery leaves behind: stored messages if it was answered, a     *)
(* contact to find again if it was not, a badge in any case.                *)
DeliveriesSound == AnsweredIsStored /\ RejectedCanRetry /\ BadgeShown

(* What one handler at a time guarantees of conversations and their agents. *)
RoutingSound == OneOpenConversation /\ LoadWithinLimit

(* Every delivery is answered: locks and waits never hold a handler for     *)
(* ever, and the loop over the messages ends.                               *)
RequestAnswered ==
    \A q \in Requests : req[q].at \in Running ~> req[q].at \notin Running
=============================================================================
