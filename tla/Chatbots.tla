------------------------------ MODULE Chatbots ------------------------------
(***************************************************************************)
(* One chatbot flow, edited and switched by staff, and its executions: a    *)
(* walk over the graph of its nodes as it was when the flow was loaded, in  *)
(* one transaction that ends with the execution count.  Texts are left out, *)
(* and a node is known by its kind; nothing calls match_inbound or          *)
(* execute_flow but a caller assumed here.                                  *)
(***************************************************************************)
EXTENDS Naturals, FiniteSets, Sequences, SequencesExt

CONSTANTS
    NodeIds,
    Drawings,   \* flows that can be drawn: [nodes : Seq of <<id, kind>>, edges : Seq of pairs]
    Runners,    \* executions that may overlap
    MaxEdits,   \* bound: edits by staff
    MaxRuns     \* bound: executions

VARIABLES
    flow,       \* the row of chatbot_flows
    walks,      \* [Runners -> the execution under way]
    tagged,     \* the contact has the flow's tag
    assigned,   \* its conversation has an agent
    drawings,   \* edits made
    begun,
    ended,      \* history: executions of the flow that committed
    crossed     \* history: two executions have overlapped

vars == <<flow, walks, tagged, assigned, drawings, begun, ended, crossed>>

NoFlow == [drawn |-> FALSE]
Kinds == {"send_message", "add_tag", "assign_agent", "delay"}
Free == [on |-> FALSE]
Walking == {r \in Runners : walks[r].on}

Init ==
    /\ flow = NoFlow
    /\ walks = [r \in Runners |-> Free]
    /\ tagged = FALSE /\ assigned = FALSE
    /\ drawings = 0 /\ begun = 0 /\ ended = 0
    /\ crossed = FALSE

-----------------------------------------------------------------------------
(* ChatbotService                                                           *)

Edit ==
    /\ drawings < MaxEdits /\ drawings' = drawings + 1
    /\ UNCHANGED <<walks, tagged, assigned, begun, crossed>>

CreateFlow(d, trigger) ==
    /\ Edit
    /\ ended' = 0
    /\ flow = NoFlow
    /\ flow' = [drawn |-> TRUE, nodes |-> d.nodes, edges |-> d.edges, active |-> FALSE,
                trigger |-> trigger, count |-> 0, born |-> drawings]

UpdateFlow(d, active) ==
    /\ Edit
    /\ flow # NoFlow
    /\ flow' = [flow EXCEPT !.nodes = d.nodes, !.edges = d.edges, !.active = active]
    /\ UNCHANGED ended

ToggleFlow ==
    /\ Edit
    /\ flow # NoFlow
    /\ flow' = [flow EXCEPT !.active = ~@]
    /\ UNCHANGED ended

DeleteFlow ==
    /\ Edit
    /\ flow # NoFlow
    /\ flow' = NoFlow
    /\ UNCHANGED ended

(* match_inbound: an active flow whose keyword occurs, or that takes any    *)
(* message; the other triggers match none.                                  *)
Matches(keyword) ==
    /\ flow # NoFlow /\ flow.active
    /\ flow.trigger \in {"message_received"} \cup {t \in {"keyword"} : keyword}

-----------------------------------------------------------------------------
(* ChatbotExecutor.execute_flow                                             *)

Begin(r, keyword) ==
    /\ walks[r] = Free /\ begun < MaxRuns
    /\ Matches(keyword)
    /\ flow.nodes # <<>>
    /\ walks' = [walks EXCEPT ![r] =
                    [on |-> TRUE, nodes |-> flow.nodes, edges |-> flow.edges, count |-> flow.count,
                     born |-> flow.born,
                     queue |-> <<flow.nodes[1][1]>>, visited |-> {}, done |-> <<>>,
                     tag |-> FALSE, agent |-> FALSE]]
    /\ begun' = begun + 1
    /\ crossed' = (crossed \/ Walking # {})
    /\ UNCHANGED <<flow, tagged, assigned, drawings, ended>>

\* The targets of a node's edges, in the order of the edges.
Out(w, n) == {k \in DOMAIN w.edges : w.edges[k][1] = n}
Before(w, n, k) == {i \in Out(w, n) : i < k}
Follows(w, n) ==
    [j \in 1..Cardinality(Out(w, n)) |->
        w.edges[CHOOSE k \in Out(w, n) : Cardinality(Before(w, n, k)) = j - 1][2]]

\* A dict by id: the last node of an id.
NodeOf(w, n) == {w.nodes[k] : k \in {i \in DOMAIN w.nodes :
                    w.nodes[i][1] = n /\ \A j \in DOMAIN w.nodes : w.nodes[j][1] = n => j <= i}}

\* Mutant: runs a node again each time it is reached.
FreshAlways(w) == TRUE
Fresh(w) == Head(w.queue) \notin w.visited

(* A node that has been visited is skipped.                                 *)
Skip(r) ==
    LET w == walks[r] IN
        /\ w.on /\ w.queue # <<>>
        /\ ~Fresh(w)
        /\ walks' = [walks EXCEPT ![r].queue = Tail(@)]
        /\ UNCHANGED <<flow, tagged, assigned, drawings, begun, ended, crossed>>

(* An edge may lead to a node that is not there, which leads nowhere.  A    *)
(* tag waits for another execution that adds it.                            *)
Visit(r) ==
    LET w == walks[r]
        n == Head(w.queue)
        kinds == {m[2] : m \in NodeOf(w, n)} IN
        /\ w.on /\ w.queue # <<>>
        /\ Fresh(w)
        /\ "add_tag" \in kinds => ~tagged /\ \A o \in Walking \ {r} : ~walks[o].tag
        /\ walks' = [walks EXCEPT ![r].visited = @ \cup {n},
                         ![r].done = IF kinds = {} THEN @ ELSE Append(@, n),
                         ![r].tag = @ \/ "add_tag" \in kinds,
                         ![r].agent = @ \/ "assign_agent" \in kinds,
                         ![r].queue = Tail(@) \o (IF kinds = {} THEN <<>> ELSE Follows(w, n))]
        /\ UNCHANGED <<flow, tagged, assigned, drawings, begun, ended, crossed>>

(* The count written is the one read with the flow.                         *)
Commit(r) ==
    LET w == walks[r] IN
        /\ w.on /\ w.queue = <<>>
        /\ flow # NoFlow /\ flow.born = w.born
        /\ flow' = [flow EXCEPT !.count = w.count + 1]
        /\ tagged' = (tagged \/ w.tag)
        /\ assigned' = (assigned \/ w.agent)
        /\ walks' = [walks EXCEPT ![r] = Free]
        /\ ended' = ended + 1
        /\ UNCHANGED <<drawings, begun, crossed>>

(* A tag the contact has already, a flow deleted meanwhile, or any other    *)
(* exception: nothing of the execution stays.                               *)
Abort(r) ==
    /\ walks[r].on
    /\ walks' = [walks EXCEPT ![r] = Free]
    /\ UNCHANGED <<flow, tagged, assigned, drawings, begun, ended, crossed>>

Next ==
    \/ \E d \in Drawings :
        \/ \E t \in {"keyword", "message_received", "webhook"} : CreateFlow(d, t)
        \/ \E a \in BOOLEAN : UpdateFlow(d, a)
    \/ ToggleFlow \/ DeleteFlow
    \/ \E r \in Runners :
        \/ \E keyword \in BOOLEAN : Begin(r, keyword)
        \/ Skip(r) \/ Visit(r) \/ Commit(r) \/ Abort(r)

Spec == Init /\ [][Next]_vars

-----------------------------------------------------------------------------
(* Properties *)

TypeOK ==
    /\ flow # NoFlow => flow.count \in Nat /\ flow.active \in BOOLEAN
    /\ \A r \in Walking : walks[r].visited \subseteq NodeIds /\ walks[r].done \in Seq(NodeIds)

There(w) == {w.nodes[k][1] : k \in DOMAIN w.nodes}

(* A set of nodes that no edge between nodes leaves.                        *)
Closed(w, S) ==
    \A k \in DOMAIN w.edges : w.edges[k][1] \in S /\ w.edges[k][2] \in There(w) => w.edges[k][2] \in S

(* The nodes of a drawing that can be reached from its first one.           *)
Reachable(w) ==
    {n \in There(w) : \A S \in SUBSET There(w) : w.nodes[1][1] \in S /\ Closed(w, S) => n \in S}

(* An execution that comes to its end has run every node that can be        *)
(* reached from the first one, and none of them twice, in graphs with       *)
(* cycles, joins and edges to nodes that were removed.                      *)
WalkComplete ==
    \A r \in Walking :
        /\ \A i, j \in DOMAIN walks[r].done : walks[r].done[i] = walks[r].done[j] => i = j
        /\ walks[r].queue = <<>> => ToSet(walks[r].done) = Reachable(walks[r])

(* The execution count never exceeds the executions that committed, and     *)
(* while no two overlapped it is exact, whatever staff edited beside them.  *)
CountHonest == flow # NoFlow => flow.count <= ended /\ (crossed \/ flow.count = ended)

FlowsSound == WalkComplete /\ CountHonest
=============================================================================
