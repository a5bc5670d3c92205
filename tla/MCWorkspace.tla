---------------------------- MODULE MCWorkspace ----------------------------
(* Instance of Workspace for TLC: two requests, tasks or executions at a    *)
(* time over a few rows of each table.                                      *)
EXTENDS Workspace, TLC

CONSTANTS x1, x2, y1, y2     \* what the parts may permute: see Swaps

CsvFiles == {<<"a", "b", "a">>, <<"b", Null, "long", "a">>, <<"a", "b">>}

Priorities == <<"first", "second">>
Cond(op, x, y) == [op |-> op, actual |-> x, expected |-> y]
Automations ==
    {[conds |-> <<>>, acts |-> <<"update_lead_score", "malformed", "auto_reply">>],
     [conds |-> <<Cond("contains", "12", "1"), Cond("gt", "word", "1")>>,
      acts |-> <<"auto_reply">>],
     [conds |-> <<Cond("lt", "1", "2"), Cond("not_equals", "none", "1")>>,
      acts |-> <<"add_tag", "webhook", "update_lead_score">>]}

Q == INSTANCE SequencesExt
Nodes == <<<<"welcome", "send_message">>, <<"label", "add_tag">>, <<"human", "assign_agent">>>>
Arrows ==
    {<<"welcome", "label">>, <<"welcome", "human">>, <<"label", "welcome">>,
     <<"human", "label">>, <<"human", "erased">>}
Flows ==
    {[nodes |-> Nodes, edges |-> Q!SetToSeq(es)] : es \in SUBSET Arrows}
        \cup {[nodes |-> <<>>, edges |-> <<>>]}

NamesOfNodes == {"welcome", "label", "human", "erased"}

Swaps ==
    Permutations(Workers) \cup Permutations({x1, x2}) \cup Permutations({y1, y2})
=============================================================================
