------------------------------- MODULE Deals -------------------------------
(***************************************************************************)
(* Pipelines, their stages, and the deals that move through them, each with *)
(* its timeline of activities.  An update reads the deal, logs what the     *)
(* request changes of it, and writes at the end; the columns written are    *)
(* those that differ from what was read.  Titles, positions, contacts and   *)
(* the audit log are left out.                                              *)
(***************************************************************************)
EXTENDS Naturals, FiniteSets, Sequences, SequencesExt

CONSTANTS
    Pipelines,
    Stages,      \* keys of pipeline_stages
    NoStage, NoPipeline,
    DealIds,
    Values,
    Handlers,
    MaxEdits     \* bound: requests

VARIABLES
    pipelines,   \* table pipelines
    stages,      \* table pipeline_stages: the pipeline of each
    deals,       \* table deals
    timeline,    \* table deal_activities, without the notes
    edit,        \* the updates between their SELECT and their commit
    edits

vars == <<pipelines, stages, deals, timeline, edit, edits>>

Statuses == {"open", "won", "lost"}

Deal == [pipeline : Pipelines, stage : Stages \cup {NoStage}, status : Statuses,
         value : Values, closed : BOOLEAN, deleted : BOOLEAN]
NoDeal == [pipeline |-> NoPipeline]

Activity == [field : {"stage", "status", "value"}, new : Stages \cup {NoStage} \cup Statuses \cup Values]

NoEdit == [on |-> "none"]

Init ==
    /\ pipelines = {}
    /\ stages = [s \in Stages |-> NoPipeline]
    /\ deals = [d \in DealIds |-> NoDeal]
    /\ timeline = [d \in DealIds |-> <<>>]
    /\ edit = [h \in Handlers |-> NoEdit]
    /\ edits = 0

Exists(d) == deals[d] # NoDeal
(* _get_deal_or_404.                                                        *)
Found(d) == Exists(d) /\ ~deals[d].deleted

StagesOf(p) == {s \in Stages : stages[s] = p}
StageRows == {s \in Stages : stages[s] # NoPipeline}

(* A request, through any of the endpoints.                                *)
Ask == edits < MaxEdits /\ edits' = edits + 1

-----------------------------------------------------------------------------
(* Pipelines and stages *)

(* create_pipeline, with its first stage.                                   *)
CreatePipeline(p, s) ==
    /\ Ask
    /\ p \notin pipelines /\ s \notin StageRows
    /\ pipelines' = pipelines \cup {p}
    /\ stages' = [stages EXCEPT ![s] = p]
    /\ UNCHANGED <<deals, timeline, edit>>

AddStage(p, s) ==
    /\ Ask
    /\ p \in pipelines /\ s \notin StageRows
    /\ stages' = [stages EXCEPT ![s] = p]
    /\ UNCHANGED <<pipelines, deals, timeline, edit>>

(* Mutant: the key leaves the deals in the stage that is gone.              *)
UnstagedNever(gone) == deals

(* The deals of a stage that goes are in none: ON DELETE SET NULL.          *)
Unstaged(gone) ==
    [d \in DealIds |-> IF Exists(d) /\ deals[d].stage \in gone THEN [deals[d] EXCEPT !.stage = NoStage]
                       ELSE deals[d]]

DeleteStage(s) ==
    /\ Ask
    /\ s \in StageRows
    /\ stages' = [stages EXCEPT ![s] = NoPipeline]
    /\ deals' = Unstaged({s})
    /\ UNCHANGED <<pipelines, timeline, edit>>

(* delete_pipeline: its stages and its deals go with it, deals of another   *)
(* pipeline that are in one of its stages are in none.                      *)
DeletePipeline(p) ==
    /\ Ask
    /\ p \in pipelines
    /\ pipelines' = pipelines \ {p}
    /\ stages' = [s \in Stages |-> IF stages[s] = p THEN NoPipeline ELSE stages[s]]
    /\ deals' = [d \in DealIds |-> IF Exists(d) /\ deals[d].pipeline = p THEN NoDeal
                                   ELSE Unstaged(StagesOf(p))[d]]
    /\ timeline' = [d \in DealIds |-> IF deals'[d] = NoDeal THEN <<>> ELSE timeline[d]]
    /\ UNCHANGED edit

-----------------------------------------------------------------------------
(* Deals *)

(* create_deal: any stage there is, of whatever pipeline, or if none is     *)
(* named the first of the pipeline, if it has one.                          *)
CreateDeal(d, p, s, v) ==
    /\ Ask
    /\ ~Exists(d)
    /\ p \in pipelines
    /\ s \in StageRows \cup (IF StagesOf(p) = {} THEN {NoStage} ELSE {})
    /\ deals' = [deals EXCEPT ![d] = [pipeline |-> p, stage |-> s, status |-> "open", value |-> v,
                                      closed |-> FALSE, deleted |-> FALSE]]
    /\ timeline' = [timeline EXCEPT ![d] = <<[field |-> "stage", new |-> s],
                                            [field |-> "value", new |-> v]>>]
    /\ UNCHANGED <<pipelines, stages, edit>>

(* update_deal and move_deal: the activities are those of the fields whose  *)
(* new value is not the one read.                                           *)
UpdateCheck(h, d, change) ==
    /\ Ask
    /\ edit[h] = NoEdit
    /\ Found(d)
    /\ edit' = [edit EXCEPT ![h] =
                   [on |-> d, change |-> change,
                    changed |-> {f \in DOMAIN change : change[f] # deals[d][f]}]]
    /\ UNCHANGED <<pipelines, stages, deals, timeline>>

(* Mutant: an UPDATE statement with every field of the request.             *)
WrittenAll(e) == DOMAIN e.change

(* The session writes the attributes that changed.                          *)
Written(e) == e.changed

(* At the flush; the answer reads the deal again and a deletion committed   *)
(* meanwhile is a 404 that undoes it.                                       *)
UpdateCommit(h) ==
    LET e == edit[h]
        row == deals[e.on]
        new == [f \in DOMAIN row |->
                   IF f \in Written(e) THEN e.change[f]
                   ELSE IF f = "closed" /\ "status" \in e.changed /\ e.change.status \in {"won", "lost"}
                        THEN TRUE ELSE row[f]]
    IN  /\ e # NoEdit
        /\ Found(e.on)
        /\ "stage" \in e.changed => e.change.stage \in StageRows \cup {NoStage}
        /\ deals' = [deals EXCEPT ![e.on] = new]
        /\ timeline' = [timeline EXCEPT ![e.on] =
                           @ \o SetToSeq({[field |-> f, new |-> e.change[f]] : f \in e.changed})]
        /\ edit' = [edit EXCEPT ![h] = NoEdit]
        /\ UNCHANGED <<pipelines, stages, edits>>

Abort(h) ==
    /\ edit[h] # NoEdit
    /\ edit' = [edit EXCEPT ![h] = NoEdit]
    /\ UNCHANGED <<pipelines, stages, deals, timeline, edits>>

(* delete_deal only stamps the row.                                         *)
DeleteDeal(d) ==
    /\ Ask
    /\ Found(d)
    /\ deals' = [deals EXCEPT ![d].deleted = TRUE]
    /\ UNCHANGED <<pipelines, stages, timeline, edit>>

(* What a request may change, one or two fields of it.                      *)
Changes == [{"status"} -> Statuses] \cup [{"stage"} -> Stages \cup {NoStage}]
               \cup [{"value"} -> Values]
               \cup {[status |-> s, value |-> v] : s \in Statuses, v \in Values}

Next ==
    \/ \E p \in Pipelines, s \in Stages : CreatePipeline(p, s) \/ AddStage(p, s)
    \/ \E p \in Pipelines : DeletePipeline(p)
    \/ \E s \in Stages : DeleteStage(s)
    \/ \E d \in DealIds : \/ DeleteDeal(d)
                          \/ \E p \in Pipelines, s \in Stages \cup {NoStage}, v \in Values : CreateDeal(d, p, s, v)
                          \/ \E h \in Handlers, c \in Changes : UpdateCheck(h, d, c)
    \/ \E h \in Handlers : UpdateCommit(h) \/ Abort(h)

Spec == Init /\ [][Next]_vars

-----------------------------------------------------------------------------
(* Properties *)

TypeOK ==
    /\ deals \in [DealIds -> Deal \cup {NoDeal}]
    /\ timeline \in [DealIds -> Seq(Activity)]
    /\ \A d \in DealIds : Exists(d) => /\ deals[d].pipeline \in pipelines
                                       /\ deals[d].stage \in StageRows \cup {NoStage}

NoneLater(s, k) == \A j \in DOMAIN s : j > k => s[j].field # s[k].field

(* The last word of the timeline on a field is what the deal says, though   *)
(* updates overlap and each logs against what it has read; only a stage may *)
(* have been deleted since.  A deal won or lost has its closing date.       *)
TimelineTells ==
    \A d \in DealIds : Exists(d) =>
        /\ deals[d].status \in {"won", "lost"} => deals[d].closed
        /\ \A k \in DOMAIN timeline[d] : NoneLater(timeline[d], k) =>
              LET said == timeline[d][k] IN
                  \/ deals[d][said.field] = said.new
                  \/ said.field = "stage" /\ deals[d].stage = NoStage
=============================================================================
