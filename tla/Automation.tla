----------------------------- MODULE Automation -----------------------------
(***************************************************************************)
(* The automations of a company and the task that runs them for an event    *)
(* about one contact.  A task is one transaction over all automations; what *)
(* an action writes is flushed with the next statement or with the log, a   *)
(* failing action is caught only if the session survives it, and a failed   *)
(* task is retried once.  A lost worker's task is delivered again.          *)
(***************************************************************************)
EXTENDS Integers, FiniteSets, Sequences, SequencesExt

CONSTANTS
    Order,      \* automations by descending priority, as a sequence
    Configs,    \* what automations can be: [conds, acts]
    Events,     \* message.received tasks
    Workers,
    MaxEdits,   \* bound: requests of the automation page
    MaxLost     \* bound: workers lost

Autos == {Order[k] : k \in DOMAIN Order}

VARIABLES
    visible,   \* whether the policies show the task any row: see TenantContext
    autos,     \* tables automations and automation_actions
    logs,      \* table automation_logs, oldest first; gone: deleted since
    contact,   \* what actions change: [score, tagged, replies]
    tagExists,
    queue,     \* the deliveries of each event: tries left, or "none"
    work,      \* the task each worker runs
    edits,
    lost       \* workers lost while they ran each event

vars == <<visible, autos, logs, contact, tagExists, queue, work, edits, lost>>

ActionTypes == {"add_tag", "update_lead_score", "auto_reply", "malformed", "webhook"}
Absent == [conds |-> <<>>, acts |-> <<>>, active |-> FALSE, count |-> -1]
Gone == [Absent EXCEPT !.count = -2]
Exists(a) == autos[a].count >= 0

Idle == [at |-> "idle"]
Nothing == [score |-> 0, tagged |-> FALSE, replies |-> 0]

Init ==
    /\ visible \in BOOLEAN
    /\ autos = [a \in Autos |-> Absent]
    /\ logs = <<>>
    /\ contact = Nothing
    /\ tagExists = TRUE
    /\ queue = [e \in Events |-> "new"]
    /\ work = [w \in Workers |-> Idle]
    /\ edits = 0
    /\ lost = [e \in Events |-> 0]

-----------------------------------------------------------------------------
(* Conditions *)

Number == [v \in {"1", "2", "12"} |-> CASE v = "1" -> 1 [] v = "2" -> 2 [] OTHER -> 12]
Within == {<<"1", "12">>, <<"2", "12">>}

Truth(b) == IF b THEN "true" ELSE "false"

(* _evaluate_condition: float() of what is not a number raises.             *)
Evaluate(c) ==
    CASE c.actual = "none" /\ c.op # "not_equals" -> "false"
      [] c.op \in {"equals", "in"} -> Truth(c.actual = c.expected)
      [] c.op = "not_equals" -> Truth(c.actual # c.expected)
      [] c.op = "contains" -> Truth(c.actual = c.expected \/ <<c.expected, c.actual>> \in Within)
      [] c.op \in {"gt", "lt"} ->
            IF {c.actual, c.expected} \subseteq DOMAIN Number
            THEN Truth(IF c.op = "gt" THEN Number[c.actual] > Number[c.expected]
                                      ELSE Number[c.actual] < Number[c.expected])
            ELSE "raises"
      [] OTHER -> "false"

(* _check_conditions stops at the first condition that is not met.          *)
Verdict(conds) ==
    LET unmet == {k \in DOMAIN conds : Evaluate(conds[k]) # "true"}
    IN  IF unmet = {} THEN "true"
        ELSE Evaluate(conds[CHOOSE k \in unmet : \A j \in unmet : k <= j])

-----------------------------------------------------------------------------
(* The automation page *)

(* Rows a task has written and not committed: a second writer waits.        *)
Logged(w) == IF work[w].at = "idle" THEN {} ELSE {l.auto : l \in ToSet(work[w].logs)}
Locked(a, w) == \E v \in Workers \ {w} : a \in Logged(v)

Edit(a) ==
    /\ edits < MaxEdits /\ edits' = edits + 1
    /\ \A w \in Workers : a \notin Logged(w)
    /\ UNCHANGED <<visible, contact, tagExists, queue, work, lost>>

CreateAutomation(a, c) ==
    /\ autos[a] = Absent
    /\ autos' = [autos EXCEPT ![a] = [conds |-> c.conds, acts |-> c.acts, active |-> TRUE, count |-> 0]]
    /\ UNCHANGED logs
    /\ Edit(a)

(* update_automation replaces the actions and the conditions.               *)
UpdateAutomation(a, c) ==
    /\ Exists(a)
    /\ autos' = [autos EXCEPT ![a].conds = c.conds, ![a].acts = c.acts]
    /\ UNCHANGED logs
    /\ Edit(a)

ToggleAutomation(a) ==
    /\ Exists(a)
    /\ autos' = [autos EXCEPT ![a].active = ~@]
    /\ UNCHANGED logs
    /\ Edit(a)

(* delete_automation: its logs go with it.                                  *)
DeleteAutomation(a) ==
    /\ Exists(a)
    /\ autos' = [autos EXCEPT ![a] = Gone]
    /\ logs' = [i \in DOMAIN logs |-> IF logs[i].auto = a THEN [logs[i] EXCEPT !.gone = TRUE]
                                      ELSE logs[i]]
    /\ Edit(a)

(* TagService.delete_tag.                                                   *)
DeleteTag ==
    /\ tagExists
    /\ tagExists' = FALSE
    /\ contact' = [contact EXCEPT !.tagged = FALSE]
    /\ UNCHANGED <<visible, autos, logs, queue, work, edits, lost>>

-----------------------------------------------------------------------------
(* The task *)

Other == <<visible, tagExists, edits>>
Step(w, r) == work' = [work EXCEPT ![w] = r]

(* The webhook's delay(), once per message.                                 *)
Publish(e) ==
    /\ queue[e] = "new"
    /\ queue' = [queue EXCEPT ![e] = "first"]
    /\ UNCHANGED <<autos, logs, contact, work, lost, Other>>

(* An automation as it was loaded; those that were not active are not.      *)
Snapshot(a) == [auto |-> a, row |-> IF autos[a].active THEN autos[a] ELSE Absent]

(* evaluate_event loads the active automations with their actions.          *)
Load(w, e) ==
    /\ work[w] = Idle
    /\ queue[e] \in {"first", "retry"}
    /\ \A v \in Workers : work[v] # Idle => work[v].event # e
    /\ Step(w, [at |-> "next", event |-> e, mine |-> Nothing, unsent |-> FALSE, logs |-> <<>>,
                k |-> 0, j |-> 0,
                plan |-> IF visible THEN [k \in DOMAIN Order |-> Snapshot(Order[k])] ELSE <<>>])
    /\ UNCHANGED <<autos, logs, contact, queue, lost, Other>>

Current(w) == work[w].plan[work[w].k]

(* The next automation whose conditions are met starts; a condition that    *)
(* raises is outside every try and fails the task.                          *)
NextAutomation(w) ==
    LET r == work[w] IN
        /\ r.at = "next"
        /\ \E n \in r.k + 1..Len(r.plan) :
              /\ r.plan[n].row.active /\ \A i \in r.k + 1..n - 1 : ~r.plan[i].row.active
              /\ LET v == Verdict(r.plan[n].row.conds) IN
                    /\ v # "raises"
                    /\ Step(w, [r EXCEPT !.k = n, !.j = 0, !.at = IF v = "true" THEN "act" ELSE "next"])
        /\ UNCHANGED <<autos, logs, contact, queue, lost, Other>>

(* Statements send what the session holds: an unsent link fails if the tag  *)
(* is gone or somebody else has linked it.                                  *)
Sends(w) == work[w].unsent => tagExists /\ ~contact.tagged
Writer(w) == \A v \in Workers \ {w} : work[v] # Idle => work[v].mine.score = 0

(* One action.  add_tag only adds to the session, update_lead_score         *)
(* increments in the database, auto_reply stores a message nobody sends; a  *)
(* type the schema allows and the engine does not know counts as executed.  *)
Act(w) ==
    LET r == work[w]
        act == Current(w).row.acts[r.j + 1]
        done == [r EXCEPT !.j = @ + 1]
    IN  /\ r.at = "act"
        /\ r.j < Len(Current(w).row.acts)
        /\ act # "malformed"
        /\ act # "webhook" => Sends(w)
        /\ \/ act = "webhook" /\ Step(w, done)
           \/ /\ act = "add_tag"
              /\ Step(w, [done EXCEPT !.mine.tagged = TRUE,
                                      !.unsent = ~contact.tagged /\ ~r.mine.tagged])
           \/ /\ act = "update_lead_score" /\ Writer(w)
              /\ Step(w, [done EXCEPT !.mine.score = @ + 1, !.unsent = FALSE])
           \/ /\ act = "auto_reply"
              /\ Step(w, [done EXCEPT !.mine.replies = @ + 1, !.unsent = FALSE])
        /\ UNCHANGED <<autos, logs, contact, queue, lost, Other>>

(* The entry a run leaves; acts is a history field.                         *)
LogEntry(w) ==
    [auto |-> Current(w).auto, event |-> work[w].event, executed |-> work[w].j,
     acts |-> Current(w).row.acts, gone |-> FALSE]

(* All actions are done, or one raised without a statement having failed:   *)
(* the log is flushed, with execution_count as it was loaded plus one.      *)
WriteLog(w) ==
    LET r == work[w] IN
        /\ r.at = "act"
        /\ r.j \in {k \in 0..Len(Current(w).row.acts) :
                       k < Len(Current(w).row.acts) => Current(w).row.acts[k + 1] = "malformed"}
        /\ Sends(w)
        /\ Exists(Current(w).auto) /\ ~Locked(Current(w).auto, w)
        /\ Step(w, [r EXCEPT !.logs = Append(@, LogEntry(w)), !.unsent = FALSE, !.at = "next"])
        /\ UNCHANGED <<autos, logs, contact, queue, lost, Other>>

Counted(a, r) == IF \E l \in ToSet(r.logs) : l.auto = a
                 THEN r.plan[CHOOSE n \in DOMAIN r.plan : r.plan[n].auto = a].row.count + 1
                 ELSE autos[a].count

(* The one commit of the task; the message is acknowledged after it.        *)
Commit(w) ==
    LET r == work[w] IN
        /\ r.at = "next" /\ \A i \in r.k + 1..Len(r.plan) : ~r.plan[i].row.active
        /\ autos' = [a \in Autos |-> IF Exists(a) THEN [autos[a] EXCEPT !.count = Counted(a, r)]
                                     ELSE autos[a]]
        /\ logs' = logs \o r.logs
        /\ contact' = [score |-> contact.score + r.mine.score,
                       tagged |-> contact.tagged \/ (r.mine.tagged /\ tagExists),
                       replies |-> contact.replies + r.mine.replies]
        /\ Step(w, [at |-> "committed", event |-> r.event, mine |-> Nothing, logs |-> <<>>])
        /\ UNCHANGED <<queue, lost, Other>>

Acknowledge(w) ==
    /\ work[w].at = "committed"
    /\ queue' = [queue EXCEPT ![work[w].event] = "done"]
    /\ Step(w, Idle)
    /\ UNCHANGED <<autos, logs, contact, lost, Other>>

(* The increments of the lead score that logs tell of.                      *)
Scores(ls) == UNION {{i} \X {k \in 1..ls[i].executed : ls[i].acts[k] = "update_lead_score"} : i \in DOMAIN ls}

(* Mutant: the session commits what it has when the task fails.             *)
FailKeepsWork(w) ==
    LET r == work[w] IN
        /\ r.at \in {"next", "act"}
        /\ logs' = logs \o r.logs
        /\ contact' = [contact EXCEPT !.score = @ + Cardinality(Scores(r.logs))]
        /\ queue' = [queue EXCEPT ![r.event] = IF @ = "first" THEN "retry" ELSE "done"]
        /\ Step(w, Idle)
        /\ UNCHANGED <<autos, lost, Other>>

(* An exception rolls all of it back; the task is retried once.             *)
Fail(w) ==
    /\ work[w].at \in {"next", "act"}
    /\ queue' = [queue EXCEPT ![work[w].event] = IF @ = "first" THEN "retry" ELSE "done"]
    /\ Step(w, Idle)
    /\ UNCHANGED <<autos, logs, contact, lost, Other>>

(* The worker is lost, before or after its commit; the broker keeps the     *)
(* message, which was not acknowledged.                                     *)
Lose(w) ==
    /\ work[w] # Idle
    /\ FoldFunction(+, 0, lost) < MaxLost
    /\ lost' = [lost EXCEPT ![work[w].event] = @ + 1]
    /\ Step(w, Idle)
    /\ UNCHANGED <<autos, logs, contact, queue, Other>>

Next ==
    \/ \E a \in Autos :
        \/ ToggleAutomation(a) \/ DeleteAutomation(a)
        \/ \E c \in Configs : CreateAutomation(a, c) \/ UpdateAutomation(a, c)
    \/ DeleteTag
    \/ \E e \in Events : Publish(e)
    \/ \E w \in Workers :
        \/ \E e \in Events : Load(w, e)
        \/ NextAutomation(w) \/ Act(w) \/ WriteLog(w) \/ Commit(w)
        \/ Acknowledge(w) \/ Fail(w) \/ Lose(w)

Spec == Init /\ [][Next]_vars

-----------------------------------------------------------------------------
(* Properties *)

TypeOK ==
    /\ autos \in [Autos -> [conds : {c.conds : c \in Configs}, acts : {c.acts : c \in Configs},
                            active : BOOLEAN, count : Nat] \cup {Absent, Gone}]
    /\ contact \in [score : Nat, tagged : BOOLEAN, replies : Nat]
    /\ contact.tagged => tagExists

(* The log is to be trusted: the lead score is what the logged runs say     *)
(* their actions gave, whatever failed, was retried, lost or deleted since, *)
(* and an automation never claims more executions than it has log entries.  *)
LogsTrue ==
    /\ contact.score = Cardinality(Scores(logs))
    /\ \A a \in Autos :
          autos[a].count <= Cardinality({i \in DOMAIN logs : logs[i].auto = a /\ ~logs[i].gone})

(* A retry repeats nothing: an automation runs twice for one event only if  *)
(* a worker was lost with it.                                               *)
RetriesRepeatNothing ==
    \A a \in Autos, e \in Events :
        Cardinality({i \in DOMAIN logs : logs[i].auto = a /\ logs[i].event = e}) <= 1 + lost[e]
=============================================================================
