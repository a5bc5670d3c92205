------------------------------ MODULE Campaign ------------------------------
(***************************************************************************)
(* One broadcast campaign: the API handlers that send, pause and delete it, *)
(* the execute_campaign task that walks its recipients in chunks, and the   *)
(* send tasks it dispatches.                                                *)
(*                                                                          *)
(* Every handler reads the campaign, decides, and writes it in a later      *)
(* step.  An UPDATE waits for the row lock of a transaction that has        *)
(* already flushed (READ COMMITTED); what it read before may be stale.      *)
(* The execute_campaign task of send request r is exec[r]; acks_late puts   *)
(* it back in the queue when its worker is lost.                            *)
(***************************************************************************)
EXTENDS Naturals, FiniteSets, FiniteSetsExt

CONSTANTS
    Contacts,     \* the contacts that opted in
    SendReqs,     \* POST /campaigns/{id}/send requests
    PauseReqs,    \* POST /campaigns/{id}/pause requests
    DeleteReqs,   \* DELETE /campaigns/{id} requests
    ChunkSize,    \* chunk_size of execute_campaign
    MaxLost       \* bound: lost workers per task

ASSUME ChunkIsPositive == ChunkSize \in Nat \ {0}
ASSUME LostIsNat == MaxLost \in Nat
ASSUME ContactsFinite == IsFiniteSet(Contacts)
ASSUME SendsFinite == IsFiniteSet(SendReqs)
ASSUME RequestsDisjoint ==
    /\ SendReqs \cap PauseReqs = {}
    /\ SendReqs \cap DeleteReqs = {}
    /\ PauseReqs \cap DeleteReqs = {}

VARIABLES
    campaign,    \* the committed row of the campaign
    recs,        \* the committed campaign_recipients
    req,         \* where each API request stands
    audience,    \* the contacts a send request resolved
    exec,        \* the execute_campaign task of each send request
    lost,        \* lost workers per task
    inflight,    \* send tasks in the queue, per recipient
    dispatched,  \* history: send tasks dispatched, per recipient
    called,      \* history: Cloud API calls, per recipient
    late         \* history: send tasks dispatched since the pause

handlers == <<req, audience>>
sends == <<inflight, dispatched, called, late>>
vars == <<campaign, recs, req, audience, exec, lost, inflight, dispatched,
          called, late>>

Requests == SendReqs \cup PauseReqs \cup DeleteReqs
Rows == SendReqs \X Contacts
Statuses == {"draft", "sending", "sent", "paused", "failed", "deleted"}
RecStatuses == {"none", "pending", "sent", "failed"}
ExecStates == {"none", "queued", "failing", "chunking", "chunk", "stats",
               "acking", "raised", "finished"}
NoExec == [at |-> "none", left |-> {}, chunk |-> {}, ok |-> {}, bad |-> {},
           sent |-> 0, failed |-> 0, seen |-> "sending"]
Over == [NoExec EXCEPT !.at = "acking"]
Raised == [NoExec EXCEPT !.at = "raised"]

(* A send request that has flushed holds the lock of the campaign's row.    *)
Locked == \E r \in SendReqs : req[r] = "flushed"
Pending == {x \in Rows : recs[x] = "pending"}

(* execute_campaign passes message_id="" and _async_send parses a UUID.     *)
IsUuid(id) == id # ""
CampaignMessageId == ""

Init ==
    /\ campaign = [status |-> "draft", total |-> 0, sent |-> 0, failed |-> 0,
                   delivered |-> 0]
    /\ recs = [x \in Rows |-> "none"]
    /\ req = [r \in Requests |-> "idle"]
    /\ audience = [r \in SendReqs |-> {}]
    /\ exec = [r \in SendReqs |-> NoExec]
    /\ lost = [r \in SendReqs |-> 0]
    /\ inflight = [x \in Rows |-> 0]
    /\ dispatched = [x \in Rows |-> 0]
    /\ called = [x \in Rows |-> 0]
    /\ late = 0

-----------------------------------------------------------------------------
(* API handlers *)

(* send_campaign: the status is checked and the audience resolved; an empty *)
(* audience is refused.                                                     *)
SendCheck(r) ==
    /\ req[r] = "idle"
    /\ campaign.status = "draft"
    /\ \E c \in (SUBSET Contacts) \ {{}} : audience' = [audience EXCEPT ![r] = c]
    /\ req' = [req EXCEPT ![r] = "checked"]
    /\ UNCHANGED <<campaign, recs, exec, lost, sends>>

(* The flush inserts the recipients and locks the campaign's row; then the  *)
(* task is dispatched, while the transaction is still open.                 *)
SendFlush(r) ==
    /\ req[r] = "checked"
    /\ ~Locked
    /\ campaign.status # "deleted"
    /\ req' = [req EXCEPT ![r] = "flushed"]
    /\ exec' = [exec EXCEPT ![r].at = "queued"]
    /\ UNCHANGED <<campaign, recs, audience, lost, sends>>

(* db.commit() makes recipients and status visible.                         *)
SendCommit(r) ==
    /\ req[r] = "flushed"
    /\ req' = [req EXCEPT ![r] = "done"]
    /\ campaign' = [campaign EXCEPT !.status = "sending",
                                    !.total = Cardinality(audience[r])]
    /\ recs' = [x \in Rows |-> IF x[1] = r /\ x[2] \in audience[r]
                               THEN "pending" ELSE recs[x]]
    /\ UNCHANGED <<audience, exec, lost, sends>>

(* The row is gone, or the handler dies: nothing of the request remains,    *)
(* except a task it has dispatched.                                         *)
SendAbort(r) ==
    /\ req[r] \in {"checked", "flushed"}
    /\ req' = [req EXCEPT ![r] = "aborted"]
    /\ UNCHANGED <<campaign, recs, audience, exec, lost, sends>>

(* pause_campaign: only a sending campaign can be paused ...                *)
PauseCheck(p) ==
    /\ req[p] = "idle"
    /\ campaign.status = "sending"
    /\ req' = [req EXCEPT ![p] = "checked"]
    /\ UNCHANGED <<campaign, recs, audience, exec, lost, sends>>

(* Mutant: the pause writes a status the other handlers do not know.        *)
PauseCommitCancels(p) ==
    /\ req[p] = "checked"
    /\ ~Locked
    /\ campaign.status # "deleted"
    /\ req' = [req EXCEPT ![p] = "done"]
    /\ campaign' = [campaign EXCEPT !.status = "cancelled"]
    /\ late' = 0
    /\ UNCHANGED <<recs, audience, exec, lost, inflight, dispatched, called>>

(* ... and the pause is written whatever the status has become.             *)
PauseCommit(p) ==
    /\ req[p] = "checked"
    /\ ~Locked
    /\ campaign.status # "deleted"
    /\ req' = [req EXCEPT ![p] = "done"]
    /\ campaign' = [campaign EXCEPT !.status = "paused"]
    /\ late' = 0
    /\ UNCHANGED <<recs, audience, exec, lost, inflight, dispatched, called>>

(* delete_campaign: anything but a sending campaign can be deleted ...      *)
DeleteCheck(d) ==
    /\ req[d] = "idle"
    /\ campaign.status \notin {"sending", "deleted"}
    /\ req' = [req EXCEPT ![d] = "checked"]
    /\ UNCHANGED <<campaign, recs, audience, exec, lost, sends>>

(* ... and its recipients go with it, once no chunk holds the lock of one:  *)
(* the SELECT of a recipient flushes the update of the one before it.       *)
DeleteCommit(d) ==
    /\ req[d] = "checked"
    /\ ~Locked
    /\ \A r \in SendReqs : Cardinality(exec[r].ok \cup exec[r].bad) <= 1
    /\ req' = [req EXCEPT ![d] = "done"]
    /\ campaign' = [campaign EXCEPT !.status = "deleted"]
    /\ recs' = [x \in Rows |-> "none"]
    /\ UNCHANGED <<audience, exec, lost, sends>>

-----------------------------------------------------------------------------
(* The task execute_campaign *)

(* Mutant: every recipient is loaded, not only the pending ones.            *)
ExecLoadAll(r) ==
    /\ exec[r].at = "queued"
    /\ \E has \in BOOLEAN :
         exec' = [exec EXCEPT ![r] =
           IF campaign.status # "sending" THEN Over
           ELSE IF ~has THEN [NoExec EXCEPT !.at = "failing"]
           ELSE IF Pending = {} THEN Over
           ELSE [NoExec EXCEPT !.at = "chunking", !.left = {x \in Rows : recs[x] # "none"}]]
    /\ UNCHANGED <<campaign, recs, handlers, lost, sends>>

(* It skips a campaign it does not see as sending, and returns at once when *)
(* nothing is pending; has is whether the company has a phone number.       *)
ExecLoad(r) ==
    /\ exec[r].at = "queued"
    /\ \E has \in BOOLEAN :
         exec' = [exec EXCEPT ![r] =
           IF campaign.status # "sending" THEN Over
           ELSE IF ~has THEN [NoExec EXCEPT !.at = "failing"]
           ELSE IF Pending = {} THEN Over
           ELSE [NoExec EXCEPT !.at = "chunking", !.left = Pending]]
    /\ UNCHANGED <<campaign, recs, handlers, lost, sends>>

(* Without a phone number the campaign fails, in the same transaction.      *)
ExecFail(r) ==
    /\ exec[r].at = "failing"
    /\ ~Locked
    /\ exec' = [exec EXCEPT ![r] = Over]
    /\ campaign' = [campaign EXCEPT !.status = IF @ = "deleted" THEN @ ELSE "failed"]
    /\ UNCHANGED <<recs, handlers, lost, sends>>

(* Before each chunk the status is read again; on a deleted campaign that   *)
(* raises and the task is over.                                             *)
ExecCheck(r) ==
    /\ exec[r].at = "chunking"
    /\ exec[r].left # {}
    /\ IF campaign.status = "sending"
       THEN \E c \in kSubset(Min({ChunkSize, Cardinality(exec[r].left)}), exec[r].left) :
              exec' = [exec EXCEPT ![r].at = "chunk", ![r].chunk = c,
                                   ![r].left = @ \ c]
       ELSE exec' = [exec EXCEPT ![r] =
              IF campaign.status = "deleted" THEN Raised
              ELSE [@ EXCEPT !.at = "stats", !.left = {}, !.seen = campaign.status]]
    /\ UNCHANGED <<campaign, recs, handlers, lost, sends>>

(* One recipient of the chunk: its send task is dispatched, whatever the    *)
(* recipient's status is by now ...                                         *)
ExecDispatch(r, x) ==
    /\ exec[r].at = "chunk"
    /\ x \in exec[r].chunk
    /\ recs[x] # "none"
    /\ exec' = [exec EXCEPT ![r].chunk = @ \ {x}, ![r].ok = @ \cup {x},
                            ![r].sent = @ + 1]
    /\ inflight' = [inflight EXCEPT ![x] = @ + 1]
    /\ dispatched' = [dispatched EXCEPT ![x] = @ + 1]
    /\ late' = IF campaign.status = "paused" THEN late + 1 ELSE late
    /\ UNCHANGED <<campaign, recs, handlers, lost, called>>

(* ... or the dispatch raises and the recipient is marked failed ...        *)
ExecDispatchFails(r, x) ==
    /\ exec[r].at = "chunk"
    /\ x \in exec[r].chunk
    /\ recs[x] # "none"
    /\ exec' = [exec EXCEPT ![r].chunk = @ \ {x}, ![r].bad = @ \cup {x},
                            ![r].failed = @ + 1]
    /\ UNCHANGED <<campaign, recs, handlers, lost, sends>>

(* ... or the recipient is gone with its campaign.                          *)
ExecSkip(r, x) ==
    /\ exec[r].at = "chunk"
    /\ x \in exec[r].chunk
    /\ recs[x] = "none"
    /\ exec' = [exec EXCEPT ![r].chunk = @ \ {x}]
    /\ UNCHANGED <<campaign, recs, handlers, lost, sends>>

(* The transaction of the chunk commits; it fails, here or at the flush     *)
(* before, when a recipient it wants to update is gone.                     *)
ExecCommitChunk(r) ==
    /\ exec[r].at = "chunk"
    /\ exec[r].chunk = {}
    /\ IF \E x \in exec[r].ok \cup exec[r].bad : recs[x] = "none"
       THEN /\ exec' = [exec EXCEPT ![r] = Raised]
            /\ UNCHANGED recs
       ELSE /\ exec' = [exec EXCEPT ![r].at = IF exec[r].left = {} THEN "stats"
                                              ELSE "chunking",
                                    ![r].ok = {}, ![r].bad = {}]
            /\ recs' = [x \in Rows |-> CASE x \in exec[r].ok -> "sent"
                                         [] x \in exec[r].bad -> "failed"
                                         [] OTHER -> recs[x]]
    /\ UNCHANGED <<campaign, handlers, lost, sends>>

(* Mutant: the campaign is marked sent even when a pause was seen.          *)
ExecStatsAlwaysSent(r) ==
    /\ exec[r].at = "stats"
    /\ ~Locked
    /\ exec' = [exec EXCEPT ![r] = Over]
    /\ campaign' =
         IF campaign.status = "deleted" THEN campaign
         ELSE [campaign EXCEPT !.sent = exec[r].sent, !.failed = exec[r].failed,
                               !.delivered = exec[r].sent, !.status = "sent"]
    /\ UNCHANGED <<recs, handlers, lost, sends>>

(* Mutant: only the counts are written.                                     *)
ExecStatsCountsOnly(r) ==
    /\ exec[r].at = "stats"
    /\ ~Locked
    /\ exec' = [exec EXCEPT ![r] = Over]
    /\ campaign' =
         IF campaign.status = "deleted" THEN campaign
         ELSE [campaign EXCEPT !.sent = exec[r].sent, !.failed = exec[r].failed,
                               !.delivered = exec[r].sent]
    /\ UNCHANGED <<recs, handlers, lost, sends>>

(* Final stats: the counts of this run, and "sent" unless a pause was seen. *)
ExecStats(r) ==
    /\ exec[r].at = "stats"
    /\ ~Locked
    /\ exec' = [exec EXCEPT ![r] = Over]
    /\ campaign' =
         IF campaign.status = "deleted" THEN campaign
         ELSE [campaign EXCEPT !.sent = exec[r].sent, !.failed = exec[r].failed,
                               !.delivered = exec[r].sent,
                               !.status = IF exec[r].seen = "sending" THEN "sent" ELSE @]
    /\ UNCHANGED <<recs, handlers, lost, sends>>

(* Any of the task's transactions raises, or the connection is lost after   *)
(* its commit: max_retries is 0, so the task is over.  What the open        *)
(* transaction wrote rolls back, the send tasks it dispatched stay, and     *)
(* nothing moves the campaign on.                                           *)
ExecRaises(r) ==
    /\ exec[r].at \in {"queued", "failing", "chunking", "chunk", "stats"}
    /\ exec' = [exec EXCEPT ![r] = Raised]
    /\ UNCHANGED <<campaign, recs, handlers, lost, sends>>

ExecAck(r) ==
    /\ exec[r].at \in {"acking", "raised"}
    /\ exec' = [exec EXCEPT ![r].at = "finished"]
    /\ UNCHANGED <<campaign, recs, handlers, lost, sends>>

(* A lost worker: the open transaction rolls back, the dispatched send      *)
(* tasks stay, and the task is delivered again from the start.              *)
ExecLost(r) ==
    /\ exec[r].at \notin {"none", "queued", "finished"}
    /\ lost[r] < MaxLost
    /\ lost' = [lost EXCEPT ![r] = @ + 1]
    /\ exec' = [exec EXCEPT ![r] = [NoExec EXCEPT !.at = "queued"]]
    /\ UNCHANGED <<campaign, recs, handlers, sends>>

(* send_whatsapp_message for a recipient: it parses the message id before   *)
(* anything else, and when that raises its retries raise as well.           *)
SendTask(x) ==
    /\ inflight[x] > 0
    /\ inflight' = [inflight EXCEPT ![x] = @ - 1]
    /\ called' = [called EXCEPT ![x] = @ + IF IsUuid(CampaignMessageId) THEN 1 ELSE 0]
    /\ UNCHANGED <<campaign, recs, handlers, exec, lost, dispatched, late>>

-----------------------------------------------------------------------------
ExecStep(r) ==
    \/ ExecLoad(r) \/ ExecFail(r) \/ ExecCheck(r) \/ ExecCommitChunk(r)
    \/ ExecStats(r) \/ ExecAck(r)
    \/ \E x \in Rows : ExecDispatch(r, x) \/ ExecDispatchFails(r, x) \/ ExecSkip(r, x)

Next ==
    \/ \E r \in SendReqs : SendCheck(r) \/ SendFlush(r) \/ SendCommit(r)
                             \/ SendAbort(r) \/ ExecStep(r) \/ ExecLost(r)
                             \/ ExecRaises(r)
    \/ \E p \in PauseReqs : PauseCheck(p) \/ PauseCommit(p)
    \/ \E d \in DeleteReqs : DeleteCheck(d) \/ DeleteCommit(d)
    \/ \E x \in Rows : SendTask(x)

Spec == Init /\ [][Next]_vars

(* Workers execute what they hold, and a request that has flushed ends.     *)
FairSpec ==
    Spec /\ \A r \in SendReqs : WF_vars(ExecStep(r))
                                  /\ WF_vars(SendCommit(r) \/ SendAbort(r))

-----------------------------------------------------------------------------
(* Properties *)

TypeOK ==
    /\ campaign \in [status : Statuses, total : 0..Cardinality(Contacts),
                     sent : Nat, failed : Nat, delivered : Nat]
    /\ recs \in [Rows -> RecStatuses]
    /\ req \in [Requests -> {"idle", "checked", "flushed", "done", "aborted"}]
    /\ audience \in [SendReqs -> SUBSET Contacts]
    /\ exec \in [SendReqs -> [at : ExecStates, left : SUBSET Rows,
                              chunk : SUBSET Rows, ok : SUBSET Rows,
                              bad : SUBSET Rows, sent : Nat, failed : Nat,
                              seen : Statuses]]
    /\ lost \in [SendReqs -> 0..MaxLost]
    /\ inflight \in [Rows -> Nat]
    /\ dispatched \in [Rows -> Nat]
    /\ called \in [Rows -> Nat]
    /\ late \in Nat

(* A task begins once, and once more for each worker it lost.               *)
Begun ==
    {t \in SendReqs \X (0..MaxLost) : exec[t[1]].at # "none" /\ t[2] <= lost[t[1]]}

(* A recipient is dispatched at most once each time a task begins; with one *)
(* send request, a second dispatch has a lost worker behind it.             *)
DispatchesBounded == \A x \in Rows : dispatched[x] <= Cardinality(Begun)

(* Only one send request has got as far as its task; two tasks hold the     *)
(* same rows and check nothing before they dispatch.                        *)
SingleTask == \A r, o \in SendReqs : exec[r].at # "none" /\ exec[o].at # "none" => r = o

(* A recipient that is committed as sent is not dispatched again, also by a *)
(* task that is redelivered.                                                *)
SentNotResent ==
    [][SingleTask => \A x \in Rows :
          recs[x] = "sent" => dispatched'[x] = dispatched[x]]_vars

(* "Pause a running campaign": once the pause is committed, each running    *)
(* task finishes the chunk it is in and dispatches nothing else.            *)
PauseStopsDispatch ==
    campaign.status = "paused" => late <= ChunkSize * Cardinality(SendReqs)

(* A campaign is "sent" only when no recipient is left pending, however     *)
(* its pauses, chunks and redeliveries interleave; a second task's          *)
(* recipients are not those the first one loaded.                           *)
SentMeansProcessed == campaign.status = "sent" /\ SingleTask => Pending = {}

(* "Real-time counters for sent, delivered, read, and failed": the counts   *)
(* of a campaign that is sent are those of its recipients.  A task that is  *)
(* redelivered counts its last run only, and of two tasks each writes its   *)
(* own counts.                                                              *)
CountersMatch ==
    campaign.status = "sent" /\ SingleTask /\ (\A r \in SendReqs : lost[r] = 0) =>
        /\ campaign.sent = Quantify(Rows, LAMBDA x : recs[x] = "sent")
        /\ campaign.failed = Quantify(Rows, LAMBDA x : recs[x] = "failed")

(* What dispatching must not do, however tasks, pauses, losses and second   *)
(* requests interleave: exceed one dispatch for each task and loss, go on   *)
(* after a pause, or dispatch a recipient that is committed as sent.        *)
DispatchSound == [](DispatchesBounded /\ PauseStopsDispatch) /\ SentNotResent

(* A campaign that says "sent" tells the truth about its recipients.        *)
SentSound == SentMeansProcessed /\ CountersMatch

(* "calls Cloud API": a recipient that is marked sent and has no task left  *)
(* in the queue was sent to the Cloud API.                                  *)
SentWasCalled ==
    \A x \in Rows : recs[x] = "sent" /\ inflight[x] = 0 => called[x] > 0

(* A sending campaign whose task is walking its chunks leaves the status    *)
(* "sending", however it is paused, deleted or read stale, unless its       *)
(* worker is lost or the task raises, after which nothing retries it.       *)
RunSettles ==
    \A r \in SendReqs :
        exec[r].at = "chunking" ~>
            campaign.status # "sending" \/ lost[r] > 0 \/ exec[r].at = "raised"
=============================================================================
