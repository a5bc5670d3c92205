--------------------------- MODULE CampaignProofs ---------------------------
(***************************************************************************)
(* Proofs about Campaign, for any contacts, requests, chunk size and lost   *)
(* workers.                                                                 *)
(***************************************************************************)
EXTENDS Campaign, FiniteSetTheorems, FunctionTheorems, TLAPS

Run == [at : ExecStates, left : SUBSET Rows, chunk : SUBSET Rows, ok : SUBSET Rows,
        bad : SUBSET Rows, sent : Nat, failed : Nat, seen : Statuses]

(* TypeOK without the counters of losses.                                   *)
Shape ==
    /\ campaign \in [status : Statuses, total : 0..Cardinality(Contacts),
                     sent : Nat, failed : Nat, delivered : Nat]
    /\ recs \in [Rows -> RecStatuses]
    /\ req \in [Requests -> {"idle", "checked", "flushed", "done", "aborted"}]
    /\ audience \in [SendReqs -> SUBSET Contacts]
    /\ exec \in [SendReqs -> Run]

Holds(e) == e.left \cup e.chunk \cup e.ok \cup e.bad

(* A run hands its recipients on from one set to the next.                  *)
Tidy(e) ==
    /\ e.left \cap e.chunk = {}
    /\ (e.left \cup e.chunk) \cap (e.ok \cup e.bad) = {}
    /\ e.at # "chunk" => e.chunk = {} /\ e.ok = {} /\ e.bad = {}
    /\ e.at \notin {"chunking", "chunk"} => e.left = {}

RunInv ==
    \A r \in SendReqs :
        /\ Tidy(exec[r])
        /\ req[r] \in {"idle", "checked"} => exec[r].at = "none"
        /\ exec[r].at = "none" => req[r] \notin {"flushed", "done"}

(* A campaign that is no draft has been sent by a task that is there.       *)
StartInv ==
    /\ campaign.status \notin {"draft", "deleted"} =>
          \E r \in SendReqs : exec[r].at # "none"
    /\ \A p \in PauseReqs : req[p] = "checked" => campaign.status # "draft"

(* What the only task knows: its request has committed, what it holds is    *)
(* not yet marked, and nothing pending is missing from what it holds.       *)
Knows(r, e) ==
    /\ e.at \in {"failing", "chunking", "chunk", "stats"} => req[r] = "done"
    /\ campaign.status \notin {"draft", "deleted"} => req[r] = "done"
    /\ \A x \in Holds(e) : recs[x] \in {"pending", "none"}
    /\ e.at \in {"chunking", "chunk"} => Pending \subseteq Holds(e)
    /\ e.at = "stats" /\ e.seen = "sending" => Pending = {}

SingleInv == SingleTask => \A r \in SendReqs : exec[r].at # "none" => Knows(r, exec[r])

IInv == Shape /\ RunInv /\ StartInv /\ SingleInv /\ SentMeansProcessed

(* The rest of TypeOK.                                                      *)
CountersTyped ==
    /\ lost \in [SendReqs -> 0..MaxLost]
    /\ inflight \in [Rows -> Nat]
    /\ dispatched \in [Rows -> Nat]
    /\ called \in [Rows -> Nat]
    /\ late \in Nat

(* The runs that may still dispatch x.                                      *)
Open(x) == {r \in SendReqs : exec[r].at = "queued" \/ x \in exec[r].left \cup exec[r].chunk}

(* What was dispatched and what still may be has begun as often.            *)
OpenInv == \A x \in Rows : dispatched[x] + Cardinality(Open(x)) <= Cardinality(Begun)

(* What running tasks still hold of their chunks was counted by the pause.  *)
Held == {t \in SendReqs \X Rows : t[2] \in exec[t[1]].chunk}

ChunkInv == \A r \in SendReqs : Cardinality(exec[r].chunk) <= ChunkSize

LateInv ==
    campaign.status = "paused" => late + Cardinality(Held) <= ChunkSize * Cardinality(SendReqs)

(* Nothing is marked before a task begins, nor deleted under the lock.      *)
CalmInv ==
    /\ Locked => campaign.status # "deleted"
    /\ (\A r \in SendReqs : exec[r].at = "none") => \A x \in Rows : recs[x] = "none"
    /\ \A r \in SendReqs : exec[r].ok \cap exec[r].bad = {}

Marked(s) == {x \in Rows : recs[x] = s}

(* What the only task has counted, while no worker is lost.                 *)
Counted(e) ==
    /\ e.at = "queued" => Marked("sent") = {} /\ Marked("failed") = {}
    /\ e.at \in {"chunking", "chunk", "stats"} =>
          /\ e.sent = Cardinality(Marked("sent") \cup e.ok)
          /\ e.failed = Cardinality(Marked("failed") \cup e.bad)
    /\ campaign.status = "sent" =>
          /\ e.at \in {"acking", "finished"}
          /\ campaign.sent = Cardinality(Marked("sent"))
          /\ campaign.failed = Cardinality(Marked("failed"))

NoneLost == \A r \in SendReqs : lost[r] = 0

CountInv ==
    SingleTask /\ NoneLost /\ campaign.status # "deleted" =>
        \A r \in SendReqs : exec[r].at # "none" => Counted(exec[r])

-----------------------------------------------------------------------------
(* Runs *)

LEMMA FreshRun ==
  ASSUME Shape
  PROVE  /\ NoExec \in Run /\ Over \in Run /\ Raised \in Run
         /\ [NoExec EXCEPT !.at = "queued"] \in Run
         /\ [NoExec EXCEPT !.at = "failing"] \in Run
         /\ [NoExec EXCEPT !.at = "chunking", !.left = Pending] \in Run
         /\ Pending \subseteq Rows
  BY DEF NoExec, Over, Raised, Run, ExecStates, Statuses, Pending

(* A task that began stays begun, so what is single was.                    *)
LEMMA StillSingle ==
  ASSUME NEW r \in SendReqs, exec[r].at # "none", exec'[r].at # "none",
         \A o \in SendReqs \ {r} : exec'[o] = exec[o]
  PROVE  SingleTask' <=> SingleTask
<1>1. \A o \in SendReqs : exec'[o].at # "none" <=> exec[o].at # "none"
  OBVIOUS
<1> QED
  BY <1>1 DEF SingleTask

(* A step of one run that writes nothing yet.                               *)
LEMMA RunStep ==
  ASSUME IInv, NEW r \in SendReqs, UNCHANGED <<campaign, recs, req, audience>>,
         exec' \in [SendReqs -> Run],
         \A o \in SendReqs \ {r} : exec'[o] = exec[o],
         exec[r].at # "none", exec'[r].at # "none",
         Tidy(exec'[r]),
         SingleTask => Knows(r, exec'[r])
  PROVE  IInv'
<1>0. SingleTask' <=> SingleTask
  BY StillSingle
<1>1. Shape'
  BY DEF IInv, Shape
<1>2. RunInv'
  BY DEF IInv, RunInv, Tidy
<1>3. StartInv'
  BY DEF IInv, StartInv
<1>4. SingleInv'
  BY <1>0 DEF IInv, SingleInv, Knows, Holds, Pending, SingleTask
<1>5. SentMeansProcessed'
  BY <1>0 DEF IInv, SentMeansProcessed, Pending
<1> QED
  BY <1>1, <1>2, <1>3, <1>4, <1>5 DEF IInv

LEMMA KnowsNow ==
  ASSUME IInv, NEW r \in SendReqs, exec[r].at # "none", SingleTask
  PROVE  Knows(r, exec[r])
  BY DEF IInv, SingleInv

LEMMA LoadInv == ASSUME IInv, NEW r \in SendReqs, ExecLoad(r) PROVE IInv'
<1>1. exec[r].at = "queued" /\ UNCHANGED <<campaign, recs, req, audience>>
  BY DEF ExecLoad, handlers
<1>2. PICK e \in {Over, [NoExec EXCEPT !.at = "failing"],
                  [NoExec EXCEPT !.at = "chunking", !.left = Pending]} :
         /\ exec' = [exec EXCEPT ![r] = e]
         /\ e.at # "acking" => campaign.status = "sending"
  BY DEF ExecLoad, Over, NoExec
<1>3. e \in Run /\ e.at \in {"acking", "failing", "chunking"}
  BY <1>2, FreshRun DEF IInv, Over, NoExec
<1>4. exec' \in [SendReqs -> Run] /\ exec'[r] = e
      /\ \A o \in SendReqs \ {r} : exec'[o] = exec[o]
  BY <1>2, <1>3 DEF IInv, Shape
<1>5. Tidy(e)
  BY <1>2 DEF Tidy, Over, NoExec
<1>6. SingleTask => Knows(r, e)
  <2> SUFFICES ASSUME SingleTask PROVE Knows(r, e)
    OBVIOUS
  <2>1. campaign.status \notin {"draft", "deleted"} => req[r] = "done"
    BY <1>1, KnowsNow DEF Knows
  <2>2. \A x \in Pending : recs[x] = "pending"
    BY DEF Pending
  <2>3. Holds(e) \subseteq Pending /\ (e.at = "chunking" => Holds(e) = Pending)
    BY <1>2 DEF Holds, Over, NoExec
  <2> QED
    BY <1>2, <1>3, <2>1, <2>2, <2>3 DEF Knows
<1> QED
  BY <1>1, <1>3, <1>4, <1>5, <1>6, RunStep

LEMMA CheckInv == ASSUME IInv, NEW r \in SendReqs, ExecCheck(r) PROVE IInv'
<1>1. exec[r].at = "chunking" /\ UNCHANGED <<campaign, recs, req, audience>>
      /\ exec[r] \in Run /\ exec \in [SendReqs -> Run] /\ Tidy(exec[r])
  BY DEF ExecCheck, handlers, IInv, Shape, RunInv
<1>2. exec[r].chunk = {} /\ exec[r].ok = {} /\ exec[r].bad = {}
  BY <1>1 DEF Tidy
<1>3. ASSUME NEW c \in SUBSET exec[r].left,
             exec' = [exec EXCEPT ![r].at = "chunk", ![r].chunk = c, ![r].left = @ \ c]
      PROVE  IInv'
  <2>1. exec' \in [SendReqs -> Run] /\ \A o \in SendReqs \ {r} : exec'[o] = exec[o]
    BY <1>1, <1>3 DEF Run, ExecStates
  <2>2. /\ exec'[r].at = "chunk" /\ exec'[r].chunk = c /\ exec'[r].left = exec[r].left \ c
        /\ exec'[r].ok = {} /\ exec'[r].bad = {}
    BY <1>1, <1>2, <1>3 DEF Run
  <2>3. Holds(exec'[r]) = Holds(exec[r])
    BY <1>2, <2>2 DEF Holds
  <2>4. Tidy(exec'[r])
    BY <2>2 DEF Tidy
  <2>5. SingleTask => Knows(r, exec'[r])
    BY <1>1, <2>2, <2>3, KnowsNow DEF Knows
  <2> QED
    BY <1>1, <2>1, <2>2, <2>4, <2>5, RunStep
<1>4. ASSUME campaign.status = "deleted", exec' = [exec EXCEPT ![r] = Raised] PROVE IInv'
  <2>1. /\ exec' \in [SendReqs -> Run] /\ exec'[r] = Raised
        /\ \A o \in SendReqs \ {r} : exec'[o] = exec[o]
    BY <1>1, <1>4, FreshRun DEF IInv
  <2>2. Raised.at = "raised" /\ Tidy(Raised) /\ (SingleTask => Knows(r, Raised))
    BY <1>1, <1>4 DEF Raised, NoExec, Tidy, Knows, Holds
  <2> QED
    BY <1>1, <2>1, <2>2, RunStep
<1>5. ASSUME campaign.status # "sending",
             exec' = [exec EXCEPT ![r] = [@ EXCEPT !.at = "stats", !.left = {},
                                                   !.seen = campaign.status]]
      PROVE  IInv'
  <2>0. campaign.status \in Statuses
    BY DEF IInv, Shape
  <2>1. exec' \in [SendReqs -> Run] /\ \A o \in SendReqs \ {r} : exec'[o] = exec[o]
    BY <1>1, <1>5, <2>0 DEF Run, ExecStates
  <2>2. /\ exec'[r].at = "stats" /\ exec'[r].seen # "sending" /\ exec'[r].left = {}
        /\ exec'[r].chunk = {} /\ exec'[r].ok = {} /\ exec'[r].bad = {}
    BY <1>1, <1>2, <1>5 DEF Run
  <2>3. Tidy(exec'[r])
    BY <2>2 DEF Tidy
  <2>4. SingleTask => Knows(r, exec'[r])
    BY <1>1, <2>2, KnowsNow DEF Knows, Holds
  <2> QED
    BY <1>1, <2>1, <2>2, <2>3, <2>4, RunStep
<1> QED
  BY <1>3, <1>4, <1>5 DEF ExecCheck, kSubset

LEMMA DispatchInv ==
  ASSUME IInv, NEW r \in SendReqs, NEW x \in Rows,
         ExecDispatch(r, x) \/ ExecDispatchFails(r, x) \/ ExecSkip(r, x)
  PROVE  IInv'
<1>1. /\ exec[r].at = "chunk" /\ x \in exec[r].chunk
      /\ UNCHANGED <<campaign, recs, req, audience>>
      /\ exec[r] \in Run /\ exec \in [SendReqs -> Run] /\ Tidy(exec[r])
  BY DEF ExecDispatch, ExecDispatchFails, ExecSkip, handlers, IInv, Shape, RunInv
<1>2. /\ exec' \in [SendReqs -> Run] /\ \A o \in SendReqs \ {r} : exec'[o] = exec[o]
      /\ exec'[r].at = "chunk" /\ exec'[r].left = exec[r].left
      /\ exec'[r].chunk = exec[r].chunk \ {x}
      /\ \/ exec'[r].ok = exec[r].ok \cup {x} /\ exec'[r].bad = exec[r].bad
         \/ exec'[r].bad = exec[r].bad \cup {x} /\ exec'[r].ok = exec[r].ok
         \/ recs[x] = "none" /\ exec'[r].ok = exec[r].ok /\ exec'[r].bad = exec[r].bad
  <2>1. CASE ExecDispatch(r, x)
    BY <1>1, <2>1 DEF ExecDispatch, Run
  <2>2. CASE ExecDispatchFails(r, x)
    BY <1>1, <2>2 DEF ExecDispatchFails, Run
  <2>3. CASE ExecSkip(r, x)
    BY <1>1, <2>3 DEF ExecSkip, Run
  <2> QED
    BY <2>1, <2>2, <2>3
<1>3. Tidy(exec'[r])
  BY <1>1, <1>2 DEF Tidy
<1>4. /\ Holds(exec'[r]) \subseteq Holds(exec[r])
      /\ Holds(exec[r]) \subseteq Holds(exec'[r]) \cup {x}
      /\ x \notin Holds(exec'[r]) => recs[x] = "none"
  BY <1>1, <1>2 DEF Holds
<1>5. SingleTask => Knows(r, exec'[r])
  BY <1>1, <1>2, <1>4, KnowsNow DEF Knows, Pending
<1> QED
  BY <1>1, <1>2, <1>3, <1>5, RunStep

LEMMA AckLostInv ==
  ASSUME IInv, NEW r \in SendReqs, ExecAck(r) \/ ExecLost(r) \/ ExecRaises(r)
  PROVE  IInv'
<1>1. /\ exec[r].at # "none" /\ UNCHANGED <<campaign, recs, req, audience>>
      /\ exec[r] \in Run /\ exec \in [SendReqs -> Run] /\ Tidy(exec[r])
  BY DEF ExecAck, ExecLost, ExecRaises, handlers, IInv, Shape, RunInv
<1>2. /\ exec' \in [SendReqs -> Run] /\ \A o \in SendReqs \ {r} : exec'[o] = exec[o]
      /\ exec'[r].at \in {"finished", "queued", "raised"} /\ Holds(exec'[r]) = {}
  <2>1. CASE ExecAck(r)
    BY <1>1, <2>1 DEF ExecAck, Run, ExecStates, Holds, Tidy
  <2>2. CASE ExecLost(r)
    BY <1>1, <2>2, FreshRun DEF ExecLost, Holds, NoExec, IInv
  <2>3. CASE ExecRaises(r)
    BY <1>1, <2>3, FreshRun DEF ExecRaises, Raised, Holds, NoExec, IInv
  <2> QED
    BY <2>1, <2>2, <2>3
<1>3. Tidy(exec'[r])
  BY <1>2 DEF Tidy, Holds
<1>4. SingleTask => Knows(r, exec'[r])
  BY <1>1, <1>2, KnowsNow DEF Knows
<1> QED
  BY <1>1, <1>2, <1>3, <1>4, RunStep

LEMMA CommitChunkInv == ASSUME IInv, NEW r \in SendReqs, ExecCommitChunk(r) PROVE IInv'
<1> DEFINE e == exec[r]
<1>1. /\ e.at = "chunk" /\ e.chunk = {} /\ UNCHANGED <<campaign, req, audience>>
      /\ e \in Run /\ exec \in [SendReqs -> Run] /\ Tidy(e)
      /\ recs \in [Rows -> RecStatuses]
  BY DEF ExecCommitChunk, handlers, IInv, Shape, RunInv
<1>2. ASSUME exec' = [exec EXCEPT ![r] = Raised], UNCHANGED recs PROVE IInv'
  <2>1. /\ exec' \in [SendReqs -> Run] /\ exec'[r] = Raised
        /\ \A o \in SendReqs \ {r} : exec'[o] = exec[o]
    BY <1>1, <1>2, FreshRun DEF IInv
  <2>2. Raised.at = "raised" /\ Tidy(Raised) /\ Holds(Raised) = {}
    BY DEF Raised, NoExec, Tidy, Holds
  <2>3. SingleTask => Knows(r, Raised)
    BY <1>1, <2>2, KnowsNow DEF Knows
  <2> QED
    BY <1>1, <1>2, <2>1, <2>2, <2>3, RunStep
<1>3. ASSUME exec' = [exec EXCEPT ![r].at = IF e.left = {} THEN "stats" ELSE "chunking",
                                  ![r].ok = {}, ![r].bad = {}],
             recs' = [x \in Rows |-> CASE x \in e.ok -> "sent"
                                       [] x \in e.bad -> "failed"
                                       [] OTHER -> recs[x]]
      PROVE  IInv'
  <2>1. exec' \in [SendReqs -> Run] /\ \A o \in SendReqs \ {r} : exec'[o] = exec[o]
    BY <1>1, <1>3 DEF Run, ExecStates
  <2>2. /\ exec'[r].at = IF e.left = {} THEN "stats" ELSE "chunking"
        /\ exec'[r].left = e.left /\ exec'[r].chunk = {} /\ exec'[r].ok = {}
        /\ exec'[r].bad = {}
    BY <1>1, <1>3 DEF Run
  <2>3. recs' \in [Rows -> RecStatuses]
        /\ \A x \in Rows : IF x \in e.ok \cup e.bad THEN recs'[x] \in {"sent", "failed"}
                                                    ELSE recs'[x] = recs[x]
    BY <1>1, <1>3 DEF RecStatuses
  <2>4. Tidy(exec'[r]) /\ Holds(exec'[r]) = e.left
    BY <1>1, <2>2 DEF Tidy, Holds
  <2>5. SingleTask' <=> SingleTask
    BY <1>1, <2>1, <2>2, StillSingle
  <2>6. Shape' /\ RunInv' /\ StartInv'
    BY <1>1, <2>1, <2>2, <2>3, <2>4 DEF IInv, Shape, RunInv, StartInv
  <2>7. Pending' \subseteq Pending \ (e.ok \cup e.bad)
    BY <2>3 DEF Pending
  <2>8. SingleInv'
    <3> SUFFICES ASSUME SingleTask PROVE Knows(r, exec[r])'
      BY <1>1, <2>2, <2>5 DEF SingleInv, SingleTask
    <3>1. Knows(r, e)
      BY <1>1, KnowsNow
    <3>2. e.left \cap (e.ok \cup e.bad) = {} /\ Holds(e) = e.left \cup e.ok \cup e.bad
      BY <1>1 DEF Tidy, Holds
    <3>3. \A x \in Holds(exec'[r]) : recs'[x] \in {"pending", "none"}
      <4>1. \A x \in e.left : x \in Rows /\ x \in Holds(e) /\ x \notin e.ok \cup e.bad
        BY <1>1, <3>2 DEF Run
      <4> QED
        BY <2>3, <2>4, <3>1, <4>1 DEF Knows
    <3>4. Pending' \subseteq e.left
      BY <1>1, <2>7, <3>1, <3>2 DEF Knows
    <3> QED
      BY <1>1, <2>2, <2>4, <3>1, <3>3, <3>4 DEF Knows
  <2>9. SentMeansProcessed'
    BY <1>1, <2>5, <2>7 DEF IInv, SentMeansProcessed
  <2> QED
    BY <2>6, <2>8, <2>9 DEF IInv
<1> QED
  BY <1>2, <1>3 DEF ExecCommitChunk

(* A task that writes the campaign is over.                                 *)
LEMMA WriteStep ==
  ASSUME IInv, NEW r \in SendReqs, exec[r].at \in {"failing", "stats"},
         exec' = [exec EXCEPT ![r] = Over], UNCHANGED <<recs, req, audience>>,
         campaign' \in [status : Statuses, total : 0..Cardinality(Contacts),
                        sent : Nat, failed : Nat, delivered : Nat],
         campaign'.status = "draft" => campaign.status = "draft",
         SingleTask /\ campaign'.status = "sent" => Pending = {}
  PROVE  IInv'
<1>1. /\ exec' \in [SendReqs -> Run] /\ exec'[r] = Over
      /\ \A o \in SendReqs \ {r} : exec'[o] = exec[o]
  BY FreshRun DEF IInv, Shape
<1>2. Over.at = "acking" /\ Tidy(Over) /\ Holds(Over) = {}
  BY DEF Over, NoExec, Tidy, Holds
<1>3. SingleTask' <=> SingleTask
  BY <1>1, <1>2, StillSingle
<1>4. Shape'
  BY <1>1 DEF IInv, Shape
<1>5. RunInv'
  BY <1>1, <1>2 DEF IInv, RunInv
<1>6. StartInv'
  BY <1>1, <1>2 DEF IInv, StartInv
<1>7. SingleInv'
  <2> SUFFICES ASSUME SingleTask PROVE Knows(r, Over)'
    BY <1>1, <1>3 DEF SingleInv, SingleTask
  <2>1. req[r] = "done"
    BY KnowsNow DEF Knows
  <2> QED
    BY <1>2, <2>1 DEF Knows, Over, NoExec, Holds
<1>8. SentMeansProcessed'
  BY <1>3 DEF SentMeansProcessed, Pending
<1> QED
  BY <1>4, <1>5, <1>6, <1>7, <1>8 DEF IInv

LEMMA WritesInv == ASSUME IInv, NEW r \in SendReqs, ExecFail(r) \/ ExecStats(r) PROVE IInv'
<1>1. /\ campaign \in [status : Statuses, total : 0..Cardinality(Contacts),
                       sent : Nat, failed : Nat, delivered : Nat]
      /\ exec[r] \in Run
  BY DEF IInv, Shape
<1>2. CASE ExecFail(r)
  <2> DEFINE s == IF campaign.status = "deleted" THEN campaign.status ELSE "failed"
  <2>1. campaign' = [campaign EXCEPT !.status = s]
    BY <1>2 DEF ExecFail
  <2>2. s \in {"deleted", "failed"}
    OBVIOUS
  <2>3. /\ campaign' \in [status : Statuses, total : 0..Cardinality(Contacts),
                          sent : Nat, failed : Nat, delivered : Nat]
        /\ campaign'.status = s
    BY <1>1, <2>1, <2>2 DEF Statuses
  <2>4. exec[r].at = "failing" /\ exec' = [exec EXCEPT ![r] = Over]
        /\ UNCHANGED <<recs, req, audience>>
    BY <1>2 DEF ExecFail, handlers
  <2> QED
    BY <2>2, <2>3, <2>4, WriteStep
<1>3. CASE ExecStats(r)
  <2>1. exec[r].at = "stats" /\ exec' = [exec EXCEPT ![r] = Over]
        /\ UNCHANGED <<recs, req, audience>>
    BY <1>3 DEF ExecStats, handlers
  <2> DEFINE s == IF exec[r].seen = "sending" THEN "sent" ELSE campaign.status
             row == [campaign EXCEPT !.sent = exec[r].sent, !.failed = exec[r].failed,
                                     !.delivered = exec[r].sent, !.status = s]
  <2>2. campaign' = IF campaign.status = "deleted" THEN campaign ELSE row
    BY <1>3 DEF ExecStats
  <2>3. s \in Statuses /\ exec[r].sent \in Nat /\ exec[r].failed \in Nat
    BY <1>1 DEF Run, Statuses
  <2>4. /\ row \in [status : Statuses, total : 0..Cardinality(Contacts),
                    sent : Nat, failed : Nat, delivered : Nat]
        /\ row.status = s
    BY <1>1, <2>3
  <2>5. SingleTask /\ s = "sent" => Pending = {}
    <3>1. SingleTask /\ exec[r].seen = "sending" => Pending = {}
      BY <2>1, KnowsNow DEF Knows
    <3>2. SingleTask /\ campaign.status = "sent" => Pending = {}
      BY DEF IInv, SentMeansProcessed
    <3> QED
      BY <3>1, <3>2
  <2>6. campaign.status = "draft" \/ s # "draft"
    OBVIOUS
  <2> HIDE DEF row
  <2>7. /\ campaign' \in [status : Statuses, total : 0..Cardinality(Contacts),
                          sent : Nat, failed : Nat, delivered : Nat]
        /\ campaign'.status = "draft" => campaign.status = "draft"
        /\ SingleTask /\ campaign'.status = "sent" => Pending = {}
    BY <1>1, <2>2, <2>4, <2>5, <2>6
  <2> QED
    BY <2>1, <2>7, WriteStep
<1> QED
  BY <1>2, <1>3

-----------------------------------------------------------------------------
(* Requests *)

(* A request that moves on and leaves campaign, recipients and tasks alone. *)
LEMMA RequestStep ==
  ASSUME IInv, NEW q \in Requests, NEW s \in {"checked", "aborted"},
         req' = [req EXCEPT ![q] = s],
         audience' \in [SendReqs -> SUBSET Contacts],
         UNCHANGED <<campaign, recs, exec>>,
         req[q] # "done",
         q \in SendReqs /\ s = "checked" => req[q] = "idle",
         q \in PauseReqs => campaign.status # "draft"
  PROVE  IInv'
<1>0. req \in [Requests -> {"idle", "checked", "flushed", "done", "aborted"}]
  BY DEF IInv, Shape
<1>1. Shape'
  BY <1>0 DEF IInv, Shape
<1>2. SendReqs \subseteq Requests /\ PauseReqs \subseteq Requests
  BY DEF Requests
<1>3. \A o \in Requests : req'[o] = IF o = q THEN s ELSE req[o]
  BY <1>0
<1>4. RunInv'
  BY <1>2, <1>3 DEF IInv, RunInv
<1>5. StartInv'
  BY <1>2, <1>3 DEF IInv, StartInv
<1>6. SingleInv'
  BY <1>2, <1>3 DEF IInv, SingleInv, Knows, SingleTask, Pending
<1>7. SentMeansProcessed'
  BY DEF IInv, SentMeansProcessed, SingleTask, Pending
<1> QED
  BY <1>1, <1>4, <1>5, <1>6, <1>7 DEF IInv

LEMMA FlushInv == ASSUME IInv, NEW r \in SendReqs, SendFlush(r) PROVE IInv'
<1>1. /\ req[r] = "checked" /\ exec[r].at = "none"
      /\ UNCHANGED <<campaign, recs, audience>>
      /\ req \in [Requests -> {"idle", "checked", "flushed", "done", "aborted"}]
      /\ exec \in [SendReqs -> Run] /\ r \in Requests /\ Tidy(exec[r])
  BY DEF SendFlush, IInv, Shape, RunInv, Requests
<1>2. \A o \in Requests : req'[o] = IF o = r THEN "flushed" ELSE req[o]
  BY <1>1 DEF SendFlush
<1>3. /\ exec' \in [SendReqs -> Run] /\ \A o \in SendReqs \ {r} : exec'[o] = exec[o]
      /\ exec'[r].at = "queued" /\ Tidy(exec'[r]) /\ Holds(exec'[r]) = {}
  BY <1>1 DEF SendFlush, Run, ExecStates, Tidy, Holds
<1>4. Shape'
  BY <1>1, <1>2, <1>3 DEF SendFlush, IInv, Shape
<1>5. RunInv'
  BY <1>2, <1>3 DEF IInv, RunInv, Requests
<1>6. StartInv'
  BY <1>1, <1>2, <1>3 DEF IInv, StartInv, Requests
(* Had the campaign been started, there would be two tasks now.             *)
<1>7. SingleTask' => SingleTask /\ campaign.status \in {"draft", "deleted"}
  BY <1>1, <1>3 DEF SingleTask, IInv, StartInv
<1>8. SingleInv'
  BY <1>1, <1>3, <1>7 DEF SingleInv, SingleTask, Knows
<1>9. SentMeansProcessed'
  BY <1>1, <1>7 DEF SentMeansProcessed
<1> QED
  BY <1>4, <1>5, <1>6, <1>8, <1>9 DEF IInv

LEMMA CommitInv == ASSUME IInv, NEW r \in SendReqs, SendCommit(r) PROVE IInv'
<1>1. /\ req[r] = "flushed" /\ UNCHANGED <<audience, exec>>
      /\ req \in [Requests -> {"idle", "checked", "flushed", "done", "aborted"}]
      /\ r \in Requests /\ exec[r].at # "none" /\ exec[r] \in Run /\ Tidy(exec[r])
  BY DEF SendCommit, IInv, Shape, RunInv, Requests
<1>2. /\ \A o \in Requests : req'[o] = IF o = r THEN "done" ELSE req[o]
      /\ req' \in [Requests -> {"idle", "checked", "flushed", "done", "aborted"}]
  BY <1>1 DEF SendCommit
<1>3. Cardinality(audience[r]) \in 0..Cardinality(Contacts)
  <2>1. audience[r] \in SUBSET Contacts
    BY DEF IInv, Shape
  <2> QED
    BY <2>1, ContactsFinite, FS_Subset, FS_CardinalityType
<1>4. /\ campaign' \in [status : Statuses, total : 0..Cardinality(Contacts),
                        sent : Nat, failed : Nat, delivered : Nat]
      /\ campaign'.status = "sending"
  BY <1>3 DEF SendCommit, IInv, Shape, Statuses
<1>5. recs' \in [Rows -> RecStatuses]
  BY DEF SendCommit, IInv, Shape, RecStatuses
<1>6. Shape'
  BY <1>1, <1>2, <1>4, <1>5 DEF IInv, Shape
<1>7. RunInv'
  BY <1>1, <1>2 DEF IInv, RunInv, Requests
<1>8. StartInv'
  BY <1>1, <1>4 DEF StartInv
(* The only task is that of r, and it has loaded nothing before the commit. *)
<1>9. SingleInv'
  <2> SUFFICES ASSUME SingleTask PROVE Knows(r, exec[r])'
    BY <1>1 DEF SingleInv, SingleTask
  <2>1. exec[r].at \notin {"failing", "chunking", "chunk", "stats"}
    BY <1>1, KnowsNow DEF Knows
  <2>2. Holds(exec[r]) = {}
    BY <1>1, <2>1 DEF Tidy, Holds
  <2> QED
    BY <1>1, <1>2, <2>1, <2>2 DEF Knows, Holds
<1>10. SentMeansProcessed'
  BY <1>4 DEF SentMeansProcessed
<1> QED
  BY <1>6, <1>7, <1>8, <1>9, <1>10 DEF IInv

LEMMA PauseCommitInv == ASSUME IInv, NEW p \in PauseReqs, PauseCommit(p) PROVE IInv'
<1>1. /\ req[p] = "checked" /\ UNCHANGED <<recs, audience, exec>>
      /\ req \in [Requests -> {"idle", "checked", "flushed", "done", "aborted"}]
      /\ p \in Requests /\ p \notin SendReqs
      /\ campaign.status \notin {"draft", "deleted"}
  BY RequestsDisjoint DEF PauseCommit, IInv, Shape, StartInv, Requests
<1>2. /\ \A o \in Requests : req'[o] = IF o = p THEN "done" ELSE req[o]
      /\ req' \in [Requests -> {"idle", "checked", "flushed", "done", "aborted"}]
  BY <1>1 DEF PauseCommit
<1>3. /\ campaign' \in [status : Statuses, total : 0..Cardinality(Contacts),
                        sent : Nat, failed : Nat, delivered : Nat]
      /\ campaign'.status = "paused"
  BY DEF PauseCommit, IInv, Shape, Statuses
<1>4. Shape'
  BY <1>1, <1>2, <1>3 DEF IInv, Shape
<1>5. RunInv'
  BY <1>1, <1>2 DEF IInv, RunInv, Requests
<1>6. StartInv'
  BY <1>1, <1>3 DEF IInv, StartInv
<1>7. SingleInv'
  BY <1>1, <1>2, <1>3 DEF IInv, SingleInv, SingleTask, Knows, Pending, Requests
<1>8. SentMeansProcessed'
  BY <1>3 DEF SentMeansProcessed
<1> QED
  BY <1>4, <1>5, <1>6, <1>7, <1>8 DEF IInv

LEMMA DeleteCommitInv == ASSUME IInv, NEW d \in DeleteReqs, DeleteCommit(d) PROVE IInv'
<1>1. /\ UNCHANGED <<audience, exec>>
      /\ req \in [Requests -> {"idle", "checked", "flushed", "done", "aborted"}]
      /\ d \in Requests /\ d \notin SendReqs /\ d \notin PauseReqs
      /\ recs' = [x \in Rows |-> "none"]
  BY RequestsDisjoint DEF DeleteCommit, IInv, Shape, Requests
<1>2. /\ \A o \in Requests : req'[o] = IF o = d THEN "done" ELSE req[o]
      /\ req' \in [Requests -> {"idle", "checked", "flushed", "done", "aborted"}]
  BY <1>1 DEF DeleteCommit
<1>3. /\ campaign' \in [status : Statuses, total : 0..Cardinality(Contacts),
                        sent : Nat, failed : Nat, delivered : Nat]
      /\ campaign'.status = "deleted"
  BY DEF DeleteCommit, IInv, Shape, Statuses
<1>4. Shape'
  BY <1>1, <1>2, <1>3 DEF IInv, Shape, RecStatuses
<1>5. RunInv'
  BY <1>1, <1>2 DEF IInv, RunInv, Requests
<1>6. StartInv'
  BY <1>1, <1>2, <1>3 DEF IInv, StartInv, Requests
<1>7. Pending' = {}
  BY <1>1 DEF Pending
<1>8. \A r \in SendReqs : Holds(exec[r]) \subseteq Rows
  BY DEF IInv, Shape, Run, Holds
<1>9. SingleInv'
  <2> SUFFICES ASSUME SingleTask, NEW r \in SendReqs, exec[r].at # "none"
               PROVE  Knows(r, exec[r])'
    BY <1>1 DEF SingleInv, SingleTask
  <2>1. req'[r] = req[r]
    BY <1>1, <1>2 DEF Requests
  <2>2. \A x \in Holds(exec[r]) : recs'[x] = "none"
    BY <1>1, <1>8
  <2> QED
    BY <1>1, <1>3, <1>7, <2>1, <2>2, KnowsNow DEF Knows, Holds
<1>10. SentMeansProcessed'
  BY <1>3 DEF SentMeansProcessed
<1> QED
  BY <1>4, <1>5, <1>6, <1>9, <1>10 DEF IInv

LEMMA RequestsInv ==
  ASSUME IInv,
         \/ \E r \in SendReqs : SendCheck(r) \/ SendAbort(r)
         \/ \E p \in PauseReqs : PauseCheck(p)
         \/ \E d \in DeleteReqs : DeleteCheck(d)
  PROVE  IInv'
<1>0. /\ audience \in [SendReqs -> SUBSET Contacts]
      /\ SendReqs \subseteq Requests /\ PauseReqs \subseteq Requests
      /\ DeleteReqs \subseteq Requests
  BY DEF IInv, Shape, Requests
<1>1. ASSUME NEW r \in SendReqs, SendCheck(r) \/ SendAbort(r) PROVE IInv'
  <2>1. audience' \in [SendReqs -> SUBSET Contacts]
    BY <1>0, <1>1 DEF SendCheck, SendAbort
  <2>2. r \in Requests /\ r \notin PauseReqs /\ UNCHANGED <<campaign, recs, exec>>
    BY <1>0, <1>1, RequestsDisjoint DEF SendCheck, SendAbort
  <2>3. /\ req[r] # "done"
        /\ \/ req' = [req EXCEPT ![r] = "checked"] /\ req[r] = "idle"
           \/ req' = [req EXCEPT ![r] = "aborted"]
    BY <1>1 DEF SendCheck, SendAbort
  <2> QED
    BY <2>1, <2>2, <2>3, RequestStep
<1>2. ASSUME NEW p \in PauseReqs, PauseCheck(p) PROVE IInv'
  <2>1. /\ p \in Requests /\ p \notin SendReqs /\ req[p] = "idle"
        /\ campaign.status = "sending" /\ req' = [req EXCEPT ![p] = "checked"]
        /\ UNCHANGED <<campaign, recs, audience, exec>>
    BY <1>0, <1>2, RequestsDisjoint DEF PauseCheck
  <2> QED
    BY <1>0, <2>1, RequestStep
<1>3. ASSUME NEW d \in DeleteReqs, DeleteCheck(d) PROVE IInv'
  <2>1. /\ d \in Requests /\ d \notin SendReqs /\ d \notin PauseReqs /\ req[d] = "idle"
        /\ req' = [req EXCEPT ![d] = "checked"]
        /\ UNCHANGED <<campaign, recs, audience, exec>>
    BY <1>0, <1>3, RequestsDisjoint DEF DeleteCheck
  <2> QED
    BY <1>0, <2>1, RequestStep
<1> QED
  BY <1>1, <1>2, <1>3

-----------------------------------------------------------------------------
(* The theorems *)

LEMMA InitInv == Init => IInv
<1> SUFFICES ASSUME Init PROVE IInv
  OBVIOUS
<1>1. Cardinality(Contacts) \in Nat
  BY ContactsFinite, FS_CardinalityType
<1>2. NoExec \in Run
  BY DEF NoExec, Run, ExecStates, Statuses
<1>3. Shape
  BY <1>1, <1>2 DEF Init, Shape, RecStatuses, Statuses
<1>4. RunInv
  BY DEF Init, RunInv, Tidy, NoExec, Requests
<1>5. StartInv /\ SingleInv /\ SentMeansProcessed
  BY DEF Init, StartInv, SingleInv, SentMeansProcessed, NoExec, Requests
<1> QED
  BY <1>3, <1>4, <1>5 DEF IInv

LEMMA NextInv == IInv /\ [Next]_vars => IInv'
<1> SUFFICES ASSUME IInv, [Next]_vars PROVE IInv'
  OBVIOUS
<1>1. ASSUME UNCHANGED <<campaign, recs, req, audience, exec>> PROVE IInv'
  BY <1>1 DEF IInv, Shape, RunInv, StartInv, SingleInv, SingleTask, SentMeansProcessed,
              Knows, Pending
<1>2. ASSUME NEW x \in Rows, SendTask(x) PROVE IInv'
  BY <1>1, <1>2 DEF SendTask, handlers
<1>3. ASSUME NEW r \in SendReqs, ExecStep(r) PROVE IInv'
  BY <1>3, LoadInv, CheckInv, DispatchInv, AckLostInv, CommitChunkInv, WritesInv DEF ExecStep
<1>4. CASE UNCHANGED vars
  BY <1>1, <1>4 DEF vars
<1> QED
  BY <1>2, <1>3, <1>4, AckLostInv, FlushInv, CommitInv, PauseCommitInv, DeleteCommitInv,
     RequestsInv DEF Next

(* "sent" means that no recipient is left pending, whatever pauses, chunks, *)
(* deletions and lost workers came between, while one task sends.           *)
THEOREM SentProcessed == Spec => []SentMeansProcessed
<1>1. IInv => SentMeansProcessed
  BY DEF IInv
<1> QED
  BY <1>1, InitInv, NextInv, PTL DEF Spec

(* Only a step of a chunk dispatches.                                       *)
LEMMA OthersDispatchNothing ==
  ASSUME [Next]_vars
  PROVE  \/ UNCHANGED dispatched
         \/ \E r \in SendReqs, y \in Rows : ExecDispatch(r, y)
<1>1. ASSUME NEW r \in SendReqs,
             SendCheck(r) \/ SendFlush(r) \/ SendCommit(r) \/ SendAbort(r) \/ ExecLost(r)
             \/ ExecRaises(r)
      PROVE  UNCHANGED dispatched
  BY <1>1 DEF SendCheck, SendFlush, SendCommit, SendAbort, ExecLost, ExecRaises, sends
<1>2. ASSUME NEW r \in SendReqs,
             ExecLoad(r) \/ ExecFail(r) \/ ExecCheck(r) \/ ExecCommitChunk(r)
             \/ ExecStats(r) \/ ExecAck(r)
      PROVE  UNCHANGED dispatched
  BY <1>2 DEF ExecLoad, ExecFail, ExecCheck, ExecCommitChunk, ExecStats, ExecAck, sends
<1>3. ASSUME NEW r \in SendReqs, NEW y \in Rows,
             ExecDispatchFails(r, y) \/ ExecSkip(r, y)
      PROVE  UNCHANGED dispatched
  BY <1>3 DEF ExecDispatchFails, ExecSkip, sends
<1>4. ASSUME NEW p \in PauseReqs, PauseCheck(p) \/ PauseCommit(p)
      PROVE  UNCHANGED dispatched
  BY <1>4 DEF PauseCheck, PauseCommit, sends
<1>5. ASSUME NEW d \in DeleteReqs, DeleteCheck(d) \/ DeleteCommit(d)
      PROVE  UNCHANGED dispatched
  BY <1>5 DEF DeleteCheck, DeleteCommit, sends
<1>6. ASSUME NEW x \in Rows, SendTask(x) PROVE UNCHANGED dispatched
  BY <1>6 DEF SendTask
<1>7. CASE UNCHANGED vars
  BY <1>7 DEF vars
<1> QED
  BY <1>1, <1>2, <1>3, <1>4, <1>5, <1>6, <1>7 DEF Next, ExecStep

(* A chunk holds nothing that is marked.                                    *)
LEMMA DispatchNext ==
  ASSUME IInv, [Next]_vars, SingleTask, NEW x \in Rows, recs[x] = "sent",
         dispatched \in [Rows -> Nat]
  PROVE  dispatched'[x] = dispatched[x]
<1>1. ASSUME NEW r \in SendReqs, NEW y \in Rows, ExecDispatch(r, y) PROVE x # y
  <2>1. exec[r].at # "none" /\ y \in Holds(exec[r])
    BY <1>1 DEF ExecDispatch, Holds
  <2> QED
    BY <2>1, KnowsNow DEF Knows
<1>2. ASSUME NEW r \in SendReqs, NEW y \in Rows, ExecDispatch(r, y)
      PROVE  dispatched'[x] = dispatched[x]
  BY <1>1, <1>2 DEF ExecDispatch
<1> QED
  BY <1>2, OthersDispatchNothing

LEMMA DispatchedTyped ==
  /\ Init => dispatched \in [Rows -> Nat]
  /\ dispatched \in [Rows -> Nat] /\ [Next]_vars => dispatched' \in [Rows -> Nat]
<1>1. ASSUME dispatched \in [Rows -> Nat], NEW r \in SendReqs, NEW y \in Rows,
             ExecDispatch(r, y)
      PROVE  dispatched' \in [Rows -> Nat]
  BY <1>1 DEF ExecDispatch
<1>2. Init => dispatched \in [Rows -> Nat]
  BY DEF Init
<1> QED
  BY <1>1, <1>2, OthersDispatchNothing

(* A recipient committed as sent is not dispatched again, also when the     *)
(* task is delivered again after its worker was lost.                       *)
THEOREM NotResent == Spec => SentNotResent
<1>1. Init => IInv /\ dispatched \in [Rows -> Nat]
  BY InitInv, DispatchedTyped
<1>2. IInv /\ dispatched \in [Rows -> Nat] /\ [Next]_vars
        => (IInv /\ dispatched \in [Rows -> Nat])'
  BY NextInv, DispatchedTyped
<1>3. IInv /\ dispatched \in [Rows -> Nat] /\ [Next]_vars =>
        [SingleTask => \A x \in Rows :
            recs[x] = "sent" => dispatched'[x] = dispatched[x]]_vars
  BY DispatchNext
<1> QED
  BY <1>1, <1>2, <1>3, PTL DEF Spec, SentNotResent

-----------------------------------------------------------------------------
(* How often a recipient is dispatched *)

LEMMA FiniteRows ==
  /\ IsFiniteSet(Rows)
  /\ IsFiniteSet(SendReqs \X Rows)
  /\ IsFiniteSet(SendReqs \X (0..MaxLost))
<1>1. IsFiniteSet(Rows)
  BY ContactsFinite, SendsFinite, FS_Product DEF Rows
<1>2. IsFiniteSet(0..MaxLost)
  BY LostIsNat, FS_Interval
<1> QED
  BY <1>1, <1>2, SendsFinite, FS_Product

LEMMA Counts ==
  /\ IsFiniteSet(Begun) /\ Cardinality(Begun) \in Nat
  /\ IsFiniteSet(Held) /\ Cardinality(Held) \in Nat
  /\ Cardinality(SendReqs) \in Nat
  /\ \A x : IsFiniteSet(Open(x)) /\ Cardinality(Open(x)) \in Nat
<1>1. Begun \in SUBSET (SendReqs \X (0..MaxLost)) /\ Held \in SUBSET (SendReqs \X Rows)
  BY DEF Begun, Held
<1>2. IsFiniteSet(Begun) /\ IsFiniteSet(Held)
  BY <1>1, FiniteRows, FS_Subset
<1>3. \A x : Open(x) \in SUBSET SendReqs
  BY DEF Open
<1>4. \A x : IsFiniteSet(Open(x))
  BY <1>3, SendsFinite, FS_Subset
<1> QED
  BY <1>2, <1>4, SendsFinite, FS_CardinalityType

LEMMA CountsNext ==
  /\ IsFiniteSet(Begun') /\ Cardinality(Begun') \in Nat
  /\ IsFiniteSet(Held') /\ Cardinality(Held') \in Nat
  /\ \A x : IsFiniteSet(Open(x)') /\ Cardinality(Open(x)') \in Nat
<1>1. Begun' \in SUBSET (SendReqs \X (0..MaxLost)) /\ Held' \in SUBSET (SendReqs \X Rows)
  BY DEF Begun, Held
<1>2. IsFiniteSet(Begun') /\ IsFiniteSet(Held')
  BY <1>1, FiniteRows, FS_Subset
<1>3. \A x : Open(x)' \in SUBSET SendReqs
  BY DEF Open
<1>4. \A x : IsFiniteSet(Open(x)')
  BY <1>3, SendsFinite, FS_Subset
<1> QED
  BY <1>2, <1>4, FS_CardinalityType

(* The size of a chunk is at most chunk_size.                               *)
LEMMA ChunkSizes ==
  ASSUME NEW n \in Nat
  PROVE  Min({ChunkSize, n}) \in Nat /\ Min({ChunkSize, n}) <= ChunkSize
<1>1. \E x \in {ChunkSize, n} : \A y \in {ChunkSize, n} : x <= y
  BY ChunkIsPositive
<1>2. /\ Min({ChunkSize, n}) \in {ChunkSize, n}
      /\ \A y \in {ChunkSize, n} : Min({ChunkSize, n}) <= y
  BY <1>1 DEF Min
<1> QED
  BY <1>2, ChunkIsPositive

Inner(r) ==
    \/ ExecLoad(r) \/ ExecFail(r) \/ ExecCheck(r) \/ ExecCommitChunk(r) \/ ExecStats(r)
    \/ ExecAck(r) \/ ExecRaises(r)
    \/ \E x \in Rows : ExecDispatchFails(r, x) \/ ExecSkip(r, x)

(* A step of a task that dispatches nothing: the task has begun, takes no   *)
(* recipient it did not hold, and enters a chunk of a sending campaign only.*)
Smaller(r) ==
    /\ exec' \in [SendReqs -> Run]
    /\ \A o \in SendReqs \ {r} : exec'[o] = exec[o]
    /\ exec[r].at # "none" /\ exec'[r].at \notin {"none", "queued"}
    /\ \/ exec[r].at = "queued"
       \/ exec'[r].left \cup exec'[r].chunk \subseteq exec[r].left \cup exec[r].chunk
    /\ \/ exec'[r].chunk \subseteq exec[r].chunk
       \/ campaign.status = "sending" /\ Cardinality(exec'[r].chunk) <= ChunkSize
    /\ UNCHANGED <<lost, dispatched, late>>
    /\ campaign'.status = "paused" => campaign.status = "paused"

LEMMA InnerSmaller == ASSUME IInv, NEW r \in SendReqs, Inner(r) PROVE Smaller(r)
<1>1. /\ exec \in [SendReqs -> Run] /\ exec[r] \in Run /\ Tidy(exec[r])
      /\ Over \in Run /\ Over.at = "acking"
      /\ Over.left = {} /\ Over.chunk = {}
      /\ Raised \in Run /\ Raised.at = "raised"
      /\ Raised.left = {} /\ Raised.chunk = {}
      /\ campaign \in [status : Statuses, total : 0..Cardinality(Contacts),
                        sent : Nat, failed : Nat, delivered : Nat]
  BY FreshRun DEF IInv, Shape, RunInv, Over, Raised, NoExec
<1>2. ASSUME exec[r].at # "none",
             \E e \in {Over, Raised} : exec' = [exec EXCEPT ![r] = e],
             UNCHANGED <<lost, dispatched, late>>,
             campaign'.status = "paused" => campaign.status = "paused"
      PROVE  Smaller(r)
  BY <1>1, <1>2 DEF Smaller
<1>3. CASE ExecLoad(r)
  <2>1. PICK e \in {Over, [NoExec EXCEPT !.at = "failing"],
                    [NoExec EXCEPT !.at = "chunking", !.left = Pending]} :
           exec' = [exec EXCEPT ![r] = e]
    BY <1>3 DEF ExecLoad, Over, NoExec
  <2>2. e \in Run /\ e.at \in {"acking", "failing", "chunking"} /\ e.chunk = {}
    BY <2>1, FreshRun DEF IInv, Over, NoExec
  <2> QED
    BY <1>1, <1>3, <2>1, <2>2 DEF ExecLoad, Smaller, sends
<1>4. CASE ExecFail(r)
  <2>1. campaign' = [campaign EXCEPT !.status = IF @ = "deleted" THEN @ ELSE "failed"]
    BY <1>4 DEF ExecFail
  <2>2. campaign'.status \in {"deleted", "failed"}
    BY <1>1, <2>1
  <2> QED
    BY <1>2, <1>4, <2>2 DEF ExecFail, sends
<1>5. CASE ExecCheck(r)
  <2>1. CASE campaign.status = "sending"
    <3>1. PICK c \in kSubset(Min({ChunkSize, Cardinality(exec[r].left)}), exec[r].left) :
             exec' = [exec EXCEPT ![r].at = "chunk", ![r].chunk = c, ![r].left = @ \ c]
      BY <1>5, <2>1 DEF ExecCheck
    <3>2. IsFiniteSet(exec[r].left)
      BY <1>1, FiniteRows, FS_Subset DEF Run
    <3>3. Cardinality(exec[r].left) \in Nat
      BY <3>2, FS_CardinalityType
    <3>4. c \in SUBSET exec[r].left /\ Cardinality(c) <= ChunkSize
      BY <3>3, ChunkSizes DEF kSubset
    <3>5. exec' \in [SendReqs -> Run] /\ exec'[r].at = "chunk" /\ exec'[r].chunk = c
          /\ exec'[r].left = exec[r].left \ c
      BY <1>1, <3>1, <3>4 DEF Run, ExecStates
    <3> QED
      BY <1>1, <1>5, <2>1, <3>1, <3>4, <3>5 DEF ExecCheck, Smaller, sends
  <2>2. CASE campaign.status = "deleted"
    BY <1>2, <1>5, <2>2 DEF ExecCheck, sends
  <2>3. CASE campaign.status \notin {"sending", "deleted"}
    <3>1. exec' = [exec EXCEPT ![r] = [@ EXCEPT !.at = "stats", !.left = {},
                                                !.seen = campaign.status]]
      BY <1>5, <2>3 DEF ExecCheck
    <3>2. exec' \in [SendReqs -> Run] /\ exec'[r].at = "stats" /\ exec'[r].left = {}
          /\ exec'[r].chunk = exec[r].chunk
      BY <1>1, <3>1 DEF Run, ExecStates
    <3> QED
      BY <1>1, <1>5, <3>1, <3>2 DEF ExecCheck, Smaller, sends
  <2> QED
    BY <2>1, <2>2, <2>3
<1>6. CASE ExecCommitChunk(r)
  <2>1. CASE exec' = [exec EXCEPT ![r] = Raised]
    BY <1>2, <1>6, <2>1 DEF ExecCommitChunk, sends
  <2>2. CASE exec' = [exec EXCEPT ![r].at = IF exec[r].left = {} THEN "stats" ELSE "chunking",
                                  ![r].ok = {}, ![r].bad = {}]
    <3>1. /\ exec' \in [SendReqs -> Run] /\ exec'[r].at \in {"stats", "chunking"}
          /\ exec'[r].left = exec[r].left /\ exec'[r].chunk = exec[r].chunk
      BY <1>1, <2>2 DEF Run, ExecStates
    <3> QED
      BY <1>1, <1>6, <2>2, <3>1 DEF ExecCommitChunk, Smaller, sends
  <2> QED
    BY <1>6, <2>1, <2>2 DEF ExecCommitChunk
<1>7. CASE ExecStats(r)
  <2> DEFINE s == IF exec[r].seen = "sending" THEN "sent" ELSE campaign.status
  <2>1. campaign' = campaign \/ campaign' = [campaign EXCEPT !.sent = exec[r].sent,
            !.failed = exec[r].failed, !.delivered = exec[r].sent, !.status = s]
    BY <1>7 DEF ExecStats
  <2>2. s = "paused" => campaign.status = "paused"
    OBVIOUS
  <2> HIDE DEF s
  <2>3. campaign'.status \in {campaign.status, s}
    BY <1>1, <2>1
  <2> QED
    BY <1>2, <1>7, <2>2, <2>3 DEF ExecStats, sends
<1>8. CASE ExecAck(r)
  <2>1. /\ exec' \in [SendReqs -> Run] /\ exec'[r].at = "finished"
        /\ exec'[r].left = exec[r].left /\ exec'[r].chunk = exec[r].chunk
    BY <1>1, <1>8 DEF ExecAck, Run, ExecStates
  <2> QED
    BY <1>1, <1>8, <2>1 DEF ExecAck, Smaller, sends
<1>9. ASSUME NEW x \in Rows, ExecDispatchFails(r, x) \/ ExecSkip(r, x) PROVE Smaller(r)
  <2>1. /\ exec' \in [SendReqs -> Run] /\ exec'[r].at = "chunk"
        /\ exec'[r].left = exec[r].left /\ exec'[r].chunk = exec[r].chunk \ {x}
    <3>1. CASE ExecDispatchFails(r, x)
      BY <1>1, <3>1 DEF ExecDispatchFails, Run
    <3>2. CASE ExecSkip(r, x)
      BY <1>1, <3>2 DEF ExecSkip, Run
    <3> QED
      BY <1>9, <3>1, <3>2
  <2> QED
    BY <1>1, <1>9, <2>1 DEF ExecDispatchFails, ExecSkip, Smaller, sends
<1>10. CASE ExecRaises(r)
  BY <1>2, <1>10 DEF ExecRaises, sends
<1> QED
  BY <1>3, <1>4, <1>5, <1>6, <1>7, <1>8, <1>9, <1>10 DEF Inner

(* What bounds the dispatches, together.                                    *)
BoundInv == CountersTyped /\ OpenInv /\ ChunkInv /\ LateInv

LEMMA SubsetCounts ==
  /\ \A x : Open(x)' \subseteq Open(x) => Cardinality(Open(x)') <= Cardinality(Open(x))
  /\ Begun \subseteq Begun' => Cardinality(Begun) <= Cardinality(Begun')
  /\ Held' \subseteq Held => Cardinality(Held') <= Cardinality(Held)
  BY Counts, CountsNext, FS_Subset

(* A step that leaves tasks and dispatches alone.                           *)
LEMMA OutsideBound ==
  ASSUME BoundInv, UNCHANGED <<exec, lost, dispatched, late>>,
         inflight' \in [Rows -> Nat], called' \in [Rows -> Nat],
         campaign'.status = "paused" => campaign.status = "paused"
  PROVE  BoundInv'
  BY DEF BoundInv, CountersTyped, OpenInv, ChunkInv, LateInv, Open, Begun, Held

LEMMA InnerBound ==
  ASSUME IInv, BoundInv, NEW r \in SendReqs, Smaller(r), UNCHANGED <<inflight, called>>
  PROVE  BoundInv'
<1>1. Begun' = Begun
  BY DEF Begun, Smaller
<1>2. \A x \in Rows : Open(x)' \subseteq Open(x)
  BY DEF Open, Smaller
<1>3. CountersTyped'
  BY DEF BoundInv, CountersTyped, Smaller
<1>4. OpenInv'
  <2> SUFFICES ASSUME NEW x \in Rows
               PROVE  dispatched'[x] + Cardinality(Open(x)') <= Cardinality(Begun')
    BY DEF OpenInv
  <2>1. Cardinality(Open(x)') <= Cardinality(Open(x))
    BY <1>2, SubsetCounts
  <2>2. dispatched'[x] = dispatched[x] /\ dispatched[x] \in Nat
    BY DEF Smaller, BoundInv, CountersTyped
  <2>3. dispatched[x] + Cardinality(Open(x)) <= Cardinality(Begun)
    BY DEF BoundInv, OpenInv
  <2> QED
    BY <1>1, <2>1, <2>2, <2>3, Counts, CountsNext
<1>5. ChunkInv'
  <2> SUFFICES ASSUME NEW o \in SendReqs PROVE Cardinality(exec'[o].chunk) <= ChunkSize
    BY DEF ChunkInv
  <2>1. Cardinality(exec[o].chunk) <= ChunkSize
    BY DEF BoundInv, ChunkInv
  <2>2. CASE exec'[o].chunk \subseteq exec[o].chunk
    <3>1. IsFiniteSet(exec[o].chunk)
      BY FiniteRows, FS_Subset DEF IInv, Shape, Run
    <3>2. Cardinality(exec'[o].chunk) <= Cardinality(exec[o].chunk)
          /\ Cardinality(exec[o].chunk) \in Nat /\ Cardinality(exec'[o].chunk) \in Nat
      BY <2>2, <3>1, FS_Subset, FS_CardinalityType
    <3> QED
      BY <2>1, <3>2, ChunkIsPositive
  <2> QED
    BY <2>1, <2>2 DEF Smaller
<1>6. LateInv'
  <2> SUFFICES ASSUME campaign'.status = "paused"
               PROVE  late' + Cardinality(Held') <= ChunkSize * Cardinality(SendReqs)
    BY DEF LateInv
  <2>1. campaign.status = "paused" /\ exec'[r].chunk \subseteq exec[r].chunk
    BY DEF Smaller
  <2>2. Held' \subseteq Held
    BY <2>1 DEF Held, Smaller
  <2>3. Cardinality(Held') <= Cardinality(Held)
    BY <2>2, SubsetCounts
  <2>4. late' = late /\ late \in Nat
        /\ late + Cardinality(Held) <= ChunkSize * Cardinality(SendReqs)
    BY <2>1 DEF BoundInv, CountersTyped, LateInv, Smaller
  <2>5. ChunkSize * Cardinality(SendReqs) \in Nat
    BY Counts, ChunkIsPositive
  <2> QED
    BY <2>3, <2>4, <2>5, Counts, CountsNext
<1> QED
  BY <1>3, <1>4, <1>5, <1>6 DEF BoundInv

(* The dispatch of x closes the run for x and is counted.                   *)
LEMMA DispatchBound ==
  ASSUME IInv, BoundInv, NEW r \in SendReqs, NEW x \in Rows, ExecDispatch(r, x)
  PROVE  BoundInv'
<1>1. /\ exec \in [SendReqs -> Run] /\ exec[r] \in Run /\ Tidy(exec[r])
      /\ exec[r].at = "chunk" /\ x \in exec[r].chunk
      /\ UNCHANGED <<lost, campaign, called>>
  BY DEF ExecDispatch, IInv, Shape, RunInv
<1>2. /\ exec' \in [SendReqs -> Run] /\ \A o \in SendReqs \ {r} : exec'[o] = exec[o]
      /\ exec'[r].at = "chunk" /\ exec'[r].left = exec[r].left
      /\ exec'[r].chunk = exec[r].chunk \ {x}
  BY <1>1 DEF ExecDispatch, Run
<1>3. /\ dispatched \in [Rows -> Nat]
      /\ dispatched' = [dispatched EXCEPT ![x] = @ + 1]
      /\ late \in Nat /\ late' = IF campaign.status = "paused" THEN late + 1 ELSE late
  BY DEF ExecDispatch, BoundInv, CountersTyped
<1>4. CountersTyped'
  BY <1>1, <1>3 DEF ExecDispatch, BoundInv, CountersTyped
<1>5. Begun' = Begun
  BY <1>1, <1>2 DEF Begun
<1>6. OpenInv'
  <2> SUFFICES ASSUME NEW y \in Rows
               PROVE  dispatched'[y] + Cardinality(Open(y)') <= Cardinality(Begun')
    BY DEF OpenInv
  <2>1. dispatched[y] + Cardinality(Open(y)) <= Cardinality(Begun) /\ dispatched[y] \in Nat
    BY <1>3 DEF BoundInv, OpenInv
  <2>2. CASE y = x
    <3>1. r \in Open(x) /\ Open(x)' = Open(x) \ {r}
      BY <1>1, <1>2 DEF Open, Tidy
    <3>2. Cardinality(Open(x)') = Cardinality(Open(x)) - 1
      BY <3>1, Counts, FS_RemoveElement
    <3>3. dispatched'[x] = dispatched[x] + 1
      BY <1>3
    <3> QED
      BY <1>5, <2>1, <2>2, <3>2, <3>3, Counts, CountsNext
  <2>3. CASE y # x
    <3>1. Open(y)' = Open(y)
      BY <1>1, <1>2, <2>3 DEF Open
    <3>2. dispatched'[y] = dispatched[y]
      BY <1>3, <2>3
    <3> QED
      BY <1>5, <2>1, <3>1, <3>2
  <2> QED
    BY <2>2, <2>3
<1>7. ChunkInv'
  <2>1. IsFiniteSet(exec[r].chunk)
    BY <1>1, FiniteRows, FS_Subset DEF Run
  <2>2. Cardinality(exec'[r].chunk) = Cardinality(exec[r].chunk) - 1
        /\ Cardinality(exec[r].chunk) \in Nat
    BY <1>1, <1>2, <2>1, FS_RemoveElement, FS_CardinalityType
  <2>3. Cardinality(exec[r].chunk) <= ChunkSize
    BY DEF BoundInv, ChunkInv
  <2>4. Cardinality(exec'[r].chunk) <= ChunkSize
    BY <2>2, <2>3, ChunkIsPositive
  <2>5. \A o \in SendReqs \ {r} : Cardinality(exec'[o].chunk) <= ChunkSize
    BY <1>2 DEF BoundInv, ChunkInv
  <2> QED
    BY <2>4, <2>5 DEF ChunkInv
<1>8. LateInv'
  <2> SUFFICES ASSUME campaign.status = "paused"
               PROVE  late' + Cardinality(Held') <= ChunkSize * Cardinality(SendReqs)
    BY <1>1 DEF LateInv
  <2>1. <<r, x>> \in Held /\ Held' = Held \ {<<r, x>>}
    BY <1>1, <1>2 DEF Held
  <2>2. Cardinality(Held') = Cardinality(Held) - 1
    BY <2>1, Counts, FS_RemoveElement
  <2>3. late + Cardinality(Held) <= ChunkSize * Cardinality(SendReqs) /\ late' = late + 1
    BY <1>3 DEF BoundInv, LateInv
  <2>4. ChunkSize * Cardinality(SendReqs) \in Nat
    BY Counts, ChunkIsPositive
  <2> QED
    BY <1>3, <2>2, <2>3, <2>4, Counts
<1> QED
  BY <1>4, <1>6, <1>7, <1>8 DEF BoundInv

(* A task that is queued is one more that has begun.                        *)
LEMMA QueueBound ==
  ASSUME IInv, BoundInv, NEW r \in SendReqs, SendFlush(r) \/ ExecLost(r)
  PROVE  BoundInv'
<1>1. /\ exec \in [SendReqs -> Run] /\ exec[r] \in Run /\ Tidy(exec[r])
      /\ NoExec.chunk = {} /\ NoExec.left = {} /\ NoExec.at = "none"
      /\ lost \in [SendReqs -> 0..MaxLost]
      /\ UNCHANGED <<campaign, inflight, dispatched, called, late>>
  BY DEF SendFlush, ExecLost, IInv, Shape, RunInv, NoExec, BoundInv, CountersTyped, sends
<1>2. /\ exec' \in [SendReqs -> Run] /\ \A o \in SendReqs \ {r} : exec'[o] = exec[o]
      /\ exec'[r].at = "queued" /\ exec'[r].chunk = {} /\ exec'[r].left = {}
  <2>1. CASE SendFlush(r)
    <3>1. exec[r].at = "none"
      BY <2>1 DEF SendFlush, IInv, RunInv
    <3> QED
      BY <1>1, <2>1, <3>1 DEF SendFlush, Tidy, Run, ExecStates
  <2>2. CASE ExecLost(r)
    BY <1>1, <2>2, FreshRun DEF ExecLost, IInv, NoExec
  <2> QED
    BY <2>1, <2>2
<1>3. /\ lost' \in [SendReqs -> 0..MaxLost]
      /\ Begun \subseteq Begun' /\ \E t \in Begun' : t \notin Begun
  <2>1. CASE SendFlush(r)
    <3>1. exec[r].at = "none" /\ lost' = lost
      BY <2>1 DEF SendFlush, IInv, RunInv
    <3>2. <<r, 0>> \in Begun' /\ <<r, 0>> \notin Begun
      BY <1>1, <1>2, <3>1, LostIsNat DEF Begun
    <3> QED
      BY <1>1, <1>2, <3>1, <3>2 DEF Begun
  <2>2. CASE ExecLost(r)
    <3>1. /\ exec[r].at # "none" /\ lost[r] < MaxLost
          /\ lost' = [lost EXCEPT ![r] = @ + 1]
      BY <2>2 DEF ExecLost
    <3>2. lost[r] \in Nat /\ lost'[r] = lost[r] + 1 /\ lost[r] + 1 \in 0..MaxLost
      BY <1>1, <3>1, LostIsNat
    <3>3. \A o \in SendReqs \ {r} : lost'[o] = lost[o]
      BY <1>1, <3>1
    <3>4. <<r, lost[r] + 1>> \in Begun' /\ <<r, lost[r] + 1>> \notin Begun
      BY <1>2, <3>2 DEF Begun
    <3>5. Begun \subseteq Begun'
      BY <1>2, <3>2, <3>3 DEF Begun
    <3>6. lost' \in [SendReqs -> 0..MaxLost]
      BY <1>1, <3>1, <3>2
    <3> QED
      BY <3>4, <3>5, <3>6
  <2> QED
    BY <2>1, <2>2
<1>4. CountersTyped'
  BY <1>1, <1>3 DEF BoundInv, CountersTyped
<1>5. Cardinality(Begun) + 1 <= Cardinality(Begun')
  <2>1. PICK t \in Begun' : t \notin Begun
    BY <1>3
  <2>2. Begun \cup {t} \in SUBSET Begun' /\ Cardinality(Begun \cup {t}) = Cardinality(Begun) + 1
    BY <1>3, <2>1, Counts, FS_AddElement
  <2> QED
    BY <2>2, CountsNext, FS_Subset
<1>6. OpenInv'
  <2> SUFFICES ASSUME NEW x \in Rows
               PROVE  dispatched'[x] + Cardinality(Open(x)') <= Cardinality(Begun')
    BY DEF OpenInv
  <2>1. Open(x)' \in SUBSET (Open(x) \cup {r})
    BY <1>2 DEF Open
  <2>2. /\ IsFiniteSet(Open(x) \cup {r})
        /\ Cardinality(Open(x) \cup {r}) \in Nat
        /\ Cardinality(Open(x) \cup {r}) <= Cardinality(Open(x)) + 1
    <3>1. IsFiniteSet(Open(x)) /\ Cardinality(Open(x)) \in Nat
      BY Counts
    <3>2. /\ IsFiniteSet(Open(x) \cup {r})
          /\ Cardinality(Open(x) \cup {r}) =
                IF r \in Open(x) THEN Cardinality(Open(x)) ELSE Cardinality(Open(x)) + 1
      BY <3>1, FS_AddElement
    <3> QED
      BY <3>1, <3>2
  <2>3. Cardinality(Open(x)') <= Cardinality(Open(x) \cup {r})
    BY <2>1, <2>2, FS_Subset
  <2>4. dispatched[x] + Cardinality(Open(x)) <= Cardinality(Begun) /\ dispatched[x] \in Nat
    BY DEF BoundInv, OpenInv, CountersTyped
  <2>5. dispatched'[x] = dispatched[x]
    BY <1>1
  <2> QED
    BY <1>5, <2>2, <2>3, <2>4, <2>5, Counts, CountsNext
<1>7. ChunkInv'
  <2>1. Cardinality({}) <= ChunkSize
    BY ChunkIsPositive, FS_EmptySet
  <2>2. Cardinality(exec'[r].chunk) <= ChunkSize
    BY <1>2, <2>1
  <2>3. \A o \in SendReqs \ {r} : Cardinality(exec'[o].chunk) <= ChunkSize
    BY <1>2 DEF BoundInv, ChunkInv
  <2> QED
    BY <2>2, <2>3 DEF ChunkInv
<1>8. LateInv'
  <2> SUFFICES ASSUME campaign.status = "paused"
               PROVE  late + Cardinality(Held') <= ChunkSize * Cardinality(SendReqs)
    BY <1>1 DEF LateInv
  <2>1. Held' \subseteq Held
    BY <1>2 DEF Held
  <2>2. Cardinality(Held') <= Cardinality(Held)
    BY <2>1, SubsetCounts
  <2>3. late + Cardinality(Held) <= ChunkSize * Cardinality(SendReqs) /\ late \in Nat
    BY DEF BoundInv, LateInv, CountersTyped
  <2>4. ChunkSize * Cardinality(SendReqs) \in Nat
    BY Counts, ChunkIsPositive
  <2> QED
    BY <2>2, <2>3, <2>4, Counts, CountsNext
<1> QED
  BY <1>4, <1>6, <1>7, <1>8 DEF BoundInv

(* All chunks together: each task numbers what it holds by 1..ChunkSize.    *)
LEMMA HeldBound ==
  ASSUME IInv, ChunkInv PROVE Cardinality(Held) <= ChunkSize * Cardinality(SendReqs)
<1> DEFINE N == 1..ChunkSize
           Numbers(r) == Injection(exec[r].chunk, N)
           num == [r \in SendReqs |-> CHOOSE f \in Numbers(r) : TRUE]
           g == [t \in Held |-> <<t[1], num[t[1]][t[2]]>>]
<1>1. IsFiniteSet(N) /\ Cardinality(N) = ChunkSize
  BY ChunkIsPositive, FS_Interval
<1>2. ASSUME NEW r \in SendReqs PROVE Numbers(r) # {}
  <2> DEFINE n == Cardinality(exec[r].chunk)
  <2>1. IsFiniteSet(exec[r].chunk)
    BY FiniteRows, FS_Subset DEF IInv, Shape, Run
  <2>2. n \in Nat /\ ExistsBijection(1..n, exec[r].chunk) /\ n <= ChunkSize
    BY <2>1, FS_CardinalityType DEF ChunkInv
  <2>3. PICK b \in Bijection(exec[r].chunk, 1..n) : TRUE
    BY <2>2, Fun_ExistsBijSymmetric DEF ExistsBijection
  <2>4. 1..n \subseteq N
    BY <2>2, ChunkIsPositive
  <2>5. b \in Injection(exec[r].chunk, N)
    BY <2>3, <2>4 DEF Bijection, Injection
  <2> QED
    BY <2>5
<1>3. \A r \in SendReqs : num[r] \in Injection(exec[r].chunk, N)
  BY <1>2
<1> HIDE DEF num, N
<1>4. g \in [Held -> SendReqs \X N]
  BY <1>3 DEF Held, Injection
<1>5. ASSUME NEW t \in Held, NEW u \in Held, g[t] = g[u] PROVE t = u
  <2>1. t[1] = u[1] /\ num[t[1]][t[2]] = num[t[1]][u[2]]
    BY <1>5
  <2>2. t[1] \in SendReqs /\ t[2] \in exec[t[1]].chunk /\ u[2] \in exec[t[1]].chunk
        /\ t = <<t[1], t[2]>> /\ u = <<u[1], u[2]>>
    BY <2>1 DEF Held
  <2>3. t[2] = u[2]
    BY <1>3, <2>1, <2>2 DEF Injection, IsInjective
  <2> QED
    BY <2>1, <2>2, <2>3
<1> HIDE DEF g
<1>6. g \in Injection(Held, SendReqs \X N)
  BY <1>4, <1>5 DEF Injection, IsInjective
<1>7. IsFiniteSet(SendReqs \X N)
      /\ Cardinality(SendReqs \X N) = Cardinality(SendReqs) * ChunkSize
  BY <1>1, SendsFinite, FS_Product
<1>8. Cardinality(Held) <= Cardinality(SendReqs) * ChunkSize
  BY <1>6, <1>7, FS_Injection
<1> QED
  BY <1>8, Counts, ChunkIsPositive

LEMMA PauseBound ==
  ASSUME IInv, BoundInv, NEW p \in PauseReqs, PauseCommit(p)
  PROVE  BoundInv'
<1>1. UNCHANGED <<exec, lost, inflight, dispatched, called>> /\ late' = 0
  BY DEF PauseCommit
<1>2. Cardinality(Held) <= ChunkSize * Cardinality(SendReqs)
  BY HeldBound DEF BoundInv
<1>3. Held' = Held /\ Begun' = Begun /\ \A x : Open(x)' = Open(x)
  BY <1>1 DEF Held, Begun, Open
<1>4. LateInv'
  BY <1>1, <1>2, <1>3, Counts DEF LateInv
<1>5. CountersTyped' /\ ChunkInv'
  BY <1>1 DEF BoundInv, CountersTyped, ChunkInv
<1>6. OpenInv'
  BY <1>1, <1>3 DEF BoundInv, OpenInv
<1> QED
  BY <1>4, <1>5, <1>6 DEF BoundInv

LEMMA BoundInit == Init => BoundInv
<1> SUFFICES ASSUME Init PROVE BoundInv
  OBVIOUS
<1>1. CountersTyped
  BY LostIsNat DEF Init, CountersTyped
<1>2. \A x \in Rows : Open(x) = {}
  BY DEF Init, Open, NoExec
<1>3. OpenInv
  BY <1>2, Counts, FS_EmptySet DEF Init, OpenInv
<1>4. ChunkInv
  <2>1. \A r \in SendReqs : exec[r].chunk = {}
    BY DEF Init, NoExec
  <2>2. Cardinality({}) <= ChunkSize
    BY ChunkIsPositive, FS_EmptySet
  <2> QED
    BY <2>1, <2>2 DEF ChunkInv
<1>5. LateInv
  BY DEF Init, LateInv
<1> QED
  BY <1>1, <1>3, <1>4, <1>5 DEF BoundInv

LEMMA BoundNext == ASSUME IInv, BoundInv, [Next]_vars PROVE BoundInv'
<1>0. inflight \in [Rows -> Nat] /\ called \in [Rows -> Nat]
  BY DEF BoundInv, CountersTyped
<1>1. ASSUME NEW r \in SendReqs, SendCheck(r) \/ SendCommit(r) \/ SendAbort(r)
      PROVE  BoundInv'
  <2>1. UNCHANGED <<exec, lost, inflight, dispatched, called, late>>
    BY <1>1 DEF SendCheck, SendCommit, SendAbort, sends
  <2>2. campaign'.status = "paused" => campaign.status = "paused"
    BY <1>1 DEF SendCheck, SendCommit, SendAbort, IInv, Shape
  <2> QED
    BY <1>0, <2>1, <2>2, OutsideBound
<1>2. ASSUME NEW p \in PauseReqs, PauseCheck(p) PROVE BoundInv'
  BY <1>0, <1>2, OutsideBound DEF PauseCheck, sends
<1>3. ASSUME NEW d \in DeleteReqs, DeleteCheck(d) \/ DeleteCommit(d) PROVE BoundInv'
  <2>1. UNCHANGED <<exec, lost, inflight, dispatched, called, late>>
    BY <1>3 DEF DeleteCheck, DeleteCommit, sends
  <2>2. campaign'.status = "paused" => campaign.status = "paused"
    BY <1>3 DEF DeleteCheck, DeleteCommit, IInv, Shape
  <2> QED
    BY <1>0, <2>1, <2>2, OutsideBound
<1>4. ASSUME NEW x \in Rows, SendTask(x) PROVE BoundInv'
  <2>1. inflight' \in [Rows -> Nat] /\ called' \in [Rows -> Nat]
    BY <1>0, <1>4 DEF SendTask
  <2> QED
    BY <1>4, <2>1, OutsideBound DEF SendTask
<1>5. ASSUME NEW r \in SendReqs, Inner(r) PROVE BoundInv'
  <2>1. UNCHANGED <<inflight, called>>
    BY <1>5 DEF Inner, ExecLoad, ExecFail, ExecCheck, ExecCommitChunk, ExecStats, ExecAck,
                ExecRaises, ExecDispatchFails, ExecSkip, sends
  <2> QED
    BY <1>5, <2>1, InnerSmaller, InnerBound
<1>6. CASE UNCHANGED vars
  BY <1>0, <1>6, OutsideBound DEF vars
<1> QED
  BY <1>1, <1>2, <1>3, <1>4, <1>5, <1>6, DispatchBound, QueueBound, PauseBound
  DEF Next, ExecStep, Inner

(* Every reachable state is well typed.                                     *)
THEOREM TypeCorrect == Spec => []TypeOK
<1>1. Init => IInv /\ BoundInv
  BY InitInv, BoundInit
<1>2. IInv /\ BoundInv /\ [Next]_vars => (IInv /\ BoundInv)'
  BY NextInv, BoundNext
<1>3. IInv /\ BoundInv => TypeOK
  BY DEF IInv, Shape, BoundInv, CountersTyped, TypeOK, Run
<1> QED
  BY <1>1, <1>2, <1>3, PTL DEF Spec

(* A recipient is dispatched at most once each time a task begins, and once *)
(* a pause is committed each task finishes its chunk and nothing else: with *)
(* NotResent, all that dispatching promises.                                *)
THEOREM DispatchCorrect == Spec => DispatchSound
<1>1. Init => IInv /\ BoundInv
  BY InitInv, BoundInit
<1>2. IInv /\ BoundInv /\ [Next]_vars => (IInv /\ BoundInv)'
  BY NextInv, BoundNext
<1>3. IInv /\ BoundInv => DispatchesBounded /\ PauseStopsDispatch
  <2> SUFFICES ASSUME IInv, BoundInv PROVE DispatchesBounded /\ PauseStopsDispatch
    OBVIOUS
  <2>1. ASSUME NEW x \in Rows PROVE dispatched[x] <= Cardinality(Begun)
    <3>1. dispatched[x] + Cardinality(Open(x)) <= Cardinality(Begun) /\ dispatched[x] \in Nat
      BY DEF BoundInv, OpenInv, CountersTyped
    <3> QED
      BY <3>1, Counts
  <2>2. ASSUME campaign.status = "paused" PROVE late <= ChunkSize * Cardinality(SendReqs)
    <3>1. late + Cardinality(Held) <= ChunkSize * Cardinality(SendReqs) /\ late \in Nat
      BY <2>2 DEF BoundInv, LateInv, CountersTyped
    <3>2. ChunkSize * Cardinality(SendReqs) \in Nat
      BY Counts, ChunkIsPositive
    <3> QED
      BY <3>1, <3>2, Counts
  <2> QED
    BY <2>1, <2>2 DEF DispatchesBounded, PauseStopsDispatch
<1> QED
  BY <1>1, <1>2, <1>3, NotResent, PTL DEF Spec, DispatchSound

-----------------------------------------------------------------------------
(* What is counted *)

(* The check before a chunk keeps what was counted, or ends the task.       *)
LEMMA CheckKeeps ==
  ASSUME IInv, NEW r \in SendReqs, ExecCheck(r)
  PROVE  \/ campaign.status = "deleted" /\ exec'[r] = Raised
         \/ /\ exec'[r].at \in {"chunk", "stats"} /\ exec'[r].ok = exec[r].ok
            /\ exec'[r].bad = exec[r].bad /\ exec'[r].sent = exec[r].sent
            /\ exec'[r].failed = exec[r].failed
<1>1. exec \in [SendReqs -> Run] /\ exec[r] \in Run
  BY DEF IInv, Shape
<1>2. CASE campaign.status = "sending"
  <2>1. PICK c : exec' = [exec EXCEPT ![r].at = "chunk", ![r].chunk = c, ![r].left = @ \ c]
    BY <1>2 DEF ExecCheck
  <2> QED
    BY <1>1, <2>1 DEF Run
<1>3. CASE campaign.status = "deleted"
  <2>1. exec' = [exec EXCEPT ![r] = Raised]
    BY <1>3 DEF ExecCheck
  <2> QED
    BY <1>1, <1>3, <2>1
<1>4. CASE campaign.status \notin {"sending", "deleted"}
  <2>1. exec' = [exec EXCEPT ![r] = [@ EXCEPT !.at = "stats", !.left = {},
                                              !.seen = campaign.status]]
    BY <1>4 DEF ExecCheck
  <2> QED
    BY <1>1, <2>1 DEF Run
<1> QED
  BY <1>2, <1>3, <1>4

LEMMA CalmInit == Init => CalmInv
  BY DEF Init, CalmInv, Locked, NoExec, Requests

LEMMA CalmNext == ASSUME IInv, CalmInv, [Next]_vars PROVE CalmInv'
<1> DEFINE Free == Locked => campaign.status # "deleted"
           Untouched == (\A r \in SendReqs : exec[r].at = "none") => \A x \in Rows : recs[x] = "none"
           Apart == \A r \in SendReqs : exec[r].ok \cap exec[r].bad = {}
<1>0. /\ req \in [Requests -> {"idle", "checked", "flushed", "done", "aborted"}]
      /\ SendReqs \subseteq Requests /\ PauseReqs \subseteq Requests
      /\ DeleteReqs \subseteq Requests
      /\ exec \in [SendReqs -> Run] /\ \A r \in SendReqs : exec[r] \in Run /\ Tidy(exec[r])
      /\ campaign \in [status : Statuses, total : 0..Cardinality(Contacts),
                        sent : Nat, failed : Nat, delivered : Nat]
      /\ Free /\ Untouched /\ Apart
  BY DEF IInv, Shape, RunInv, Requests, CalmInv
<1>1. ASSUME UNCHANGED <<campaign, recs, req, exec>> PROVE CalmInv'
  BY <1>1 DEF CalmInv, Locked
<1>2. ASSUME NEW r \in SendReqs, SendCheck(r) \/ SendAbort(r) PROVE CalmInv'
  <2>1. UNCHANGED <<campaign, recs, exec>> /\ \A o \in SendReqs : req'[o] = "flushed" => req[o] = "flushed"
    BY <1>0, <1>2 DEF SendCheck, SendAbort
  <2> QED
    BY <1>0, <2>1 DEF CalmInv, Locked
<1>3. ASSUME NEW r \in SendReqs, SendFlush(r) PROVE CalmInv'
  <2>1. campaign.status # "deleted" /\ UNCHANGED <<campaign, recs>>
        /\ \A o \in SendReqs : exec'[o].ok = exec[o].ok /\ exec'[o].bad = exec[o].bad
        /\ exec'[r].at = "queued"
    BY <1>0, <1>3 DEF SendFlush, Run
  <2> QED
    BY <1>0, <2>1 DEF CalmInv
<1>4. ASSUME NEW r \in SendReqs, SendCommit(r) PROVE CalmInv'
  <2>1. campaign'.status = "sending" /\ UNCHANGED exec /\ exec[r].at # "none"
    BY <1>0, <1>4 DEF SendCommit, IInv, RunInv
  <2> QED
    BY <1>0, <2>1 DEF CalmInv
<1>5. ASSUME NEW p \in PauseReqs, PauseCheck(p) \/ PauseCommit(p) PROVE CalmInv'
  <2>1. /\ UNCHANGED <<recs, exec>> /\ \A o \in SendReqs : req'[o] = req[o]
        /\ campaign'.status = "deleted" => campaign.status = "deleted"
    BY <1>0, <1>5, RequestsDisjoint DEF PauseCheck, PauseCommit
  <2> QED
    BY <1>0, <2>1 DEF CalmInv, Locked
<1>6. ASSUME NEW d \in DeleteReqs, DeleteCheck(d) \/ DeleteCommit(d) PROVE CalmInv'
  <2>1. UNCHANGED exec /\ \A o \in SendReqs : req'[o] = req[o]
    BY <1>0, <1>6, RequestsDisjoint DEF DeleteCheck, DeleteCommit
  <2>2. CASE DeleteCheck(d)
    BY <1>0, <2>1, <2>2 DEF DeleteCheck, CalmInv, Locked
  <2>3. CASE DeleteCommit(d)
    BY <1>0, <2>1, <2>3 DEF DeleteCommit, CalmInv, Locked
  <2> QED
    BY <1>6, <2>2, <2>3
<1>7. ASSUME NEW r \in SendReqs, UNCHANGED req,
             exec[r].at # "none", \A o \in SendReqs \ {r} : exec'[o] = exec[o],
             campaign'.status = "deleted" => campaign.status = "deleted",
             exec'[r].at # "none", exec'[r].ok \cap exec'[r].bad = {}
      PROVE  CalmInv'
  <2>1. Locked' <=> Locked
    BY <1>7 DEF Locked
  <2> QED
    BY <1>0, <1>7, <2>1 DEF CalmInv
<1>8. ASSUME NEW r \in SendReqs, Inner(r) PROVE CalmInv'
  <2>1. Smaller(r) /\ UNCHANGED req
    BY <1>8, InnerSmaller DEF Inner, ExecLoad, ExecFail, ExecCheck, ExecCommitChunk, ExecStats,
                              ExecAck, ExecRaises, ExecDispatchFails, ExecSkip, handlers
  <2>2. campaign'.status = "deleted" => campaign.status = "deleted"
    <3>1. CASE ExecFail(r)
      <4>1. campaign' = [campaign EXCEPT !.status = IF @ = "deleted" THEN @ ELSE "failed"]
        BY <3>1 DEF ExecFail
      <4> QED
        BY <1>0, <4>1
    <3>2. CASE ExecStats(r)
      <4> DEFINE s == IF exec[r].seen = "sending" THEN "sent" ELSE campaign.status
      <4>1. campaign' = campaign \/ campaign' = [campaign EXCEPT !.sent = exec[r].sent,
                !.failed = exec[r].failed, !.delivered = exec[r].sent, !.status = s]
        BY <3>2 DEF ExecStats
      <4>2. s = "deleted" => campaign.status = "deleted"
        OBVIOUS
      <4> HIDE DEF s
      <4> QED
        BY <1>0, <4>1, <4>2
    <3>3. ASSUME ~ExecFail(r), ~ExecStats(r) PROVE UNCHANGED campaign
      BY <1>8, <3>3 DEF Inner, ExecLoad, ExecCheck, ExecCommitChunk, ExecAck, ExecRaises,
                        ExecDispatchFails, ExecSkip
    <3> QED
      BY <3>1, <3>2, <3>3
  <2>3. exec'[r].ok \cap exec'[r].bad = {}
    <3>0. Over.ok = {} /\ Raised.ok = {} /\ NoExec.ok = {} /\ exec[r].ok \cap exec[r].bad = {}
      BY <1>0 DEF Over, Raised, NoExec
    <3>1. CASE ExecLoad(r)
      <4>1. PICK e \in {Over, [NoExec EXCEPT !.at = "failing"],
                        [NoExec EXCEPT !.at = "chunking", !.left = Pending]} :
               exec' = [exec EXCEPT ![r] = e]
        BY <3>1 DEF ExecLoad, Over, NoExec
      <4>2. e.ok = {}
        BY <4>1 DEF Over, NoExec
      <4> QED
        BY <1>0, <4>1, <4>2
    <3>2. CASE ExecFail(r) \/ ExecStats(r)
      BY <1>0, <3>0, <3>2 DEF ExecFail, ExecStats
    <3>3. CASE ExecCheck(r) \/ ExecAck(r)
      <4>1. exec[r].ok = {}
        BY <1>0, <3>3 DEF ExecCheck, ExecAck, Tidy
      <4>2. exec'[r].ok \in {Raised.ok, exec[r].ok}
        <5>1. CASE ExecAck(r)
          BY <1>0, <5>1 DEF ExecAck, Run
        <5>2. CASE ExecCheck(r)
          BY <3>0, <5>2, CheckKeeps
        <5> QED
          BY <3>3, <5>1, <5>2
      <4> QED
        BY <3>0, <4>1, <4>2
    <3>4. CASE ExecCommitChunk(r)
      <4>1. CASE exec' = [exec EXCEPT ![r] = Raised]
        BY <1>0, <3>0, <4>1
      <4>2. CASE exec' = [exec EXCEPT ![r].at = IF exec[r].left = {} THEN "stats" ELSE "chunking",
                                      ![r].ok = {}, ![r].bad = {}]
        BY <1>0, <4>2 DEF Run
      <4> QED
        BY <3>4, <4>1, <4>2 DEF ExecCommitChunk
    <3>5. ASSUME NEW x \in Rows, ExecDispatchFails(r, x) \/ ExecSkip(r, x)
          PROVE  exec'[r].ok \cap exec'[r].bad = {}
      <4>1. x \notin exec[r].ok
        BY <1>0, <3>5 DEF ExecDispatchFails, ExecSkip, Tidy
      <4>2. exec'[r].ok = exec[r].ok /\ exec'[r].bad \in {exec[r].bad, exec[r].bad \cup {x}}
        BY <1>0, <3>5 DEF ExecDispatchFails, ExecSkip, Run
      <4> QED
        BY <3>0, <4>1, <4>2
    <3>6. CASE ExecRaises(r)
      BY <1>0, <3>0, <3>6 DEF ExecRaises
    <3> QED
      BY <1>8, <3>1, <3>2, <3>3, <3>4, <3>5, <3>6 DEF Inner
  <2> QED
    BY <1>7, <2>1, <2>2, <2>3 DEF Smaller
<1>9. ASSUME NEW r \in SendReqs, NEW x \in Rows, ExecDispatch(r, x) PROVE CalmInv'
  <2>1. x \notin exec[r].bad /\ exec[r].at = "chunk" /\ UNCHANGED <<req, campaign>>
    BY <1>0, <1>9 DEF ExecDispatch, Tidy, handlers
  <2>2. /\ exec'[r].at = "chunk" /\ exec'[r].bad = exec[r].bad
        /\ exec'[r].ok = exec[r].ok \cup {x}
        /\ \A o \in SendReqs \ {r} : exec'[o] = exec[o]
    BY <1>0, <1>9 DEF ExecDispatch, Run
  <2> QED
    BY <1>0, <1>7, <2>1, <2>2
<1>10. ASSUME NEW r \in SendReqs, ExecLost(r) PROVE CalmInv'
  <2>1. exec[r].at # "none" /\ UNCHANGED <<req, campaign>>
        /\ exec' = [exec EXCEPT ![r] = [NoExec EXCEPT !.at = "queued"]]
    BY <1>10 DEF ExecLost, handlers
  <2>2. exec'[r].at = "queued" /\ exec'[r].ok = {}
        /\ \A o \in SendReqs \ {r} : exec'[o] = exec[o]
    BY <1>0, <2>1 DEF NoExec
  <2> QED
    BY <1>7, <2>1, <2>2
<1>11. ASSUME NEW x \in Rows, SendTask(x) PROVE CalmInv'
  BY <1>1, <1>11 DEF SendTask, handlers
<1>12. CASE UNCHANGED vars
  BY <1>1, <1>12 DEF vars, handlers
<1> QED
  BY <1>2, <1>3, <1>4, <1>5, <1>6, <1>8, <1>9, <1>10, <1>11, <1>12 DEF Next, ExecStep, Inner

LEMMA MarkedFinite ==
  ASSUME NEW S \in SUBSET Rows PROVE IsFiniteSet(S) /\ Cardinality(S) \in Nat
  BY FiniteRows, FS_Subset, FS_CardinalityType

LEMMA MarkedRows == \A s : Marked(s) \in SUBSET Rows
  BY DEF Marked

(* A step of the only task before it writes the campaign.                   *)
LEMMA CountStep ==
  ASSUME IInv, CountInv, NEW r \in SendReqs, exec[r].at # "none", exec'[r].at # "none",
         \A o \in SendReqs \ {r} : exec'[o] = exec[o], UNCHANGED lost,
         campaign'.status = "deleted" \/ campaign.status # "deleted",
         SingleTask /\ NoneLost /\ campaign.status # "deleted" /\ Counted(exec[r])
            => Counted(exec[r])'
  PROVE  CountInv'
<1> SUFFICES ASSUME SingleTask', NoneLost', (campaign.status # "deleted")'
             PROVE  Counted(exec[r])'
  BY DEF CountInv, SingleTask
<1>1. SingleTask /\ NoneLost /\ campaign.status # "deleted"
  BY StillSingle DEF NoneLost
<1> QED
  BY <1>1 DEF CountInv

LEMMA CountInner ==
  ASSUME IInv, CalmInv, CountInv, NEW r \in SendReqs,
         ExecLoad(r) \/ ExecCheck(r) \/ ExecAck(r) \/ ExecRaises(r)
  PROVE  CountInv'
<1>0. Smaller(r)
  BY InnerSmaller DEF Inner
<1>1. UNCHANGED <<campaign, recs>> /\ exec \in [SendReqs -> Run] /\ exec[r] \in Run
      /\ Tidy(exec[r])
  BY DEF ExecLoad, ExecCheck, ExecAck, ExecRaises, IInv, Shape, RunInv
<1> SUFFICES ASSUME campaign.status # "deleted", Counted(exec[r]) PROVE Counted(exec[r])'
  BY <1>0, <1>1, CountStep DEF Smaller
<1>2. \A s : Marked(s)' = Marked(s)
  BY <1>1 DEF Marked
<1>3. CASE ExecLoad(r)
  <2>1. PICK e \in {Over, [NoExec EXCEPT !.at = "failing"],
                    [NoExec EXCEPT !.at = "chunking", !.left = Pending]} :
           exec' = [exec EXCEPT ![r] = e]
    BY <1>3 DEF ExecLoad, Over, NoExec
  <2>2. /\ e.at \in {"acking", "failing", "chunking"} /\ e.ok = {} /\ e.bad = {}
        /\ e.sent = 0 /\ e.failed = 0
    BY <2>1 DEF Over, NoExec
  <2>3. Marked("sent") = {} /\ Marked("failed") = {} /\ campaign.status # "sent"
    BY <1>3 DEF ExecLoad, Counted
  <2>4. exec'[r] = e
    BY <1>1, <2>1
  <2> QED
    BY <1>1, <1>2, <2>2, <2>3, <2>4, FS_EmptySet DEF Counted
<1>4. CASE ExecCheck(r)
  <2>1. exec[r].at = "chunking" /\ campaign.status # "sent"
    BY <1>4 DEF ExecCheck, Counted
  <2>2. /\ exec'[r].at \in {"chunk", "stats"} /\ exec'[r].ok = exec[r].ok
        /\ exec'[r].bad = exec[r].bad /\ exec'[r].sent = exec[r].sent
        /\ exec'[r].failed = exec[r].failed
    BY <1>4, CheckKeeps
  <2> QED
    BY <1>1, <1>2, <2>1, <2>2 DEF Counted
<1>5. CASE ExecAck(r)
  <2>1. exec[r].at \in {"acking", "raised"} /\ exec'[r].at = "finished"
    BY <1>1, <1>5 DEF ExecAck, Run
  <2> QED
    BY <1>1, <1>2, <2>1 DEF Counted
<1>6. CASE ExecRaises(r)
  <2>1. exec[r].at \notin {"acking", "finished"} /\ exec'[r].at = "raised"
    BY <1>1, <1>6 DEF ExecRaises, Raised, NoExec
  <2>2. campaign.status # "sent"
    BY <2>1 DEF Counted
  <2> QED
    BY <1>1, <2>1, <2>2 DEF Counted
<1> QED
  BY <1>3, <1>4, <1>5, <1>6

LEMMA CountDispatch ==
  ASSUME IInv, CalmInv, CountInv, NEW r \in SendReqs, NEW x \in Rows,
         ExecDispatch(r, x) \/ ExecDispatchFails(r, x) \/ ExecSkip(r, x)
  PROVE  CountInv'
<1>1. /\ exec[r].at = "chunk" /\ x \in exec[r].chunk
      /\ UNCHANGED <<campaign, recs, lost>> /\ exec \in [SendReqs -> Run]
      /\ exec[r] \in Run /\ Tidy(exec[r])
  BY DEF ExecDispatch, ExecDispatchFails, ExecSkip, IInv, Shape, RunInv
<1>2. /\ \A o \in SendReqs \ {r} : exec'[o] = exec[o]
      /\ exec'[r].at = "chunk"
      /\ \/ /\ exec'[r].ok = exec[r].ok \cup {x} /\ exec'[r].sent = exec[r].sent + 1
            /\ exec'[r].bad = exec[r].bad /\ exec'[r].failed = exec[r].failed
         \/ /\ exec'[r].bad = exec[r].bad \cup {x} /\ exec'[r].failed = exec[r].failed + 1
            /\ exec'[r].ok = exec[r].ok /\ exec'[r].sent = exec[r].sent
         \/ /\ exec'[r].ok = exec[r].ok /\ exec'[r].sent = exec[r].sent
            /\ exec'[r].bad = exec[r].bad /\ exec'[r].failed = exec[r].failed
  <2>1. CASE ExecDispatch(r, x)
    BY <1>1, <2>1 DEF ExecDispatch, Run
  <2>2. CASE ExecDispatchFails(r, x)
    BY <1>1, <2>2 DEF ExecDispatchFails, Run
  <2>3. CASE ExecSkip(r, x)
    BY <1>1, <2>3 DEF ExecSkip, Run
  <2> QED
    BY <2>1, <2>2, <2>3
<1> SUFFICES ASSUME SingleTask, campaign.status # "deleted", Counted(exec[r])
             PROVE  Counted(exec[r])'
  BY <1>1, <1>2, CountStep
<1>3. \A s : Marked(s)' = Marked(s)
  BY <1>1 DEF Marked
<1>4. campaign.status # "sent"
  BY <1>1 DEF Counted
<1>5. x \notin Marked("sent") \cup exec[r].ok /\ x \notin Marked("failed") \cup exec[r].bad
  <2>1. recs[x] \in {"pending", "none"}
    BY <1>1, KnowsNow DEF Knows, Holds
  <2> QED
    BY <1>1, <2>1 DEF Marked, Tidy
<1>6. /\ Marked("sent") \cup exec[r].ok \in SUBSET Rows
      /\ Marked("failed") \cup exec[r].bad \in SUBSET Rows
  BY <1>1 DEF Run, Marked
<1>7. \A S \in SUBSET Rows : x \notin S => Cardinality(S \cup {x}) = Cardinality(S) + 1
  BY MarkedFinite, FS_AddElement
<1>8. /\ Cardinality((Marked("sent") \cup exec[r].ok) \cup {x})
            = Cardinality(Marked("sent") \cup exec[r].ok) + 1
      /\ Cardinality((Marked("failed") \cup exec[r].bad) \cup {x})
            = Cardinality(Marked("failed") \cup exec[r].bad) + 1
  BY <1>5, <1>6, <1>7
<1>9. /\ Marked("sent") \cup (exec[r].ok \cup {x}) = (Marked("sent") \cup exec[r].ok) \cup {x}
      /\ Marked("failed") \cup (exec[r].bad \cup {x}) = (Marked("failed") \cup exec[r].bad) \cup {x}
  OBVIOUS
<1>10. /\ exec[r].sent = Cardinality(Marked("sent") \cup exec[r].ok)
       /\ exec[r].failed = Cardinality(Marked("failed") \cup exec[r].bad)
  BY <1>1 DEF Counted
<1> QED
  BY <1>1, <1>2, <1>3, <1>4, <1>8, <1>9, <1>10 DEF Counted

LEMMA CountChunk ==
  ASSUME IInv, CalmInv, CountInv, NEW r \in SendReqs, ExecCommitChunk(r)
  PROVE  CountInv'
<1> DEFINE e == exec[r]
<1>1. /\ e.at = "chunk" /\ UNCHANGED <<campaign, lost>> /\ exec \in [SendReqs -> Run]
      /\ e \in Run /\ Tidy(e) /\ e.ok \cap e.bad = {} /\ recs \in [Rows -> RecStatuses]
  BY DEF ExecCommitChunk, IInv, Shape, RunInv, CalmInv
<1>2. Smaller(r)
  BY InnerSmaller DEF Inner
<1> SUFFICES ASSUME SingleTask, campaign.status # "deleted", Counted(e) PROVE Counted(exec[r])'
  BY <1>1, <1>2, CountStep DEF Smaller
<1>3. campaign.status # "sent"
  BY <1>1 DEF Counted
<1>4. CASE exec' = [exec EXCEPT ![r] = Raised]
  <2>1. exec'[r].at = "raised"
    BY <1>1, <1>4 DEF Raised, NoExec
  <2> QED
    BY <1>1, <1>3, <2>1 DEF Counted
<1>5. ASSUME exec' = [exec EXCEPT ![r].at = IF e.left = {} THEN "stats" ELSE "chunking",
                                  ![r].ok = {}, ![r].bad = {}],
             recs' = [x \in Rows |-> CASE x \in e.ok -> "sent"
                                       [] x \in e.bad -> "failed"
                                       [] OTHER -> recs[x]]
      PROVE  Counted(exec[r])'
  <2>1. /\ exec'[r].at \in {"stats", "chunking"} /\ exec'[r].ok = {} /\ exec'[r].bad = {}
        /\ exec'[r].sent = e.sent /\ exec'[r].failed = e.failed
    BY <1>1, <1>5 DEF Run
  <2>2. \A x \in e.ok \cup e.bad : recs[x] \in {"pending", "none"}
    BY <1>1, KnowsNow DEF Knows, Holds
  <2>3. \A x \in Rows : recs'[x] = IF x \in e.ok THEN "sent"
                                    ELSE IF x \in e.bad THEN "failed" ELSE recs[x]
    BY <1>1, <1>5
  <2>4. /\ Marked("sent")' = Marked("sent") \cup e.ok
        /\ Marked("failed")' = Marked("failed") \cup e.bad
    BY <1>1, <2>2, <2>3 DEF Marked, Run
  <2> QED
    BY <1>1, <1>3, <2>1, <2>4 DEF Counted
<1> QED
  BY <1>4, <1>5 DEF ExecCommitChunk

LEMMA CountWrites ==
  ASSUME IInv, CalmInv, CountInv, NEW r \in SendReqs, ExecFail(r) \/ ExecStats(r)
  PROVE  CountInv'
<1>1. /\ UNCHANGED <<recs, lost>> /\ exec' = [exec EXCEPT ![r] = Over]
      /\ exec \in [SendReqs -> Run] /\ exec[r] \in Run /\ Tidy(exec[r])
      /\ exec[r].at \in {"failing", "stats"}
      /\ campaign \in [status : Statuses, total : 0..Cardinality(Contacts),
                        sent : Nat, failed : Nat, delivered : Nat]
  BY DEF ExecFail, ExecStats, IInv, Shape, RunInv
<1>2. exec'[r] = Over /\ Over.at = "acking" /\ \A o \in SendReqs \ {r} : exec'[o] = exec[o]
  BY <1>1 DEF Over, NoExec
<1>3. campaign.status = "deleted" => campaign'.status = "deleted"
  BY <1>1 DEF ExecFail, ExecStats
<1> SUFFICES ASSUME SingleTask, campaign.status # "deleted", Counted(exec[r])
             PROVE  Counted(exec[r])'
  BY <1>1, <1>2, <1>3, CountStep
<1>4. \A s : Marked(s)' = Marked(s)
  BY <1>1 DEF Marked
<1>5. campaign.status # "sent"
  BY <1>1 DEF Counted
<1>6. CASE ExecFail(r)
  <2>1. campaign'.status = "failed"
    BY <1>1, <1>6 DEF ExecFail
  <2> QED
    BY <1>2, <2>1 DEF Counted
<1>7. CASE ExecStats(r)
  <2>1. /\ campaign'.sent = exec[r].sent /\ campaign'.failed = exec[r].failed
    BY <1>1, <1>7 DEF ExecStats
  <2>2. exec[r].at = "stats" /\ exec[r].ok = {} /\ exec[r].bad = {}
    BY <1>1, <1>7 DEF ExecStats, Tidy
  <2>3. /\ exec[r].sent = Cardinality(Marked("sent"))
        /\ exec[r].failed = Cardinality(Marked("failed"))
    <3>1. Marked("sent") \cup {} = Marked("sent") /\ Marked("failed") \cup {} = Marked("failed")
      OBVIOUS
    <3> QED
      BY <2>2, <3>1 DEF Counted
  <2> QED
    BY <1>2, <1>4, <2>1, <2>3 DEF Counted
<1> QED
  BY <1>6, <1>7

(* A request that leaves the counts alone, or the status.                   *)
LEMMA CountOutside ==
  ASSUME IInv, CountInv, UNCHANGED <<exec, lost, recs>>,
         \/ UNCHANGED campaign
         \/ campaign'.status \notin {"sent", "deleted"} /\ campaign.status # "deleted"
  PROVE  CountInv'
<1>1. \A s : Marked(s)' = Marked(s)
  BY DEF Marked
<1> SUFFICES ASSUME SingleTask, NoneLost, campaign'.status # "deleted",
                    NEW r \in SendReqs, exec[r].at # "none"
             PROVE  Counted(exec[r])'
  BY DEF CountInv, SingleTask, NoneLost
<1>2. Counted(exec[r])
  BY DEF CountInv
<1> QED
  BY <1>1, <1>2 DEF Counted

(* The first task of a campaign: nothing was marked or sent before it.      *)
LEMMA CountFlush ==
  ASSUME IInv, CalmInv, CountInv, NEW r \in SendReqs, SendFlush(r)
  PROVE  CountInv'
<1>1. /\ exec[r].at = "none" /\ UNCHANGED <<campaign, recs>> /\ exec \in [SendReqs -> Run]
  BY DEF SendFlush, IInv, Shape, RunInv
<1>2. exec'[r].at = "queued" /\ \A o \in SendReqs \ {r} : exec'[o] = exec[o]
  BY <1>1 DEF SendFlush, Run
<1> SUFFICES ASSUME SingleTask' PROVE Counted(exec[r])'
  BY <1>1, <1>2 DEF CountInv, SingleTask
<1>3. \A o \in SendReqs : exec[o].at = "none"
  BY <1>1, <1>2 DEF SingleTask
<1>4. \A x \in Rows : recs[x] = "none"
  BY <1>3 DEF CalmInv
<1>5. campaign.status # "sent"
  BY <1>3 DEF IInv, StartInv
<1> QED
  BY <1>1, <1>2, <1>4, <1>5 DEF Counted, Marked

(* A campaign that commits has a task that has loaded nothing yet.          *)
LEMMA CountCommit ==
  ASSUME IInv, CalmInv, CountInv, NEW r \in SendReqs, SendCommit(r)
  PROVE  CountInv'
<1>1. /\ req[r] = "flushed" /\ UNCHANGED <<exec, lost>> /\ exec[r] \in Run /\ Tidy(exec[r])
      /\ exec[r].at # "none" /\ campaign.status # "deleted"
  BY DEF SendCommit, IInv, Shape, RunInv, CalmInv, Locked
<1>2. campaign'.status = "sending"
  BY DEF SendCommit, IInv, Shape
<1> SUFFICES ASSUME SingleTask, Counted(exec[r]) PROVE Counted(exec[r])'
  BY <1>1, CountStep
<1>3. exec[r].at \notin {"failing", "chunking", "chunk", "stats"}
  BY <1>1, KnowsNow DEF Knows
<1>4. \A s \in {"sent", "failed"} : Marked(s)' \subseteq Marked(s)
  BY DEF SendCommit, Marked
<1> QED
  BY <1>1, <1>2, <1>3, <1>4 DEF Counted

LEMMA CountNext == ASSUME IInv, BoundInv, CalmInv, CountInv, [Next]_vars PROVE CountInv'
<1>1. ASSUME NEW r \in SendReqs, SendCheck(r) \/ SendAbort(r) PROVE CountInv'
  BY <1>1, CountOutside DEF SendCheck, SendAbort
<1>2. ASSUME NEW p \in PauseReqs, PauseCheck(p) \/ PauseCommit(p) PROVE CountInv'
  <2>1. CASE PauseCheck(p)
    BY <2>1, CountOutside DEF PauseCheck
  <2>2. CASE PauseCommit(p)
    <3>1. campaign'.status = "paused"
      BY <2>2 DEF PauseCommit, IInv, Shape
    <3> QED
      BY <2>2, <3>1, CountOutside DEF PauseCommit
  <2> QED
    BY <1>2, <2>1, <2>2
<1>3. ASSUME NEW d \in DeleteReqs, DeleteCheck(d) \/ DeleteCommit(d) PROVE CountInv'
  <2>1. CASE DeleteCheck(d)
    BY <2>1, CountOutside DEF DeleteCheck
  <2>2. CASE DeleteCommit(d)
    <3>1. campaign'.status = "deleted"
      BY <2>2 DEF DeleteCommit, IInv, Shape
    <3> QED
      BY <3>1 DEF CountInv
  <2> QED
    BY <1>3, <2>1, <2>2
<1>4. ASSUME NEW x \in Rows, SendTask(x) PROVE CountInv'
  BY <1>4, CountOutside DEF SendTask
<1>5. ASSUME NEW r \in SendReqs, ExecLost(r) PROVE CountInv'
  <2>1. lost'[r] # 0
    <3>1. lost' = [lost EXCEPT ![r] = @ + 1]
      BY <1>5 DEF ExecLost
    <3>2. lost[r] \in Nat /\ lost' \in [SendReqs -> Nat]  /\ lost'[r] = lost[r] + 1
      BY <3>1 DEF BoundInv, CountersTyped
    <3> QED
      BY <3>2
  <2> QED
    BY <2>1 DEF CountInv, NoneLost
<1>6. CASE UNCHANGED vars
  BY <1>6, CountOutside DEF vars
<1> QED
  BY <1>1, <1>2, <1>3, <1>4, <1>5, <1>6, CountFlush, CountCommit, CountInner, CountDispatch,
     CountChunk, CountWrites DEF Next, ExecStep

(* A campaign that says "sent" has no pending recipient, and its counts are *)
(* those of its recipients, unless a worker was lost.                       *)
THEOREM SentCorrect == Spec => []SentSound
<1> DEFINE I == IInv /\ BoundInv /\ CalmInv /\ CountInv
<1>1. Init => I
  BY InitInv, BoundInit, CalmInit DEF Init, CountInv, NoExec
<1>2. I /\ [Next]_vars => I'
  BY NextInv, BoundNext, CalmNext, CountNext
<1>3. I => SentSound
  <2> SUFFICES ASSUME IInv, BoundInv, CalmInv, CountInv PROVE SentMeansProcessed /\ CountersMatch
    BY DEF SentSound
  <2>1. ASSUME campaign.status = "sent", SingleTask, NoneLost
        PROVE  /\ campaign.sent = Cardinality(Marked("sent"))
               /\ campaign.failed = Cardinality(Marked("failed"))
    <3>1. PICK r \in SendReqs : exec[r].at # "none"
      BY <2>1 DEF IInv, StartInv
    <3> QED
      BY <2>1, <3>1 DEF CountInv, Counted
  <2>2. CountersMatch
    BY <2>1 DEF CountersMatch, NoneLost, Marked, Quantify
  <2> QED
    BY <2>2 DEF IInv
<1> HIDE DEF I
<1> QED
  BY <1>1, <1>2, <1>3, PTL DEF Spec
=============================================================================
