---------------------------- MODULE WorkflowRuns ----------------------------
(***************************************************************************)
(* One workflow run: started at the roots of its definition, advanced by   *)
(* approvals from a stage to its successors, sent back by revisions, while *)
(* users and writebacks move its stages and the orchestrator requests the  *)
(* execution of agent stages.  Requests are READ COMMITTED transactions:   *)
(* they see committed rows, decide on what they read first, write by id,   *)
(* and hold the rows they wrote, and a pooled connection, to their end.    *)
(***************************************************************************)
EXTENDS Integers, FiniteSets

CONSTANTS
  Nodes,      \* workflow_stages of the definition
  Edges,      \* <<upstream, downstream>>: workflow_stage_dependencies
  Agents,     \* stages with executor_type agent and an agent profile
  Visits,     \* bound: how many stage_runs may be inserted for each stage
  NoStageRun,
  Users,      \* bound: requests and writebacks in flight at once
  PoolSize,   \* connections of the pool they share
  Faults      \* bound: crashes and errors in a behaviour

\* Ids; the first part is workflow_stage_id.
StageRuns == UNION {{n} \X (1..Visits[n]) : n \in Nodes}

ASSUME WorkflowAssumption ==
  /\ Edges \subseteq Nodes \X Nodes
  /\ Agents \subseteq Nodes
  /\ Visits \in [Nodes -> Nat]
  /\ NoStageRun \notin StageRuns
  /\ PoolSize \in Nat
  /\ Faults \in Nat

VARIABLES
  run,        \* workflow_runs.status as committed, "none" before the start
  current,    \* workflow_runs.current_stage_run_id as committed
  stage,      \* stage_runs.status as committed, or "absent"
  inserted,   \* ids handed out, also by transactions that rolled back
  recreated,  \* rows with a parent_stage_run_id
  approvals,  \* review_records with action approve: of which row, whether
              \* not its first, and (history) the rows it made
  requested,  \* stage_runs the orchestrator has requested an execution for
  req,        \* what each request is doing
  faults      \* faults left (bounds the model)

vars == <<run, current, stage, inserted, recreated, approvals, requested, req, faults>>

StageStatus == {"pending", "running", "waiting_review", "approved", "failed", "skipped"}

(* domain/stage-run/status.ts; a row that is not visible has no successor. *)
Allowed ==
  [pending        |-> {"running", "skipped"},
   running        |-> {"waiting_review", "failed"},
   waiting_review |-> {"approved"},
   failed         |-> {"running"},
   approved       |-> {},
   skipped        |-> {},
   absent         |-> {}]

NodeOf(r) == r[1]
Roots == {n \in Nodes : \A e \in Edges : e[2] # n}
Successors(n) == {m \in Nodes : <<n, m>> \in Edges}
Committed == {r \in StageRuns : stage[r] # "absent"}

(* A new row for each of the stages ns, as long as the bound has room. *)
Room(ns) == \A n \in ns : \E k \in 1..Visits[n] : <<n, k>> \notin inserted
(* Mutant: a stage has one row, made once and found again. *)
FindRow(n) == <<n, 1>>

NewRow(n) == <<n, CHOOSE k \in 1..Visits[n] : <<n, k>> \notin inserted>>
NewRows(ns) == {NewRow(n) : n \in ns}

(* Past its first read, a transaction holds in turn its connection, the    *)
(* row of its stage, and the row of the run; the advance of a start is no  *)
(* transaction.                                                            *)
Phase == {"idle", "read", "locked", "writing", "advancing"}
Idle == [op |-> "none", pc |-> "idle", subject |-> NoStageRun, to |-> "pending",
         created |-> {}, todo |-> {}, raised |-> {}]
Requests ==
  [op : {"none", "start", "approve", "move", "writeback"}, pc : Phase,
   subject : StageRuns \union {NoStageRun}, to : StageStatus,
   created : SUBSET StageRuns,   \* rows inserted, not yet committed
   todo : SUBSET StageRuns,      \* agent rows still to be advanced
   raised : SUBSET StageRuns]    \* the one set running, not yet requested

InTransaction(u) == req[u].pc \in {"read", "locked", "writing"}
(* Mutant: a connection was never given back. *)
FreeButLeaking == Cardinality({u \in Users : InTransaction(u)}) < PoolSize - 1

FreeConnection == Cardinality({u \in Users : InTransaction(u)}) < PoolSize
StageLocked(r) == \E u \in Users : req[u].pc \in {"locked", "writing"} /\ req[u].subject = r
RunLocked == \E u \in Users : req[u].pc = "writing"

(* Beside the types: only rows that were inserted are committed. *)
TypeOK ==
  /\ run \in {"none", "running", "completed"}
  /\ current \in StageRuns \union {NoStageRun}
  /\ stage \in [StageRuns -> StageStatus \union {"absent"}]
  /\ inserted \subseteq StageRuns
  /\ Committed \subseteq inserted
  /\ recreated \subseteq Committed
  /\ approvals \subseteq [of : StageRuns, again : BOOLEAN, created : SUBSET StageRuns]
  /\ requested \subseteq StageRuns
  /\ req \in [Users -> Requests]
  /\ faults \in 0..Faults

Init ==
  /\ run = "none"
  /\ current = NoStageRun
  /\ stage = [r \in StageRuns |-> "absent"]
  /\ inserted = {}
  /\ recreated = {}
  /\ approvals = {}
  /\ requested = {}
  /\ req = [u \in Users |-> Idle]
  /\ faults = Faults

Begin(u, op, r, to) ==
  /\ req[u] = Idle
  /\ FreeConnection
  /\ req' = [req EXCEPT ![u] = [Idle EXCEPT !.op = op, !.pc = "read",
                                            !.subject = r, !.to = to]]
  /\ UNCHANGED <<run, current, stage, inserted, recreated, approvals, requested, faults>>

-----------------------------------------------------------------------------
(* The orchestrator, called with the rows just made. *)

AgentRows(rows) == {r \in rows : NodeOf(r) \in Agents}

(* It works on a connection of its own: a row its caller has not committed *)
(* is not found, and the update quietly does nothing.                      *)
SetRunning(u, r) ==
  /\ r \in req[u].todo
  /\ req[u].raised = {}
  /\ FreeConnection
  /\ stage[r] # "absent" => ~StageLocked(r)
  /\ stage' = IF stage[r] = "absent" THEN stage ELSE [stage EXCEPT ![r] = "running"]
  /\ req' = [req EXCEPT ![u].todo = @ \ {r}, ![u].raised = {r}]
  /\ UNCHANGED <<run, current, inserted, recreated, approvals, requested, faults>>

(* Mutant: the bridge looks the stage run up before it creates a job. *)
RequestForVisible(u) ==
  /\ req[u].raised # {}
  /\ FreeConnection
  /\ requested' = requested \union (req[u].raised \intersect Committed)
  /\ req' = [req EXCEPT ![u].raised = {}]
  /\ UNCHANGED <<run, current, stage, inserted, recreated, approvals, faults>>

(* The job is committed at once, whatever becomes of the caller; its       *)
(* idempotency key is a function of the row.                               *)
RequestExecution(u) ==
  /\ req[u].raised # {}
  /\ FreeConnection
  /\ requested' = requested \union req[u].raised
  /\ req' = [req EXCEPT ![u].raised = {}]
  /\ UNCHANGED <<run, current, stage, inserted, recreated, approvals, faults>>

Advanced(u) == req[u].todo = {} /\ req[u].raised = {}

-----------------------------------------------------------------------------
(* startWorkflow: the run and its root rows are committed together; the    *)
(* partial unique index lets a task have one run that is not at its end.   *)
StartWorkflow(u) ==
  /\ req[u] = Idle
  /\ FreeConnection
  /\ run = "none"
  /\ Roots # {} /\ Room(Roots)
  /\ LET rows == NewRows(Roots) IN
       /\ run' = "running"
       /\ current' \in rows
       /\ stage' = [r \in StageRuns |-> IF r \in rows THEN "pending" ELSE stage[r]]
       /\ inserted' = inserted \union rows
       /\ req' = [req EXCEPT ![u] = [Idle EXCEPT !.op = "start", !.pc = "advancing",
                                                 !.todo = AgentRows(rows)]]
  /\ UNCHANGED <<recreated, approvals, requested, faults>>

EndStart(u) ==
  /\ req[u].pc = "advancing"
  /\ Advanced(u)
  /\ req' = [req EXCEPT ![u] = Idle]
  /\ UNCHANGED <<run, current, stage, inserted, recreated, approvals, requested, faults>>

-----------------------------------------------------------------------------
(* approveReview.  The last stage of a branch can only be approved while   *)
(* the run is seen running; other stages are approved in any run.          *)
BeginApprove(u, r) ==
  /\ stage[r] = "waiting_review"
  /\ Successors(NodeOf(r)) = {} => run = "running"
  /\ Begin(u, "approve", r, "approved")

(* The stage is written: its row is held from here on. *)
LockStage(u) ==
  /\ req[u].pc = "read"
  /\ ~StageLocked(req[u].subject)
  /\ req' = [req EXCEPT ![u].pc = "locked"]
  /\ UNCHANGED <<run, current, stage, inserted, recreated, approvals, requested, faults>>

(* Mutant: the current stage is set outside the transaction. *)
WriteAndPublish(u) ==
  LET ns == Successors(NodeOf(req[u].subject)) IN
  /\ req[u].op = "approve" /\ req[u].pc = "locked"
  /\ ~RunLocked
  /\ Room(ns)
  /\ inserted' = inserted \union NewRows(ns)
  /\ req' = [req EXCEPT ![u].pc = "writing", ![u].created = NewRows(ns),
                        ![u].todo = AgentRows(NewRows(ns))]
  /\ IF ns = {} THEN UNCHANGED current ELSE current' \in NewRows(ns)
  /\ UNCHANGED <<run, stage, recreated, approvals, requested, faults>>

(* A row for each successor is inserted, and the run is written: its row   *)
(* is held from here on.  Every approval makes rows of its own: neither    *)
(* dependency_type nor rows that exist already are looked at.              *)
WriteSuccessors(u) ==
  LET ns == Successors(NodeOf(req[u].subject)) IN
  /\ req[u].op = "approve" /\ req[u].pc = "locked"
  /\ ~RunLocked
  /\ Room(ns)
  /\ inserted' = inserted \union NewRows(ns)
  /\ req' = [req EXCEPT ![u].pc = "writing", ![u].created = NewRows(ns),
                        ![u].todo = AgentRows(NewRows(ns))]
  /\ UNCHANGED <<run, current, stage, recreated, approvals, requested, faults>>

(* Mutant: a run that has no further stage is archived at once. *)
RunAfterToArchive(created) == IF created = {} THEN "archived" ELSE run

(* With no successor, the run is completed, whatever its other stages do. *)
RunAfter(created) == IF created = {} THEN "completed" ELSE run

Approved(r) == \E a \in approvals : a.of = r

(* The orchestrator has returned; everything becomes visible at once. *)
CommitApprove(u) ==
  LET made == req[u].created IN
  /\ req[u].pc = "writing"
  /\ Advanced(u)
  /\ stage' = [r \in StageRuns |-> IF r = req[u].subject THEN "approved"
                                   ELSE IF r \in made THEN "pending" ELSE stage[r]]
  /\ approvals' = approvals \union
       {[of |-> req[u].subject, again |-> Approved(req[u].subject), created |-> made]}
  /\ run' = RunAfter(made)
  /\ IF made = {} THEN UNCHANGED current ELSE current' \in made
  /\ req' = [req EXCEPT ![u] = Idle]
  /\ UNCHANGED <<inserted, recreated, requested, faults>>

(* requestRevision: a new row for the stage of any row of the run, whatever *)
(* the run's and the stages' status; the orchestrator is not called.        *)
RequestRevision(target) ==
  LET n == NodeOf(target) IN
  /\ stage[target] # "absent"
  /\ FreeConnection
  /\ ~RunLocked
  /\ Room({n})
  /\ stage' = [stage EXCEPT ![NewRow(n)] = "pending"]
  /\ inserted' = inserted \union {NewRow(n)}
  /\ recreated' = recreated \union {NewRow(n)}
  /\ current' = NewRow(n)
  /\ UNCHANGED <<run, approvals, requested, req, faults>>

-----------------------------------------------------------------------------
(* transitionStageStatus and retryStage, which write the stage and then    *)
(* the run, and the writeback of an execution result, the stage alone.     *)
(* Executions are requested by hand as well, so a result can meet any row. *)
BeginMove(u, r, to) ==
  /\ to \in Allowed[stage[r]]
  /\ Begin(u, "move", r, to)

BeginWriteback(u, r, to) ==
  /\ stage[r] = "running"
  /\ to \in {"waiting_review", "failed"}
  /\ Begin(u, "writeback", r, to)

CommitMove(u) ==
  /\ req[u].op \in {"move", "writeback"} /\ req[u].pc = "locked"
  /\ req[u].op = "move" => ~RunLocked
  /\ stage' = [stage EXCEPT ![req[u].subject] = req[u].to]
  /\ current' = IF req[u].op = "move" THEN req[u].subject ELSE current
  /\ req' = [req EXCEPT ![u] = Idle]
  /\ UNCHANGED <<run, inserted, recreated, approvals, requested, faults>>

-----------------------------------------------------------------------------
(* An error or a crash: a transaction rolls back, an advance just stops,   *)
(* and jobs requested by then remain.                                      *)
Abort(u) ==
  /\ req[u].pc # "idle"
  /\ faults > 0
  /\ faults' = faults - 1
  /\ req' = [req EXCEPT ![u] = Idle]
  /\ UNCHANGED <<run, current, stage, inserted, recreated, approvals, requested>>

(* The bound Visits is reached: the approval is taken to fail. *)
OutOfRoom(u) ==
  /\ req[u].op = "approve" /\ req[u].pc = "locked"
  /\ ~Room(Successors(NodeOf(req[u].subject)))
  /\ req' = [req EXCEPT ![u] = Idle]
  /\ UNCHANGED <<run, current, stage, inserted, recreated, approvals, requested, faults>>

Advance(u) == RequestExecution(u) \/ \E r \in StageRuns : SetRunning(u, r)

Proceed(u) ==
  \/ Advance(u) \/ EndStart(u)
  \/ LockStage(u) \/ WriteSuccessors(u) \/ OutOfRoom(u)
  \/ CommitApprove(u) \/ CommitMove(u)

Next ==
  \/ \E u \in Users :
       StartWorkflow(u) \/ Proceed(u) \/ Abort(u)
  \/ \E u \in Users, r \in StageRuns : BeginApprove(u, r)
  \/ \E u \in Users, r \in StageRuns, to \in StageStatus :
       BeginMove(u, r, to) \/ BeginWriteback(u, r, to)
  \/ \E r \in StageRuns : RequestRevision(r)

Spec == Init /\ [][Next]_vars

(* A request that was begun goes on; the queues for a row lock and for a   *)
(* connection are served in order, so no waiter is passed over for ever.   *)
Fairness == \A u \in Users : SF_vars(Proceed(u))

FairSpec == Spec /\ Fairness

-----------------------------------------------------------------------------
(* Every approval has made exactly one row for each successor of its stage *)
(* and, revisions and roots apart, no other row exists and none belongs to *)
(* two approvals: approvals, however they overlap, fail or are retried,    *)
(* neither lose a successor nor leave rows of a rollback behind.           *)
ActivatedByApproval ==
  /\ \A a \in approvals :
       /\ a.created \subseteq Committed
       /\ {NodeOf(r) : r \in a.created} = Successors(NodeOf(a.of))
       /\ \A r, q \in a.created : NodeOf(r) = NodeOf(q) => r = q
  /\ \A r \in Committed : NodeOf(r) \notin Roots /\ r \notin recreated =>
       \E a \in approvals : r \in a.created
  /\ \A a, b \in approvals : a.created \intersect b.created # {} => a = b

(* The run is completed exactly when a stage without successors has been   *)
(* approved, and its pointer names a stage run that exists.                *)
RunMatchesStages ==
  /\ run = "completed" <=> \E a \in approvals : a.created = {}
  /\ run # "none" => current \in Committed

(* Unless something fails, every agent stage that a start or an approval   *)
(* made is sent to execution.                                              *)
AgentsAreRequested ==
  \A r \in StageRuns :
    (r \in Committed \ recreated /\ NodeOf(r) \in Agents)
      ~> (r \in requested \/ faults < Faults)

(* No request waits for ever for a row or a connection. *)
RequestsFinish == \A u \in Users : req[u].pc # "idle" ~> req[u].pc = "idle"

-----------------------------------------------------------------------------
(* What the orchestrator's comment says and the code does not do: a stage  *)
(* whose execution was requested has been moved from pending to running.   *)
ExecutedStageIsRunning ==
  \A r \in requested : stage[r] # "pending"
=============================================================================
