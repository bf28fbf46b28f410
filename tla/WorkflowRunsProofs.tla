------------------------- MODULE WorkflowRunsProofs -------------------------
(***************************************************************************)
(* What holds of a workflow run for every definition, every number of      *)
(* requests in flight and every pool.                                      *)
(***************************************************************************)
EXTENDS WorkflowRuns, TLAPS

USE WorkflowAssumption

(* What a transaction relies on while it holds uncommitted rows: they are  *)
(* its own, nobody sees them, there is one for each successor of the stage *)
(* it approves, and that stage exists.                                     *)
OwnRows ==
  \A u \in Users :
    /\ req[u].pc \in {"read", "locked", "writing"} => req[u].subject \in Committed
    /\ req[u].pc = "writing" =>
         /\ req[u].created \subseteq inserted
         /\ req[u].created \intersect Committed = {}
         /\ {NodeOf(r) : r \in req[u].created} = Successors(NodeOf(req[u].subject))
         /\ \A r, q \in req[u].created : NodeOf(r) = NodeOf(q) => r = q

(* Two transactions never hold the same row. *)
RowsApart ==
  \A u, v \in Users :
    req[u].pc = "writing" /\ req[v].pc = "writing" /\ u # v =>
      req[u].created \intersect req[v].created = {}

(* Nothing is approved before the run is started. *)
StartedFirst ==
  /\ \A a \in approvals : a.of \in Committed
  /\ run = "none" => Committed = {}

RunInv ==
  /\ TypeOK
  /\ OwnRows
  /\ RowsApart
  /\ StartedFirst
  /\ ActivatedByApproval
  /\ RunMatchesStages

-----------------------------------------------------------------------------
(* A stage run's id names its stage. *)
LEMMA StageRunShape ==
  ASSUME NEW r \in StageRuns
  PROVE  NodeOf(r) \in Nodes /\ r = <<r[1], r[2]>> /\ r[2] \in 1..Visits[r[1]]
BY DEF StageRuns, NodeOf

(* Within the bound, a stage's new row is a row of that stage that was     *)
(* never handed out before.                                                *)
LEMMA NewRowFresh ==
  ASSUME NEW ns \in SUBSET Nodes, Room(ns), NEW n \in ns
  PROVE  /\ NewRow(n) \in StageRuns
         /\ NewRow(n) \notin inserted
         /\ NodeOf(NewRow(n)) = n
<1>1. PICK k \in 1..Visits[n] : <<n, k>> \notin inserted
  BY DEF Room
<1>2. \E k2 \in 1..Visits[n] : NewRow(n) = <<n, k2>> /\ <<n, k2>> \notin inserted
  BY <1>1 DEF NewRow
<1> QED BY <1>2 DEF StageRuns, NodeOf

(* So the rows made for a set of stages are new, and one for each. *)
LEMMA NewRowsFresh ==
  ASSUME NEW ns \in SUBSET Nodes, Room(ns)
  PROVE  /\ NewRows(ns) \subseteq StageRuns
         /\ NewRows(ns) \intersect inserted = {}
         /\ {NodeOf(r) : r \in NewRows(ns)} = ns
         /\ \A r, q \in NewRows(ns) : NodeOf(r) = NodeOf(q) => r = q
         /\ ns # {} => NewRows(ns) # {}
         /\ ns = {} => NewRows(ns) = {}
<1>1. \A n \in ns : /\ NewRow(n) \in StageRuns
                    /\ NewRow(n) \notin inserted
                    /\ NodeOf(NewRow(n)) = n
  BY NewRowFresh
<1> QED BY <1>1 DEF NewRows

-----------------------------------------------------------------------------
(* A request's record stays a request's record. *)
LEMMA RequestTyped ==
  /\ Idle \in Requests
  /\ \A op \in {"move", "writeback", "approve"}, r \in StageRuns, to \in StageStatus :
       [Idle EXCEPT !.op = op, !.pc = "read", !.subject = r, !.to = to] \in Requests
  /\ \A rows \in SUBSET StageRuns :
       [Idle EXCEPT !.op = "start", !.pc = "advancing", !.todo = rows] \in Requests
  /\ \A q \in Requests, a, b \in SUBSET StageRuns :
       /\ [q EXCEPT !.pc = "locked"] \in Requests
       /\ [q EXCEPT !.raised = a] \in Requests
       /\ [q EXCEPT !.todo = a, !.raised = b] \in Requests
       /\ [q EXCEPT !.pc = "writing", !.created = a, !.todo = b] \in Requests
<1>1. Idle \in Requests
  BY DEF Idle, Requests, Phase, StageStatus
<1>2. ASSUME NEW op \in {"move", "writeback", "approve"}, NEW r \in StageRuns,
             NEW to \in StageStatus
      PROVE  [Idle EXCEPT !.op = op, !.pc = "read", !.subject = r, !.to = to] \in Requests
  BY <1>2 DEF Idle, Requests, Phase
<1>3. ASSUME NEW rows \in SUBSET StageRuns
      PROVE  [Idle EXCEPT !.op = "start", !.pc = "advancing", !.todo = rows] \in Requests
  BY <1>3 DEF Idle, Requests, Phase, StageStatus
<1>4. ASSUME NEW q \in Requests, NEW a \in SUBSET StageRuns, NEW b \in SUBSET StageRuns
      PROVE  /\ [q EXCEPT !.pc = "locked"] \in Requests
             /\ [q EXCEPT !.raised = a] \in Requests
             /\ [q EXCEPT !.todo = a, !.raised = b] \in Requests
             /\ [q EXCEPT !.pc = "writing", !.created = a, !.todo = b] \in Requests
  <2>1. [q EXCEPT !.pc = "locked"] \in Requests
    BY <1>4 DEF Requests, Phase
  <2>2. [q EXCEPT !.raised = a] \in Requests
    BY <1>4 DEF Requests
  <2>3. [q EXCEPT !.todo = a, !.raised = b] \in Requests
    BY <1>4 DEF Requests
  <2>4. [q EXCEPT !.pc = "writing", !.created = a, !.todo = b] \in Requests
    BY <1>4 DEF Requests, Phase
  <2> QED BY <2>1, <2>2, <2>3, <2>4
<1> QED BY <1>1, <1>2, <1>3, <1>4

(* The variables keep their types, and only inserted rows are committed. *)
LEMMA TypeKept ==
  ASSUME TypeOK, OwnRows, [Next]_vars
  PROVE  TypeOK'
<1> USE DEF TypeOK
<1>t. \A u \in Users : req[u] \in Requests
  OBVIOUS
<1>c. Committed \subseteq inserted /\ inserted \subseteq StageRuns
  BY DEF Committed
<1>1. ASSUME NEW u \in Users, StartWorkflow(u)
      PROVE  TypeOK'
  <2> DEFINE rows == NewRows(Roots)
  <2>1. Room(Roots) /\ Roots \in SUBSET Nodes
    BY <1>1 DEF StartWorkflow, Roots
  <2>2. rows \subseteq StageRuns
    BY <2>1, NewRowsFresh
  <2>3. AgentRows(rows) \in SUBSET StageRuns
    BY <2>2 DEF AgentRows
  <2>4. req' \in [Users -> Requests]
    BY <1>1, <2>3, RequestTyped DEF StartWorkflow
  <2>5. /\ stage' = [r \in StageRuns |-> IF r \in rows THEN "pending" ELSE stage[r]]
        /\ inserted' = inserted \union rows
        /\ current' \in rows
        /\ run' = "running"
        /\ recreated' = recreated /\ approvals' = approvals
        /\ requested' = requested /\ faults' = faults
    BY <1>1 DEF StartWorkflow
  <2> HIDE DEF rows
  <2>6. stage' \in [StageRuns -> StageStatus \union {"absent"}]
    BY <2>5 DEF StageStatus
  <2>7. Committed' = Committed \union rows
    BY <2>2, <2>5 DEF Committed
  <2> QED
    BY <2>2, <2>4, <2>5, <2>6, <2>7, <1>c
<1>2. ASSUME NEW u \in Users, WriteSuccessors(u)
      PROVE  TypeOK'
  <2> DEFINE ns == Successors(NodeOf(req[u].subject))
             rows == NewRows(ns)
  <2>1. Room(ns) /\ ns \in SUBSET Nodes
    BY <1>2 DEF WriteSuccessors, Successors
  <2>2. rows \in SUBSET StageRuns
    BY <2>1, NewRowsFresh
  <2>3. AgentRows(rows) \in SUBSET StageRuns
    BY <2>2 DEF AgentRows
  <2>4. req' = [req EXCEPT ![u] = [@ EXCEPT !.pc = "writing", !.created = rows,
                                            !.todo = AgentRows(rows)]]
    BY <1>2 DEF WriteSuccessors
  <2>5. req' \in [Users -> Requests]
    BY <2>2, <2>3, <2>4, <1>t, RequestTyped
  <2>6. /\ inserted' = inserted \union rows
        /\ UNCHANGED <<run, current, stage, recreated, approvals, requested, faults>>
    BY <1>2 DEF WriteSuccessors
  <2> QED
    BY <2>2, <2>5, <2>6 DEF Committed
<1>3. ASSUME NEW u \in Users, CommitApprove(u)
      PROVE  TypeOK'
  <2> DEFINE made == req[u].created
  <2>1. /\ req[u].subject \in Committed
        /\ made \subseteq inserted
    BY <1>3 DEF CommitApprove, OwnRows
  <2>2. /\ stage' = [r \in StageRuns |-> IF r = req[u].subject THEN "approved"
                                   ELSE IF r \in made THEN "pending" ELSE stage[r]]
        /\ approvals' = approvals \union
             {[of |-> req[u].subject, again |-> Approved(req[u].subject), created |-> made]}
        /\ run' = RunAfter(made)
        /\ made # {} => current' \in made
        /\ made = {} => current' = current
        /\ req' = [req EXCEPT ![u] = Idle]
        /\ UNCHANGED <<inserted, recreated, requested, faults>>
    BY <1>3 DEF CommitApprove
  <2>3. req[u].subject \in StageRuns /\ made \in SUBSET StageRuns
    BY <2>1, <1>c
  <2>4. req' \in [Users -> Requests]
    BY <2>2, RequestTyped
  <2> HIDE DEF made
  <2>5. stage' \in [StageRuns -> StageStatus \union {"absent"}]
    BY <2>2 DEF StageStatus
  <2>6. Committed' = Committed \union made
    BY <2>1, <2>2, <2>3 DEF Committed
  <2>7. run' \in {"none", "running", "completed"}
    BY <2>2 DEF RunAfter
  <2>8. current' \in StageRuns \union {NoStageRun}
    BY <2>2, <2>3
  <2>9. approvals' \subseteq [of : StageRuns, again : BOOLEAN, created : SUBSET StageRuns]
    <3>1. Approved(req[u].subject) \in BOOLEAN
      BY Zenon DEF Approved
    <3> QED BY <2>2, <2>3, <3>1
  <2> QED
    BY <2>1, <2>2, <2>4, <2>5, <2>6, <2>7, <2>8, <2>9, <1>c
<1>4. ASSUME NEW r \in StageRuns, RequestRevision(r)
      PROVE  TypeOK'
  <2> DEFINE new == NewRow(NodeOf(r))
  <2>1. new \in StageRuns
    BY <1>4, StageRunShape, NewRowFresh DEF RequestRevision
  <2>2. /\ stage' = [stage EXCEPT ![new] = "pending"]
        /\ inserted' = inserted \union {new}
        /\ recreated' = recreated \union {new}
        /\ current' = new
        /\ UNCHANGED <<run, approvals, requested, req, faults>>
    BY <1>4 DEF RequestRevision
  <2> HIDE DEF new
  <2>3. Committed' = Committed \union {new}
    BY <2>1, <2>2 DEF Committed
  <2> QED
    BY <2>1, <2>2, <2>3, <1>c DEF StageStatus
<1>5. ASSUME NEW u \in Users, CommitMove(u)
      PROVE  TypeOK'
  <2>1. req[u].subject \in Committed /\ req[u].to \in StageStatus
    BY <1>5, <1>t DEF CommitMove, OwnRows, Requests
  <2>2. /\ stage' = [stage EXCEPT ![req[u].subject] = req[u].to]
        /\ current' \in {current, req[u].subject}
        /\ req' = [req EXCEPT ![u] = Idle]
        /\ UNCHANGED <<run, inserted, recreated, approvals, requested, faults>>
    BY <1>5 DEF CommitMove
  <2>3. Committed' = Committed
    BY <2>1, <2>2 DEF Committed, StageStatus
  <2>4. req' \in [Users -> Requests]
    BY <2>2, RequestTyped
  <2> QED
    BY <2>1, <2>2, <2>3, <2>4, <1>c DEF Committed
<1>6. ASSUME NEW u \in Users, NEW r \in StageRuns, SetRunning(u, r)
      PROVE  TypeOK'
  <2>1. req' = [req EXCEPT ![u] = [req[u] EXCEPT !.todo = req[u].todo \ {r},
                                                 !.raised = {r}]]
    BY <1>6 DEF SetRunning
  <2>2. req[u].todo \ {r} \in SUBSET StageRuns
    BY <1>t DEF Requests
  <2>3. [req[u] EXCEPT !.todo = req[u].todo \ {r}, !.raised = {r}] \in Requests
    BY <2>2, <1>t, RequestTyped, {r} \in SUBSET StageRuns
  <2>4. req' \in [Users -> Requests]
    BY <2>1, <2>3
  <2>5. \/ stage' = stage
        \/ stage[r] # "absent" /\ stage' = [stage EXCEPT ![r] = "running"]
    BY <1>6 DEF SetRunning
  <2>6. stage' \in [StageRuns -> StageStatus \union {"absent"}]
    BY <2>5 DEF StageStatus
  <2>7. Committed' = Committed
    BY <2>5 DEF Committed
  <2> QED
    BY <1>6, <2>4, <2>6, <2>7 DEF SetRunning
<1>7. ASSUME NEW u \in Users, RequestExecution(u)
      PROVE  TypeOK'
  <2>1. req' \in [Users -> Requests]
    BY <1>7, <1>t, RequestTyped DEF RequestExecution
  <2>2. req[u].raised \in SUBSET StageRuns
    BY <1>t DEF Requests
  <2> QED
    BY <1>7, <2>1, <2>2 DEF RequestExecution, Committed
<1>8. ASSUME NEW u \in Users, \/ EndStart(u) \/ OutOfRoom(u) \/ Abort(u)
      PROVE  TypeOK'
  <2>1. req' = [req EXCEPT ![u] = Idle]
    BY <1>8 DEF EndStart, OutOfRoom, Abort
  <2>2. req' \in [Users -> Requests]
    BY <2>1, RequestTyped
  <2>3. faults' \in 0..Faults
    BY <1>8 DEF EndStart, OutOfRoom, Abort
  <2> QED
    BY <1>8, <2>2, <2>3 DEF EndStart, OutOfRoom, Abort, Committed
<1>9. ASSUME NEW u \in Users, LockStage(u)
      PROVE  TypeOK'
  <2>1. req' \in [Users -> Requests]
    BY <1>9, <1>t, RequestTyped DEF LockStage
  <2> QED
    BY <1>9, <2>1 DEF LockStage, Committed
<1>10. ASSUME NEW u \in Users, NEW r \in StageRuns, NEW to \in StageStatus,
              NEW op \in {"move", "writeback", "approve"}, Begin(u, op, r, to)
       PROVE  TypeOK'
  <2>1. req' \in [Users -> Requests]
    BY <1>10, RequestTyped DEF Begin
  <2> QED
    BY <1>10, <2>1 DEF Begin, Committed
<1>11. CASE UNCHANGED vars
  BY <1>11 DEF vars, Committed
<1> QED
  <2>1. ASSUME NEW u \in Users, NEW r \in StageRuns, BeginApprove(u, r)
        PROVE  TypeOK'
    BY <2>1, <1>10 DEF BeginApprove, StageStatus
  <2>2. ASSUME NEW u \in Users, NEW r \in StageRuns, NEW to \in StageStatus,
               BeginMove(u, r, to) \/ BeginWriteback(u, r, to)
        PROVE  TypeOK'
    BY <2>2, <1>10 DEF BeginMove, BeginWriteback
  <2> QED
    BY <1>1, <1>2, <1>3, <1>4, <1>5, <1>6, <1>7, <1>8, <1>9, <1>11, <2>1, <2>2
    DEF Next, Proceed, Advance

-----------------------------------------------------------------------------
(* A request's record, as the ledger of what it holds. *)
Holds(q, rows, seen) ==
  /\ q.pc \in {"read", "locked", "writing"} => q.subject \in seen
  /\ q.pc = "writing" =>
       /\ q.created \subseteq rows
       /\ q.created \intersect seen = {}
       /\ {NodeOf(r) : r \in q.created} = Successors(NodeOf(q.subject))
       /\ \A r, p \in q.created : NodeOf(r) = NodeOf(p) => r = p

(* A step of one request keeps everyone's rows apart and unseen if it      *)
(* commits no other's rows and takes none of them.                         *)
LEMMA OneRequestMoves ==
  ASSUME OwnRows, RowsApart, NEW u \in Users,
         inserted \subseteq inserted',
         Committed \subseteq Committed',
         \A v \in Users \ {u} :
           /\ req'[v] = req[v]
           /\ req[v].pc = "writing" => req[v].created \intersect Committed' = {},
         Holds(req'[u], inserted', Committed'),
         req'[u].pc = "writing" =>
           \A v \in Users \ {u} :
             req[v].pc = "writing" => req'[u].created \intersect req[v].created = {}
  PROVE  OwnRows' /\ RowsApart'
<1>1. OwnRows'
  <2> SUFFICES ASSUME NEW v \in Users
               PROVE  Holds(req'[v], inserted', Committed')
    BY DEF OwnRows, Holds
  <2>1. CASE v = u
    BY <2>1
  <2>2. CASE v # u
    <3>1. req'[v] = req[v]
      BY <2>2
    <3>2. Holds(req[v], inserted, Committed)
      BY DEF OwnRows, Holds
    <3> QED
      BY <2>2, <3>1, <3>2 DEF Holds
  <2> QED
    BY <2>1, <2>2
<1>2. RowsApart'
  BY DEF RowsApart
<1> QED
  BY <1>1, <1>2

(* Uncommitted rows stay their transaction's own, whatever the others do. *)
LEMMA RowsKept ==
  ASSUME TypeOK, OwnRows, RowsApart, [Next]_vars
  PROVE  /\ OwnRows' /\ RowsApart'
         /\ Committed \subseteq Committed'
<1>i. \A u \in Users : Holds(req[u], inserted, Committed)
  BY DEF OwnRows, Holds
<1>t. req \in [Users -> Requests] /\ Committed \subseteq inserted /\ inserted \subseteq StageRuns
  BY DEF TypeOK
<1>1. ASSUME NEW u \in Users, StartWorkflow(u)
      PROVE  /\ OwnRows' /\ RowsApart'
             /\ Committed \subseteq Committed'
  <2> DEFINE rows == NewRows(Roots)
  <2>1. rows \subseteq StageRuns /\ rows \intersect inserted = {}
    BY <1>1, NewRowsFresh DEF StartWorkflow, Roots
  <2>2. /\ stage' = [r \in StageRuns |-> IF r \in rows THEN "pending" ELSE stage[r]]
        /\ inserted' = inserted \union rows
    BY <1>1 DEF StartWorkflow
  <2>3. req'[u].pc = "advancing" /\ \A v \in Users \ {u} : req'[v] = req[v]
    BY <1>1, <1>t DEF StartWorkflow, Idle
  <2> HIDE DEF rows
  <2>4. Committed' = Committed \union rows
    BY <2>1, <2>2 DEF Committed
  <2>5. Holds(req'[u], inserted', Committed')
    BY <2>3 DEF Holds
  <2>6. \A v \in Users : req[v].pc = "writing" => req[v].created \intersect Committed' = {}
    BY <2>1, <2>4, <1>i DEF Holds
  <2> QED
    BY <2>2, <2>3, <2>4, <2>5, <2>6, OneRequestMoves
<1>2. ASSUME NEW u \in Users, WriteSuccessors(u)
      PROVE  /\ OwnRows' /\ RowsApart'
             /\ Committed \subseteq Committed'
  <2> DEFINE ns == Successors(NodeOf(req[u].subject))
             rows == NewRows(ns)
  <2>1. Room(ns) /\ ns \in SUBSET Nodes
    BY <1>2 DEF WriteSuccessors, Successors
  <2>2. /\ rows \intersect inserted = {}
        /\ {NodeOf(r) : r \in rows} = ns
        /\ \A r, q \in rows : NodeOf(r) = NodeOf(q) => r = q
    BY <2>1, NewRowsFresh
  <2>3. /\ req[u].pc = "locked"
        /\ inserted' = inserted \union rows
        /\ req'[u].pc = "writing"
        /\ req'[u].created = rows
        /\ req'[u].subject = req[u].subject
        /\ \A v \in Users \ {u} : req'[v] = req[v]
        /\ stage' = stage
    BY <1>2, <1>t DEF WriteSuccessors, Requests
  <2>4. Committed' = Committed
    BY <2>3 DEF Committed
  <2>5. req[u].subject \in Committed
    BY <2>3, <1>i DEF Holds
  <2> HIDE DEF rows
  <2>6. Holds(req'[u], inserted', Committed')
    BY <2>2, <2>3, <2>4, <2>5, <1>t DEF Holds
  <2>7. \A v \in Users : req[v].pc = "writing" =>
          /\ req[v].created \intersect Committed' = {}
          /\ rows \intersect req[v].created = {}
    BY <2>2, <2>4, <1>i DEF Holds
  <2> QED
    BY <2>3, <2>4, <2>6, <2>7, OneRequestMoves
<1>3. ASSUME NEW u \in Users, CommitApprove(u)
      PROVE  /\ OwnRows' /\ RowsApart'
             /\ Committed \subseteq Committed'
  <2> DEFINE made == req[u].created
  <2>1. /\ req[u].pc = "writing"
        /\ stage' = [r \in StageRuns |-> IF r = req[u].subject THEN "approved"
                                   ELSE IF r \in made THEN "pending" ELSE stage[r]]
        /\ req'[u] = Idle
        /\ \A v \in Users \ {u} : req'[v] = req[v]
        /\ inserted' = inserted
    BY <1>3, <1>t DEF CommitApprove
  <2>2. made \subseteq StageRuns /\ req[u].subject \in Committed
    BY <2>1, <1>i, <1>t DEF Holds
  <2>3. Committed' = Committed \union made
    BY <2>1, <2>2 DEF Committed
  <2>4. \A v \in Users \ {u} : req[v].pc = "writing" => req[v].created \intersect Committed' = {}
    BY <2>1, <2>3, <1>i DEF Holds, RowsApart
  <2>5. Holds(req'[u], inserted', Committed') /\ req'[u].pc # "writing"
    BY <2>1 DEF Holds, Idle
  <2> QED
    BY <2>1, <2>3, <2>4, <2>5, OneRequestMoves
<1>4. ASSUME NEW r \in StageRuns, RequestRevision(r)
      PROVE  /\ OwnRows' /\ RowsApart'
             /\ Committed \subseteq Committed'
  <2> DEFINE new == NewRow(NodeOf(r))
  <2>1. new \in StageRuns /\ new \notin inserted
    BY <1>4, StageRunShape, NewRowFresh DEF RequestRevision
  <2>2. /\ stage' = [stage EXCEPT ![new] = "pending"]
        /\ inserted' = inserted \union {new}
        /\ req' = req
    BY <1>4 DEF RequestRevision
  <2> HIDE DEF new
  <2>3. Committed' = Committed \union {new}
    BY <2>1, <2>2 DEF Committed, TypeOK
  <2>4. \A v \in Users : Holds(req'[v], inserted', Committed')
    BY <2>1, <2>2, <2>3, <1>i DEF Holds
  <2> QED
    BY <2>2, <2>3, <2>4 DEF OwnRows, RowsApart, Holds
<1>5. ASSUME NEW u \in Users, CommitMove(u)
      PROVE  /\ OwnRows' /\ RowsApart'
             /\ Committed \subseteq Committed'
  <2>1. req[u].subject \in Committed /\ req[u].to \in StageStatus
    BY <1>5, <1>t DEF CommitMove, OwnRows, Requests
  <2>2. /\ stage' = [stage EXCEPT ![req[u].subject] = req[u].to]
        /\ req'[u] = Idle
        /\ \A v \in Users \ {u} : req'[v] = req[v]
        /\ inserted' = inserted
    BY <1>5, <1>t DEF CommitMove
  <2>3. Committed' = Committed
    BY <2>1, <2>2 DEF Committed, StageStatus, TypeOK
  <2>4. Holds(req'[u], inserted', Committed') /\ req'[u].pc # "writing"
    BY <2>2 DEF Holds, Idle
  <2>5. \A v \in Users : req[v].pc = "writing" => req[v].created \intersect Committed' = {}
    BY <2>3, <1>i DEF Holds
  <2> QED
    BY <2>2, <2>3, <2>4, <2>5, OneRequestMoves
<1>6. ASSUME NEW u \in Users,
             \/ \E r \in StageRuns : SetRunning(u, r)
             \/ RequestExecution(u) \/ LockStage(u)
      PROVE  /\ OwnRows' /\ RowsApart'
             /\ Committed \subseteq Committed'
  <2>1. /\ req'[u].pc = req[u].pc \/ (req[u].pc = "read" /\ req'[u].pc = "locked")
        /\ req'[u].created = req[u].created
        /\ req'[u].subject = req[u].subject
        /\ \A v \in Users \ {u} : req'[v] = req[v]
        /\ inserted' = inserted
    <3>1. req[u] \in Requests
      BY <1>t
    <3>2. ASSUME NEW r \in StageRuns, SetRunning(u, r)
          PROVE  req' = [req EXCEPT ![u] = [req[u] EXCEPT !.todo = req[u].todo \ {r},
                                                          !.raised = {r}]]
      BY <3>2 DEF SetRunning
    <3>3. CASE \E r \in StageRuns : SetRunning(u, r)
      <4>1. PICK r \in StageRuns : SetRunning(u, r)
        BY <3>3
      <4>2. req'[u] = [req[u] EXCEPT !.todo = req[u].todo \ {r}, !.raised = {r}]
        BY <4>1, <3>2, <1>t
      <4> QED
        BY <4>1, <4>2, <3>1, <1>t DEF SetRunning, Requests
    <3>4. CASE RequestExecution(u)
      <4>1. req'[u] = [req[u] EXCEPT !.raised = {}]
        BY <3>4, <1>t DEF RequestExecution
      <4> QED
        BY <4>1, <3>4, <3>1, <1>t DEF RequestExecution, Requests
    <3>5. CASE LockStage(u)
      <4>1. req'[u] = [req[u] EXCEPT !.pc = "locked"]
        BY <3>5, <1>t DEF LockStage
      <4> QED
        BY <4>1, <3>5, <3>1, <1>t DEF LockStage, Requests
    <3> QED
      BY <1>6, <3>3, <3>4, <3>5
  <2>2. \/ stage' = stage
        \/ \E r \in StageRuns : stage[r] # "absent" /\ stage' = [stage EXCEPT ![r] = "running"]
    BY <1>6 DEF SetRunning, RequestExecution, LockStage
  <2>3. Committed' = Committed
    BY <2>2 DEF Committed, TypeOK
  <2>4. Holds(req'[u], inserted', Committed')
    BY <2>1, <2>3, <1>i DEF Holds
  <2>5. \A v \in Users : req[v].pc = "writing" => req[v].created \intersect Committed' = {}
    BY <2>3, <1>i DEF Holds
  <2> QED
    BY <2>1, <2>3, <2>4, <2>5, OneRequestMoves DEF RowsApart
<1>7. ASSUME NEW u \in Users, \/ EndStart(u) \/ OutOfRoom(u) \/ Abort(u)
      PROVE  /\ OwnRows' /\ RowsApart'
             /\ Committed \subseteq Committed'
  <2>1. /\ req'[u] = Idle
        /\ \A v \in Users \ {u} : req'[v] = req[v]
        /\ inserted' = inserted /\ stage' = stage
    BY <1>7, <1>t DEF EndStart, OutOfRoom, Abort
  <2>2. Committed' = Committed
    BY <2>1 DEF Committed
  <2>3. Holds(req'[u], inserted', Committed') /\ req'[u].pc # "writing"
    BY <2>1 DEF Holds, Idle
  <2>4. \A v \in Users : req[v].pc = "writing" => req[v].created \intersect Committed' = {}
    BY <2>2, <1>i DEF Holds
  <2> QED
    BY <2>1, <2>2, <2>3, <2>4, OneRequestMoves
<1>8. ASSUME NEW u \in Users, NEW r \in StageRuns, NEW to \in StageStatus, NEW op,
             stage[r] # "absent", Begin(u, op, r, to)
      PROVE  /\ OwnRows' /\ RowsApart'
             /\ Committed \subseteq Committed'
  <2>1. /\ req'[u].pc = "read" /\ req'[u].subject = r
        /\ \A v \in Users \ {u} : req'[v] = req[v]
        /\ inserted' = inserted /\ stage' = stage
    BY <1>8, <1>t DEF Begin, Idle
  <2>2. Committed' = Committed
    BY <2>1 DEF Committed
  <2>3. Holds(req'[u], inserted', Committed')
    BY <2>1, <2>2, <1>8 DEF Holds, Committed
  <2>4. \A v \in Users : req[v].pc = "writing" => req[v].created \intersect Committed' = {}
    BY <2>2, <1>i DEF Holds
  <2> QED
    BY <2>1, <2>2, <2>3, <2>4, OneRequestMoves
<1>9. CASE UNCHANGED vars
  BY <1>9 DEF vars, Committed, OwnRows, RowsApart
<1> QED
  <2>1. ASSUME NEW u \in Users, NEW r \in StageRuns, BeginApprove(u, r)
        PROVE  /\ OwnRows' /\ RowsApart'
               /\ Committed \subseteq Committed'
    BY <2>1, <1>8 DEF BeginApprove, StageStatus
  <2>2. ASSUME NEW u \in Users, NEW r \in StageRuns, NEW to \in StageStatus,
               BeginMove(u, r, to) \/ BeginWriteback(u, r, to)
        PROVE  /\ OwnRows' /\ RowsApart'
               /\ Committed \subseteq Committed'
    <3>1. stage[r] # "absent"
      BY <2>2 DEF BeginMove, BeginWriteback, Allowed
    <3> QED
      BY <2>2, <3>1, <1>8 DEF BeginMove, BeginWriteback
  <2> QED
    BY <1>1, <1>2, <1>3, <1>4, <1>5, <1>6, <1>7, <1>9, <2>1, <2>2
    DEF Next, Proceed, Advance

-----------------------------------------------------------------------------
ApprovalInv == StartedFirst /\ ActivatedByApproval /\ RunMatchesStages

(* A step that commits no row that asks for an approval, and keeps the     *)
(* run, keeps what approvals have made.                                    *)
LEMMA NothingApproved ==
  ASSUME ApprovalInv,
         Committed \subseteq Committed',
         recreated \subseteq recreated',
         \A r \in Committed' \ Committed : NodeOf(r) \in Roots \/ r \in recreated',
         approvals' = approvals,
         \/ run' = run /\ (run = "none" => Committed' = Committed)
         \/ run = "none" /\ run' = "running",
         run' # "none" => current' \in Committed'
  PROVE  ApprovalInv'
<1>1. run = "none" => approvals = {}
  BY DEF ApprovalInv, StartedFirst
<1>2. StartedFirst'
  BY DEF ApprovalInv, StartedFirst
<1>3. ActivatedByApproval'
  BY DEF ApprovalInv, ActivatedByApproval
<1>4. RunMatchesStages'
  BY <1>1 DEF ApprovalInv, RunMatchesStages
<1> QED
  BY <1>2, <1>3, <1>4 DEF ApprovalInv

(* What approvals have made agrees with the rows and with the run after    *)
(* every step.                                                             *)
LEMMA ApprovalsKept ==
  ASSUME TypeOK, OwnRows, ApprovalInv, [Next]_vars
  PROVE  ApprovalInv'
<1>t. /\ req \in [Users -> Requests]
      /\ Committed \subseteq inserted /\ inserted \subseteq StageRuns
      /\ recreated \subseteq Committed
      /\ stage \in [StageRuns -> StageStatus \union {"absent"}]
  BY DEF TypeOK
<1>c. run # "none" => current \in Committed
  BY DEF ApprovalInv, RunMatchesStages
<1>1. ASSUME NEW u \in Users, StartWorkflow(u)
      PROVE  ApprovalInv'
  <2> DEFINE rows == NewRows(Roots)
  <2>1. /\ rows \subseteq StageRuns
        /\ \A r \in rows : NodeOf(r) \in Roots
    <3>1. Room(Roots) /\ Roots \in SUBSET Nodes
      BY <1>1 DEF StartWorkflow, Roots
    <3>2. rows \subseteq StageRuns /\ {NodeOf(r) : r \in rows} = Roots
      BY <3>1, NewRowsFresh
    <3> HIDE DEF rows
    <3> QED
      BY <3>2
  <2>2. /\ stage' = [r \in StageRuns |-> IF r \in rows THEN "pending" ELSE stage[r]]
        /\ current' \in rows
        /\ run = "none" /\ run' = "running"
        /\ approvals' = approvals /\ recreated' = recreated
    BY <1>1 DEF StartWorkflow
  <2> HIDE DEF rows
  <2>3. Committed' = Committed \union rows
    BY <2>1, <2>2 DEF Committed
  <2> QED
    BY <2>1, <2>2, <2>3, NothingApproved
<1>2. ASSUME NEW u \in Users, CommitApprove(u)
      PROVE  ApprovalInv'
  <2> DEFINE made == req[u].created
             new == [of |-> req[u].subject, again |-> Approved(req[u].subject), created |-> made]
  <2>1. /\ req[u].pc = "writing"
        /\ stage' = [r \in StageRuns |-> IF r = req[u].subject THEN "approved"
                                   ELSE IF r \in made THEN "pending" ELSE stage[r]]
        /\ approvals' = approvals \union {new}
        /\ run' = IF made = {} THEN "completed" ELSE run
        /\ made # {} => current' \in made
        /\ made = {} => current' = current
        /\ recreated' = recreated
    BY <1>2 DEF CommitApprove, RunAfter
  <2>2. /\ made \subseteq StageRuns
        /\ made \intersect Committed = {}
        /\ req[u].subject \in Committed
        /\ {NodeOf(r) : r \in made} = Successors(NodeOf(req[u].subject))
        /\ \A r, q \in made : NodeOf(r) = NodeOf(q) => r = q
    BY <2>1, <1>t DEF OwnRows
  <2>3. new.of = req[u].subject /\ new.created = made
    OBVIOUS
  <2> HIDE DEF made, new
  <2>4. Committed' = Committed \union made
    BY <2>1, <2>2 DEF Committed
  <2>5. run # "none"
    BY <2>2 DEF ApprovalInv, StartedFirst
  <2>6. StartedFirst'
    BY <2>1, <2>2, <2>3, <2>4, <2>5 DEF ApprovalInv, StartedFirst
  <2>7. ActivatedByApproval'
    <3>1. \A a \in approvals' :
            /\ a.created \subseteq Committed'
            /\ {NodeOf(r) : r \in a.created} = Successors(NodeOf(a.of))
            /\ \A r, q \in a.created : NodeOf(r) = NodeOf(q) => r = q
      <4> SUFFICES ASSUME NEW a \in approvals'
                   PROVE  /\ a.created \subseteq Committed'
                          /\ {NodeOf(r) : r \in a.created} = Successors(NodeOf(a.of))
                          /\ \A r, q \in a.created : NodeOf(r) = NodeOf(q) => r = q
        OBVIOUS
      <4>1. CASE a = new
        BY <4>1, <2>2, <2>3, <2>4
      <4>2. CASE a \in approvals
        BY <4>2, <2>4 DEF ApprovalInv, ActivatedByApproval
      <4> QED
        BY <4>1, <4>2, <2>1
    <3>2. \A r \in Committed' : NodeOf(r) \notin Roots /\ r \notin recreated' =>
            \E a \in approvals' : r \in a.created
      BY <2>1, <2>3, <2>4 DEF ApprovalInv, ActivatedByApproval
    <3>3. \A a \in approvals : a.created \intersect made = {}
      BY <2>2 DEF ApprovalInv, ActivatedByApproval
    <3>4. \A a, b \in approvals' : a.created \intersect b.created # {} => a = b
      BY <2>1, <2>3, <3>3 DEF ApprovalInv, ActivatedByApproval
    <3> QED
      BY <3>1, <3>2, <3>4 DEF ActivatedByApproval
  <2>8. RunMatchesStages'
    <3>1. run = "completed" <=> \E a \in approvals : a.created = {}
      BY DEF ApprovalInv, RunMatchesStages
    <3>2. (\E a \in approvals' : a.created = {}) <=>
            made = {} \/ \E a \in approvals : a.created = {}
      BY <2>1, <2>3
    <3>3. run' = "completed" <=> \E a \in approvals' : a.created = {}
      BY <2>1, <3>1, <3>2
    <3>4. current' \in Committed'
      BY <2>1, <2>4, <2>5, <1>c
    <3> QED
      BY <3>3, <3>4 DEF RunMatchesStages
  <2> QED
    BY <2>6, <2>7, <2>8 DEF ApprovalInv
<1>3. ASSUME NEW r \in StageRuns, RequestRevision(r)
      PROVE  ApprovalInv'
  <2> DEFINE new == NewRow(NodeOf(r))
  <2>1. new \in StageRuns
    BY <1>3, StageRunShape, NewRowFresh DEF RequestRevision
  <2>2. /\ stage' = [stage EXCEPT ![new] = "pending"]
        /\ recreated' = recreated \union {new}
        /\ current' = new
        /\ run' = run /\ approvals' = approvals
        /\ r \in Committed
    BY <1>3 DEF RequestRevision, Committed
  <2> HIDE DEF new
  <2>3. Committed' = Committed \union {new}
    BY <2>1, <2>2, <1>t DEF Committed
  <2>4. run # "none"
    BY <2>2 DEF ApprovalInv, StartedFirst
  <2> QED
    BY <2>2, <2>3, <2>4, NothingApproved
<1>4. ASSUME NEW u \in Users, CommitMove(u)
      PROVE  ApprovalInv'
  <2>1. req[u].subject \in Committed /\ req[u].to \in StageStatus
    BY <1>4, <1>t DEF CommitMove, OwnRows, Requests
  <2>2. /\ stage' = [stage EXCEPT ![req[u].subject] = req[u].to]
        /\ current' \in {current, req[u].subject}
        /\ UNCHANGED <<run, recreated, approvals>>
    BY <1>4 DEF CommitMove
  <2>3. Committed' = Committed
    BY <2>1, <2>2, <1>t DEF Committed, StageStatus
  <2> QED
    BY <2>1, <2>2, <2>3, <1>c, NothingApproved
<1>5. ASSUME UNCHANGED <<run, current, recreated, approvals>>,
             \/ stage' = stage
             \/ \E r \in StageRuns : stage[r] # "absent" /\ stage' = [stage EXCEPT ![r] = "running"]
      PROVE  ApprovalInv'
  <2>1. Committed' = Committed
    BY <1>5, <1>t DEF Committed
  <2> QED
    BY <1>5, <2>1, <1>c, NothingApproved
<1>6. ASSUME NEW u \in Users,
             \/ RequestExecution(u) \/ EndStart(u) \/ LockStage(u)
             \/ WriteSuccessors(u) \/ OutOfRoom(u) \/ Abort(u)
             \/ \E r \in StageRuns : SetRunning(u, r)
      PROVE  ApprovalInv'
  BY <1>5, <1>6 DEF RequestExecution, EndStart, LockStage, WriteSuccessors, OutOfRoom,
                    Abort, SetRunning
<1>7. ASSUME NEW u \in Users, NEW op, NEW r, NEW to, Begin(u, op, r, to)
      PROVE  ApprovalInv'
  BY <1>5, <1>7 DEF Begin
<1>8. CASE UNCHANGED vars
  BY <1>5, <1>8 DEF vars
<1> QED
  BY <1>1, <1>2, <1>3, <1>4, <1>6, <1>7, <1>8
  DEF Next, Proceed, Advance, BeginApprove, BeginMove, BeginWriteback

-----------------------------------------------------------------------------
(* The inductive invariant: typed variables, rows a transaction may rely   *)
(* on, and approvals that agree with what they made.                       *)
THEOREM RunInvariant == Spec => []RunInv
<1>1. Init => RunInv
  <2> SUFFICES ASSUME Init
               PROVE  RunInv
    OBVIOUS
  <2>1. Committed = {}
    BY DEF Init, Committed
  <2>2. TypeOK
    <3>1. Faults \in 0..Faults
      BY DEF WorkflowAssumption
    <3>2. Idle \in Requests
      BY RequestTyped
    <3>3. req \in [Users -> Requests]
      BY <3>2 DEF Init
    <3>4. stage \in [StageRuns -> StageStatus \union {"absent"}]
      BY DEF Init
    <3> QED
      BY <2>1, <3>1, <3>3, <3>4 DEF Init, TypeOK
  <2>3. OwnRows /\ RowsApart
    BY DEF Init, Idle, OwnRows, RowsApart
  <2>4. StartedFirst /\ ActivatedByApproval /\ RunMatchesStages
    BY <2>1 DEF Init, StartedFirst, ActivatedByApproval, RunMatchesStages
  <2> QED
    BY <2>2, <2>3, <2>4 DEF RunInv
<1>2. RunInv /\ [Next]_vars => RunInv'
  BY TypeKept, RowsKept, ApprovalsKept DEF RunInv, ApprovalInv
<1> QED
  BY <1>1, <1>2, PTL DEF Spec

(* The variables keep their types, and only inserted rows are committed.   *)
THEOREM TypeCorrect == Spec => []TypeOK
<1>1. RunInv => TypeOK
  BY DEF RunInv
<1> QED
  BY <1>1, RunInvariant, PTL

(* For every definition and any overlap of approvals, revisions, moves and *)
(* rollbacks: each approval has made one row for each successor, and no    *)
(* other row appears.                                                      *)
THEOREM ApprovalsActivate == Spec => []ActivatedByApproval
<1>1. RunInv => ActivatedByApproval
  BY DEF RunInv
<1> QED
  BY <1>1, RunInvariant, PTL

(* A run is completed exactly when a stage without successors has been     *)
(* approved, and its pointer never dangles.                                *)
THEOREM RunFollowsStages == Spec => []RunMatchesStages
<1>1. RunInv => RunMatchesStages
  BY DEF RunInv
<1> QED
  BY <1>1, RunInvariant, PTL
=============================================================================
