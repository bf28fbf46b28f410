----------------------- MODULE ExecutionPipelineProofs -----------------------
(***************************************************************************)
(* The pipeline behaves like its two parts, so that their theorems hold of *)
(* it, and together they keep a stage from losing its answer: for every    *)
(* maximum of attempts, number of retries, dispatches, users and faults.   *)
(***************************************************************************)
EXTENDS ExecutionPipeline, TLAPS

QueueTheory == INSTANCE ExecutionJobsProofs WITH
  Jobs <- {job}, MaxAttempts <- [j \in {job} |-> Attempts],
  Records <- {}, RecordOf <- [j \in {job} |-> NoRecord],
  record <- << >>, recordJob <- << >>, calls <- << >>

DeliveryTheory == INSTANCE StageWritebackProofs WITH
  Stages <- {stageRun}, Events <- Rows,
  SubjectOf <- SubjectOfRow, ResultOf <- ResultOfRow

-----------------------------------------------------------------------------
(* The rows.  A row tells its event: numbers of two attempts, or of two     *)
(* types, differ.                                                           *)
LEMMA RowTells ==
  ASSUME NEW t \in Relayed, NEW u \in Relayed, NEW m \in Nat, NEW n \in Nat,
         RowNumber(t, m) = RowNumber(u, n)
  PROVE  t = u /\ m = n
BY DEF RowNumber, Relayed

(* Rows are numbered from 1, as the relay's order of created_at asks. *)
LEMMA RowsAreNumbers == Rows \subseteq Nat
<1>1. ASSUME NEW t \in Relayed, NEW n \in 1..MostAttempts
      PROVE  RowNumber(t, n) \in Nat
  BY DEF RowNumber, Relayed
<1> QED
  BY <1>1 DEF Rows, RowsOf, Relayed

(* The row of a result is about the stage. *)
LEMMA SubjectOfResult ==
  ASSUME NEW t \in {"failed", "success"}, NEW n \in Nat, RowNumber(t, n) \in Rows
  PROVE  SubjectOfRow[RowNumber(t, n)] = stageRun
<1>1. MostAttempts \in Int
  BY PipelineAssumption DEF MostAttempts
<1>2. RowNumber(t, n) \notin RowsOf("lock_timeout")
  BY <1>1, RowTells DEF RowsOf, Relayed
<1> QED
  BY <1>2 DEF SubjectOfRow

(* What the two parts assume of their constants, from this module's. *)
LEMMA AssumptionsMet ==
  /\ QueueTheory!JobsAssumption
  /\ DeliveryTheory!RelayAssumption
  /\ DeliveryTheory!WritebackAssumption
<1>1. QueueTheory!JobsAssumption
  BY PipelineAssumption DEF QueueTheory!JobsAssumption
<1>2. DeliveryTheory!RelayAssumption
  BY PipelineAssumption, RowsAreNumbers DEF DeliveryTheory!RelayAssumption
<1>3. DeliveryTheory!WritebackAssumption
  BY PipelineAssumption
     DEF DeliveryTheory!WritebackAssumption, DeliveryTheory!Subjects, SubjectOfRow, ResultOfRow
<1> QED
  BY <1>1, <1>2, <1>3
-----------------------------------------------------------------------------
(* A step of the pipeline is one of the queue, or leaves it alone. *)
LEMMA QueueStep ==
  ASSUME [PipelineNext]_vars
  PROVE  [QueueTheory!Next]_(QueueTheory!vars)
<1>0. \A S : Queue!Cardinality(S) = QueueTheory!Cardinality(S)
  BY DEF Queue!Cardinality, QueueTheory!Cardinality
<1>1. Queue!Next => QueueTheory!Next
  BY <1>0 DEF Queue!Next, QueueTheory!Next,
        Queue!CreateJob, QueueTheory!CreateJob, Queue!BackoffElapses,
        QueueTheory!BackoffElapses, Queue!Claim, QueueTheory!Claim,
        Queue!PreparePublisherRecord, QueueTheory!PreparePublisherRecord, Queue!Succeed,
        QueueTheory!Succeed, Queue!FailForGood, QueueTheory!FailForGood, Queue!FailAndRetry,
        QueueTheory!FailAndRetry, Queue!FailExhausted, QueueTheory!FailExhausted, Queue!Crash,
        QueueTheory!Crash, Queue!RecoverStale, QueueTheory!RecoverStale, Queue!ManualRetry,
        QueueTheory!ManualRetry, Queue!CreateRecord, QueueTheory!CreateRecord, Queue!Resend,
        QueueTheory!Resend, Queue!Withdraw, QueueTheory!Withdraw, Queue!Process,
        QueueTheory!Process, Queue!Stale, QueueTheory!Stale, Queue!Settle, QueueTheory!Settle,
        Queue!MarkRecord, QueueTheory!MarkRecord, Queue!Emit, QueueTheory!Emit,
        Queue!HasRecord, QueueTheory!HasRecord, Queue!ShouldRetry, QueueTheory!ShouldRetry,
        Queue!jobVars, QueueTheory!jobVars, Queue!recordVars, QueueTheory!recordVars
<1>2. UNCHANGED jobVars => UNCHANGED QueueTheory!vars
  BY DEF jobVars, QueueTheory!vars, QueueTheory!jobVars, QueueTheory!recordVars
<1> QED
  BY <1>1, <1>2 DEF PipelineNext, JobStep, DeliveryStep, vars

(* The pipeline is a behaviour of the worker's queue, whatever the relay    *)
(* and the handler do meanwhile: what is proved of the queue holds of it.   *)
THEOREM PipelineIsAQueue == PipelineSpec => QueueTheory!Spec
<1>1. PipelineInit => QueueTheory!Init
  BY DEF PipelineInit, Queue!Init, QueueTheory!Init
<1>2. [PipelineNext]_vars => [QueueTheory!Next]_(QueueTheory!vars)
  BY QueueStep
<1> QED
  BY <1>1, <1>2, PTL DEF PipelineSpec, QueueTheory!Spec

(* What the queue's theorems then say of the pipeline. *)
QueueInv ==
  /\ QueueTheory!TypeOK
  /\ QueueTheory!AttemptBudget
  /\ QueueTheory!EventsInv

LEMMA QueueInvariant == PipelineSpec => []QueueInv
<1>1. QueueTheory!Spec => []QueueTheory!TypeOK
  BY AssumptionsMet, QueueTheory!TypeCorrect
<1>2. QueueTheory!Spec => []QueueTheory!AttemptBudget
  BY AssumptionsMet, QueueTheory!AttemptsAlwaysBounded
<1>3. QueueTheory!Spec => []QueueTheory!EventsInv
  BY AssumptionsMet, QueueTheory!EventsInvariant
<1> QED
  BY <1>1, <1>2, <1>3, PipelineIsAQueue, PTL DEF QueueInv

-----------------------------------------------------------------------------
(* The rows of the relay are those of the outbox, and the bound of the      *)
(* attempts bounds them.                                                    *)
LEMMA RowsBounded == QueueInv => RowsIn(outbox) \subseteq Rows
<1> SUFFICES ASSUME QueueInv, NEW v \in outbox, v.type \in Relayed
             PROVE  RowNumber(v.type, v.attempt) \in Rows
  BY DEF RowsIn
<1> USE PipelineAssumption
<1>1. attempts[job] \in Nat /\ manualRetries[job] \in Nat /\ v.job = job
  BY DEF QueueInv, QueueTheory!TypeOK, QueueTheory!Event
<1>2. v.attempt \in 1..attempts[job] /\ manualRetries[job] <= ManualRetryBound
  BY <1>1 DEF QueueInv, QueueTheory!EventsInv, Relayed
<1>3. attempts[job] <= manualRetries[job] +
        (IF LockCoversRuntime THEN Attempts ELSE 2 * Attempts - 1)
  BY DEF QueueInv, QueueTheory!AttemptBudget
<1>4. v.attempt \in 1..MostAttempts
  BY <1>1, <1>2, <1>3 DEF MostAttempts
<1> QED
  BY <1>4 DEF Rows, RowsOf, Relayed

LEMMA RowsInvariant == PipelineSpec => [](inserted = RowsIn(outbox) /\ inserted \subseteq Rows)
<1>1. PipelineInit => inserted = RowsIn(outbox)
  BY DEF PipelineInit, Queue!Init, Delivery!Init, Delivery!RelayInit, RowsIn
<1>2. inserted = RowsIn(outbox) /\ [PipelineNext]_vars => (inserted = RowsIn(outbox))'
  BY DEF PipelineNext, JobStep, DeliveryStep, vars, jobVars, RowsIn
<1>3. PipelineSpec => [](inserted = RowsIn(outbox))
  BY <1>1, <1>2, PTL DEF PipelineSpec
<1>4. QueueInv /\ inserted = RowsIn(outbox) => inserted \subseteq Rows
  BY RowsBounded
<1> QED
  BY <1>3, <1>4, QueueInvariant, PTL

(* A step of the queue adds at most one row. *)
LEMMA RowsOfStep ==
  ASSUME QueueInv, [QueueTheory!Next]_(QueueTheory!vars),
         inserted = RowsIn(outbox), inserted' = RowsIn(outbox')
  PROVE  \/ inserted' = inserted
         \/ \E r : inserted' = inserted \union {r}
<1>1. \/ UNCHANGED outbox
      \/ \E v \in QueueTheory!Event : outbox' = outbox \union {v}
      \/ \E S \in SUBSET {job} : QueueTheory!RecoverStale(S)
  BY AssumptionsMet, QueueTheory!EventsOfStep DEF QueueInv
<1>2. ASSUME NEW v, outbox' = outbox \union {v}
      PROVE  \/ inserted' = inserted
             \/ inserted' = inserted \union {RowNumber(v.type, v.attempt)}
  BY <1>2 DEF RowsIn
<1>3. ASSUME NEW S \in SUBSET {job}, QueueTheory!RecoverStale(S)
      PROVE  \E v : outbox' = outbox \union {v}
  <2>1. S = {job}
    BY <1>3 DEF QueueTheory!RecoverStale
  <2>2. outbox' = outbox \union
          {[type |-> "lock_timeout", job |-> j, attempt |-> attempts[j]] : j \in {job}}
    BY <1>3, <2>1 DEF QueueTheory!RecoverStale
  <2>3. outbox' = outbox \union
          {[type |-> "lock_timeout", job |-> job, attempt |-> attempts[job]]}
    BY <2>2
  <2> QED
    BY <2>3
<1> QED
  BY <1>1, <1>2, <1>3
-----------------------------------------------------------------------------
(* The same relay, handler and users in the instance with the theorems. *)
LEMMA DeliveryNext == Delivery!Next => DeliveryTheory!Next
BY DEF Delivery!Next, DeliveryTheory!Next,
        Delivery!RelayStep, DeliveryTheory!RelayStep, Delivery!Insert, DeliveryTheory!Insert,
        Delivery!LeaseExpires, DeliveryTheory!LeaseExpires, Delivery!Claim,
        DeliveryTheory!Claim, Delivery!Claimable, DeliveryTheory!Claimable,
        Delivery!ProcessEvent, DeliveryTheory!ProcessEvent, Delivery!Dispatch,
        DeliveryTheory!Dispatch, Delivery!MarkProcessed, DeliveryTheory!MarkProcessed,
        Delivery!MarkFailed, DeliveryTheory!MarkFailed, Delivery!Crash, DeliveryTheory!Crash,
        Delivery!Release, DeliveryTheory!Release, Delivery!Throw, DeliveryTheory!Throw,
        Delivery!HandlerReturns, DeliveryTheory!HandlerReturns, Delivery!InHandler,
        DeliveryTheory!InHandler, Delivery!Relay, DeliveryTheory!Relay, Delivery!RolledBack,
        DeliveryTheory!RolledBack, Delivery!HandleNoOp, DeliveryTheory!HandleNoOp,
        Delivery!PlanSkip, DeliveryTheory!PlanSkip, Delivery!MarkSkipped,
        DeliveryTheory!MarkSkipped, Delivery!ReadStage, DeliveryTheory!ReadStage,
        Delivery!Commit, DeliveryTheory!Commit, Delivery!HandlerThrows,
        DeliveryTheory!HandlerThrows, Delivery!MarkThrows, DeliveryTheory!MarkThrows,
        Delivery!Handle, DeliveryTheory!Handle, Delivery!CreateStage,
        DeliveryTheory!CreateStage, Delivery!BeginTransition, DeliveryTheory!BeginTransition,
        Delivery!CommitTransition, DeliveryTheory!CommitTransition, Delivery!Settled,
        DeliveryTheory!Settled, Delivery!TargetFor, DeliveryTheory!TargetFor, Delivery!Allowed,
        DeliveryTheory!Allowed, Delivery!StageStatus, DeliveryTheory!StageStatus,
        Delivery!relayVars, DeliveryTheory!relayVars, Delivery!writebackVars,
        DeliveryTheory!writebackVars

(* A step of the queue inserts a row for the relay, or is none of its own.  *)
LEMMA DeliverySteps ==
  ASSUME QueueInv, inserted = RowsIn(outbox), inserted' = RowsIn(outbox'),
         inserted' \subseteq Rows, DeliveryTheory!SeenInv, [PipelineNext]_vars
  PROVE  [DeliveryTheory!Next]_(DeliveryTheory!vars)
<1> USE DEF DeliveryTheory!vars, DeliveryTheory!relayVars, DeliveryTheory!writebackVars
<1>1. CASE JobStep
  <2>1. UNCHANGED deliveryVars
    BY <1>1 DEF JobStep
  <2>2. CASE inserted' = inserted
    BY <2>1, <2>2 DEF deliveryVars
  <2>3. ASSUME NEW r, inserted' = inserted \union {r}, inserted' # inserted
        PROVE  DeliveryTheory!Next
    <3>1. r \in Rows /\ DeliveryTheory!Insert(r)
      BY <2>1, <2>3 DEF deliveryVars, DeliveryTheory!Insert
    <3>2. DeliveryTheory!RolledBack
      BY <2>1 DEF deliveryVars, DeliveryTheory!RolledBack, DeliveryTheory!SeenInv
    <3> QED
      BY <3>1, <3>2 DEF DeliveryTheory!Next, DeliveryTheory!Relay, DeliveryTheory!RelayStep
  <2> QED
    BY <2>2, <2>3, RowsOfStep, QueueStep
<1>2. CASE DeliveryStep
  BY <1>2, DeliveryNext DEF DeliveryStep
<1>3. CASE UNCHANGED vars
  BY <1>3 DEF vars, deliveryVars
<1> QED
  BY <1>1, <1>2, <1>3 DEF PipelineNext

(* The pipeline is a behaviour of the relay and its handler, fed by the     *)
(* outbox of the queue instead of by anybody.                               *)
THEOREM PipelineIsADelivery == PipelineSpec => DeliveryTheory!Spec
<1>1. PipelineInit => DeliveryTheory!Init
  BY DEF PipelineInit, Delivery!Init, DeliveryTheory!Init, Delivery!RelayInit,
         DeliveryTheory!RelayInit
<1>2. DeliveryTheory!Init => DeliveryTheory!SeenInv
  BY AssumptionsMet, DeliveryTheory!SeenStart
<1>3. /\ QueueInv /\ inserted = RowsIn(outbox) /\ DeliveryTheory!SeenInv
      /\ (inserted = RowsIn(outbox) /\ inserted \subseteq Rows)'
      /\ [PipelineNext]_vars
      => [DeliveryTheory!Next]_(DeliveryTheory!vars)
  BY DeliverySteps
<1>4. DeliveryTheory!SeenInv /\ [DeliveryTheory!Next]_(DeliveryTheory!vars)
        => DeliveryTheory!SeenInv'
  BY AssumptionsMet, DeliveryTheory!SeenStep
<1> QED
  BY <1>1, <1>2, <1>3, <1>4, QueueInvariant, RowsInvariant, PTL
     DEF PipelineSpec, DeliveryTheory!Spec

(* What the theorems about the delivery then say of the pipeline. *)
DeliveryInv ==
  /\ DeliveryTheory!TypeOK
  /\ DeliveryTheory!ConsumptionInv
  /\ DeliveryTheory!CleanInv

LEMMA DeliveryInvariant == PipelineSpec => []DeliveryInv
<1>1. DeliveryTheory!Spec => []DeliveryTheory!TypeOK
  BY AssumptionsMet, DeliveryTheory!TypeCorrect
<1>2. DeliveryTheory!Spec => []DeliveryTheory!ConsumptionInv
  BY AssumptionsMet, DeliveryTheory!ConsumptionInvariant
<1>3. DeliveryTheory!Spec => []DeliveryTheory!CleanInv
  BY AssumptionsMet, DeliveryTheory!CleanInvariant
<1> QED
  BY <1>1, <1>2, <1>3, PipelineIsADelivery, PTL DEF DeliveryInv
-----------------------------------------------------------------------------
(* What a stage that waits may rely on: a job settled by a result, with the *)
(* stage still running, has a result on its way to the stage.               *)
OutcomeInv ==
  /\ outcome \in {"awaited", "answered", "recovered", "overtaken"}
  /\ outcome = "awaited" <=> status[job] \notin SettledStatus

AnswerInv ==
  outcome = "answered" /\ stage[stageRun] = "running" =>
    \E e \in Rows : DeliveryTheory!OnItsWay(e, stageRun)

LEMMA OutcomeStep ==
  ASSUME OutcomeInv, [PipelineNext]_vars
  PROVE  OutcomeInv'
BY DEF OutcomeInv, PipelineNext, JobStep, DeliveryStep, vars, jobVars

(* A result that settles the job is a row the relay has never seen.         *)
LEMMA ResultGoesOut ==
  ASSUME QueueInv, DeliveryInv, inserted = RowsIn(outbox), inserted' \subseteq Rows,
         JobStep, ledger' # ledger, status'[job] \in SettledStatus
  PROVE  \E e \in Rows : DeliveryTheory!OnItsWay(e, stageRun)'
<1>1. PICK x \in executing, t \in {"success", "failed", "retry_scheduled"} :
        /\ outbox' = outbox \union {[type |-> t, job |-> x.job, attempt |-> x.attempt]}
        /\ ~\E l \in ledger : l.job = x.job /\ l.attempt = x.attempt
        /\ t = "retry_scheduled" => status'[x.job] = "pending"
  <2>1. [PipelineNext]_vars
    BY DEF PipelineNext
  <2>2. [QueueTheory!Next]_(QueueTheory!vars)
    BY <2>1, QueueStep
  <2> QED
    BY <2>2, AssumptionsMet, QueueTheory!ResultHasEvent DEF QueueInv
<1>2. x.job = job /\ x.attempt \in Nat
  BY DEF QueueInv, QueueTheory!TypeOK, QueueTheory!Execution
<1>3. t \in {"success", "failed"}
  BY <1>1, <1>2 DEF SettledStatus
<1> DEFINE r == RowNumber(t, x.attempt)
<1>4. r \in inserted' /\ r \in Rows
  <2>1. r \in RowsIn(outbox')
    <3>1. [type |-> t, job |-> x.job, attempt |-> x.attempt] \in outbox'
      BY <1>1
    <3> QED
      BY <1>3, <3>1 DEF RowsIn, Relayed
  <2> QED
    BY <2>1 DEF JobStep
<1>5. r \notin inserted
  <2> SUFFICES ASSUME NEW v \in outbox, v.type \in Relayed,
                      RowNumber(v.type, v.attempt) = r
               PROVE  FALSE
    BY DEF RowsIn
  <2>1. v.job = job /\ v.attempt \in Nat
    BY DEF QueueInv, QueueTheory!TypeOK, QueueTheory!Event
  <2>2. v.type = t /\ v.attempt = x.attempt
    BY <1>2, <1>3, <2>1, RowTells DEF Relayed
  <2>3. \E l \in ledger : l.job = v.job /\ l.attempt = v.attempt
    BY <1>3, <2>2 DEF QueueInv, QueueTheory!EventsInv
  <2> QED
    BY <1>1, <1>2, <2>1, <2>2, <2>3
<1>6. SubjectOfRow[r] = stageRun
  BY <1>2, <1>3, <1>4, SubjectOfResult
<1> HIDE DEF r
<1>7. writeback[r] = "none" /\ \A s \in Slots : event[s] # r
  BY <1>4, <1>5, PipelineAssumption
     DEF DeliveryInv, DeliveryTheory!CleanInv, DeliveryTheory!ConsumptionInv,
         DeliveryTheory!HoldingInv, DeliveryTheory!Holding
<1>8. DeliveryTheory!OnItsWay(r, stageRun)'
  BY <1>4, <1>6, <1>7 DEF JobStep, deliveryVars, DeliveryTheory!OnItsWay, DeliveryTheory!Settled
<1> QED
  BY <1>4, <1>8

LEMMA AnswerStep ==
  ASSUME QueueInv, DeliveryInv, OutcomeInv, AnswerInv, inserted = RowsIn(outbox),
         inserted' = RowsIn(outbox'), inserted' \subseteq Rows,
         DeliveryTheory!SeenInv, [PipelineNext]_vars
  PROVE  AnswerInv'
<1> SUFFICES ASSUME outcome' = "answered", stage'[stageRun] = "running"
             PROVE  \E e \in Rows : DeliveryTheory!OnItsWay(e, stageRun)'
  BY DEF AnswerInv
<1>1. CASE JobStep /\ ledger' # ledger
  <2>1. status'[job] \in SettledStatus
    BY <1>1 DEF JobStep
  <2> QED
    BY <1>1, <2>1, ResultGoesOut
<1>2. CASE JobStep /\ ledger' = ledger
  <2>1. outcome = "answered" /\ UNCHANGED deliveryVars
    BY <1>2 DEF JobStep
  <2>2. inserted \subseteq inserted'
    BY <1>2, RowsOfStep, QueueStep
  <2> QED
    BY <2>1, <2>2
       DEF AnswerInv, deliveryVars, DeliveryTheory!OnItsWay, DeliveryTheory!Settled
<1>3. CASE DeliveryStep
  <2>1. outcome = "answered" /\ ~\E u \in Users : PutsRunning(u)
    BY <1>3 DEF DeliveryStep, OutcomeInv
  <2>2. ~\E u \in Users : DeliveryTheory!PutsRunning(u, stageRun)
    BY <2>1 DEF PutsRunning, DeliveryTheory!PutsRunning
  <2>3. [DeliveryTheory!Next]_(DeliveryTheory!vars)
    BY DeliverySteps
  <2>4. /\ stage[stageRun] = "running"
        /\ \A e \in Rows : DeliveryTheory!OnItsWay(e, stageRun) =>
             DeliveryTheory!OnItsWay(e, stageRun)'
    BY <2>2, <2>3, AssumptionsMet, DeliveryTheory!OnItsWayStep
       DEF DeliveryInv, DeliveryTheory!ConsumptionInv
  <2> QED
    BY <2>1, <2>4 DEF AnswerInv
<1>4. CASE UNCHANGED vars
  BY <1>4 DEF vars, deliveryVars, AnswerInv, DeliveryTheory!OnItsWay, DeliveryTheory!Settled
<1> QED
  BY <1>1, <1>2, <1>3, <1>4 DEF PipelineNext

LEMMA AnswerInvariant == PipelineSpec => [](OutcomeInv /\ AnswerInv)
<1>1. PipelineInit => OutcomeInv /\ AnswerInv
  BY DEF PipelineInit, Queue!Init, OutcomeInv, AnswerInv, SettledStatus
<1>2. OutcomeInv /\ [PipelineNext]_vars => OutcomeInv'
  BY OutcomeStep
<1>3. /\ QueueInv /\ DeliveryInv /\ OutcomeInv /\ AnswerInv
      /\ inserted = RowsIn(outbox) /\ DeliveryTheory!SeenInv
      /\ (inserted = RowsIn(outbox) /\ inserted \subseteq Rows)'
      /\ [PipelineNext]_vars
      => AnswerInv'
  BY AnswerStep
<1>4. DeliveryTheory!Init => DeliveryTheory!SeenInv
  BY AssumptionsMet, DeliveryTheory!SeenStart
<1>5. DeliveryTheory!SeenInv /\ [DeliveryTheory!Next]_(DeliveryTheory!vars)
        => DeliveryTheory!SeenInv'
  BY AssumptionsMet, DeliveryTheory!SeenStep
<1> QED
  BY <1>1, <1>2, <1>3, <1>4, <1>5, QueueInvariant, DeliveryInvariant, RowsInvariant,
     PipelineIsADelivery, PTL DEF PipelineSpec, DeliveryTheory!Spec

-----------------------------------------------------------------------------
(* The variables of both parts keep their shape when they run together, the *)
(* relay's rows are exactly those of the outbox, each within the bound of   *)
(* the attempts, and the outcome follows the job.                           *)
THEOREM PipelineTypeCorrect == PipelineSpec => []PipelineTypeOK
<1>1. QueueInv => Queue!TypeOK
  BY DEF QueueInv, QueueTheory!TypeOK, Queue!TypeOK, Queue!JobStatus, QueueTheory!JobStatus,
         Queue!RecordStatus, QueueTheory!RecordStatus, Queue!Execution, QueueTheory!Execution,
         Queue!Result, QueueTheory!Result, Queue!Event, QueueTheory!Event, Queue!EventType,
         QueueTheory!EventType, Queue!Phase, QueueTheory!Phase
<1>2. DeliveryInv => Delivery!TypeOK
  BY DEF DeliveryInv, DeliveryTheory!TypeOK, Delivery!TypeOK, Delivery!RelayTypeOK,
         DeliveryTheory!RelayTypeOK, Delivery!Phase, DeliveryTheory!Phase,
         Delivery!StageStatus, DeliveryTheory!StageStatus
<1> QED
  BY <1>1, <1>2, QueueInvariant, DeliveryInvariant, RowsInvariant, AnswerInvariant, PTL
     DEF PipelineTypeOK, OutcomeInv

(* Whatever crashes, is redelivered, commits late or is retried by hand: a  *)
(* stage left running, with its job settled and all its rows processed, was *)
(* left so by the recovery of a stale lock, or put running too late.        *)
THEOREM NoAnswerLost == PipelineSpec => []StrandedOnlyByRecovery
<1>1. DeliveryInv /\ OutcomeInv /\ AnswerInv => StrandedOnlyByRecovery
  <2> SUFFICES ASSUME DeliveryInv, OutcomeInv, AnswerInv,
                      stage[stageRun] = "running", status[job] \in SettledStatus,
                      inserted \subseteq processed, outcome = "answered"
               PROVE  FALSE
    BY DEF StrandedOnlyByRecovery, OutcomeInv
  <2>1. PICK e \in Rows : DeliveryTheory!OnItsWay(e, stageRun)
    BY DEF AnswerInv
  <2>2. e \in processed /\ SubjectOfRow[e] # NotTerminal
    BY <2>1, PipelineAssumption DEF DeliveryTheory!OnItsWay
  <2> QED
    BY <2>1, <2>2 DEF DeliveryInv, DeliveryTheory!ConsumptionInv,
       DeliveryTheory!ProcessedIsConsumed, DeliveryTheory!OnItsWay
<1> QED
  BY <1>1, DeliveryInvariant, AnswerInvariant, PTL
=============================================================================
