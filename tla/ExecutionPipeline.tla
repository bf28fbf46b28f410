-------------------------- MODULE ExecutionPipeline --------------------------
(***************************************************************************)
(* From the job a stage asked for to the stage's next status: the queue of *)
(* ExecutionJobs and the relay and handler of StageWriteback, joined by    *)
(* the outbox.  One stage run and the one job its idempotency key allows;  *)
(* operators, users, lapsed locks and crashes of either side as there.     *)
(***************************************************************************)
EXTENDS Integers, FiniteSets

CONSTANTS
  job, stageRun,
  Attempts,           \* execution_jobs.max_attempts of the job
  LockCoversRuntime,  \* TRUE: no lock expires while its process still runs
  Concurrency,        \* bound: process() calls in flight at once
  ManualRetryBound,   \* bound: manual retries
  Slots,              \* bound: dispatches in flight at once
  Users,              \* bound: control-plane transitions in flight at once
  Faults,             \* bound: crashes and errors of relay and handler
  NoRecord, NoJob, NoEvent, NoStage, Unsupported, NoSubject, NotTerminal

VARIABLES
  status, attempts, backoff, manualRetries, executing, ledger, outbox,
  inserted, processed, leased, event, phase, faults,
  stage, writeback, applications, seen, editing, target,
  outcome             \* what the job has last done for its stage (history)

jobVars == <<status, attempts, backoff, manualRetries, executing, ledger, outbox>>
deliveryVars == <<processed, leased, event, phase, faults,
                  stage, writeback, applications, seen, editing, target>>
vars == <<jobVars, inserted, deliveryVars, outcome>>

-----------------------------------------------------------------------------
(* Of an attempt's events the relay's rows carry its two terminal ones and *)
(* its lock_timeout, which has a no-op handler like the rest.  They are    *)
(* numbered attempt by attempt; an operator delivers them in any order.    *)
MostAttempts ==
  ManualRetryBound + (IF LockCoversRuntime THEN Attempts ELSE 2 * Attempts - 1)

Relayed == {"failed", "success", "lock_timeout"}

RowNumber(type, attempt) ==
  3 * attempt - (CASE type = "failed" -> 2 [] type = "success" -> 1 [] OTHER -> 0)

RowsOf(type) == {RowNumber(type, n) : n \in 1..MostAttempts}
Rows == RowsOf("failed") \union RowsOf("success") \union RowsOf("lock_timeout")

SubjectOfRow == [e \in Rows |-> IF e \in RowsOf("lock_timeout") THEN NotTerminal ELSE stageRun]
ResultOfRow == [e \in Rows |-> IF e \in RowsOf("success") THEN "success" ELSE "failed"]

(* Mutant: a result is committed without its event. *)
RowsOfTimeouts(events) ==
  {RowNumber(v.type, v.attempt) : v \in {w \in events : w.type = "lock_timeout"}}

RowsIn(events) == {RowNumber(v.type, v.attempt) : v \in {w \in events : w.type \in Relayed}}

ASSUME PipelineAssumption ==
  /\ Attempts \in Nat \ {0}
  /\ LockCoversRuntime \in BOOLEAN
  /\ Concurrency \in Nat \ {0}
  /\ ManualRetryBound \in Nat
  /\ Faults \in Nat
  /\ NoJob # job
  /\ NoEvent \notin Rows
  /\ stageRun \notin {NoStage, Unsupported, NoSubject, NotTerminal}

(* An agent's job names no publish record. *)
Queue == INSTANCE ExecutionJobs WITH
  Jobs <- {job}, MaxAttempts <- [j \in {job} |-> Attempts],
  Records <- {}, RecordOf <- [j \in {job} |-> NoRecord],
  record <- << >>, recordJob <- << >>, calls <- << >>

Delivery == INSTANCE StageWriteback WITH
  Stages <- {stageRun}, Events <- Rows,
  SubjectOf <- SubjectOfRow, ResultOf <- ResultOfRow

SettledStatus == {"success", "failed"}

PipelineTypeOK ==
  /\ Queue!TypeOK
  /\ Delivery!TypeOK
  /\ inserted = RowsIn(outbox)
  /\ outcome \in {"awaited", "answered", "recovered", "overtaken"}
  /\ outcome = "awaited" <=> status[job] \notin SettledStatus

PipelineInit == Queue!Init /\ Delivery!Init /\ outcome = "awaited"

-----------------------------------------------------------------------------
(* A step of the queue: its event is a row of the outbox in the same       *)
(* transaction.  A job is settled by a result ("answered") or, failed      *)
(* without one, by the recovery of its lock ("recovered").                 *)
JobStep ==
  /\ Queue!Next
  /\ inserted' = RowsIn(outbox')
  /\ outcome' = IF status'[job] \notin SettledStatus THEN "awaited"
                ELSE IF ledger' # ledger THEN "answered"
                ELSE IF status' # status THEN "recovered"
                ELSE outcome
  /\ UNCHANGED deliveryVars

PutsRunning(u) ==
  editing[u] = stageRun /\ target[u] = "running" /\ editing'[u] = NoStage

(* A step of the relay, the handler or a user.  Putting a stage running    *)
(* asks for no job: when the job is settled the wait is "overtaken".       *)
DeliveryStep ==
  /\ UNCHANGED <<jobVars, inserted>>
  /\ Delivery!Next
  /\ outcome' = IF status[job] \in SettledStatus /\ \E u \in Users : PutsRunning(u)
                THEN "overtaken" ELSE outcome

PipelineNext == JobStep \/ DeliveryStep

PipelineSpec == PipelineInit /\ [][PipelineNext]_vars

(* The timers of both planes run; nobody is obliged to retry, to deliver   *)
(* by hand or to move a stage.                                             *)
FairPipelineSpec == PipelineSpec /\ Queue!Fairness /\ Delivery!Fairness

-----------------------------------------------------------------------------
(* A stage left running with its job settled and every row processed was   *)
(* left so by a stale lock that used up the job, or put running too late:  *)
(* no result gets lost between the worker's commit and the stage, whatever *)
(* crashes, is redelivered, commits late or is retried by hand.            *)
StrandedOnlyByRecovery ==
  /\ stage[stageRun] = "running"
  /\ status[job] \in SettledStatus
  /\ inserted \subseteq processed
  => outcome \in {"recovered", "overtaken"}

(* A running stage whose job is under way gets its answer, by the timers   *)
(* alone, unless the job is failed by recovery or the stage is put running *)
(* anew after the job was settled.                                         *)
StageAnswered ==
  stage[stageRun] = "running" /\ status[job] \in {"pending", "running"}
    ~> stage[stageRun] # "running" \/ outcome \in {"recovered", "overtaken"}
=============================================================================
