------------------------ MODULE ExecutionJobsProofs ------------------------
(***************************************************************************)
(* Theorems about ExecutionJobs, for every set of jobs and records, every  *)
(* maximum of attempts and every bound.                                    *)
(***************************************************************************)
EXTENDS ExecutionJobs, FiniteSetTheorems, TLAPS

USE JobsAssumption

(* Every variable keeps the shape of its table. *)
THEOREM TypeCorrect == Spec => []TypeOK
<1> USE DEF TypeOK, JobStatus, RecordStatus, EventType, Phase, Execution, Result,
            Event
<1>1. Init => TypeOK
  BY DEF Init
<1>2. TypeOK /\ [Next]_vars => TypeOK'
  <2> SUFFICES ASSUME TypeOK, [Next]_vars
               PROVE  TypeOK'
    OBVIOUS
  <2> USE DEF jobVars, recordVars, Emit
  <2>1. ASSUME NEW j \in Jobs, CreateJob(j)
        PROVE  TypeOK'
    BY <2>1 DEF CreateJob
  <2>2. ASSUME NEW j \in Jobs, BackoffElapses(j)
        PROVE  TypeOK'
    BY <2>2 DEF BackoffElapses
  <2>3. ASSUME NEW j \in Jobs, Claim(j)
        PROVE  TypeOK'
    BY <2>3 DEF Claim
  <2>4. ASSUME NEW j \in Jobs, ManualRetry(j)
        PROVE  TypeOK'
    BY <2>4 DEF ManualRetry
  <2>5. ASSUME NEW e \in executing, PreparePublisherRecord(e), HasRecord(e.job)
        PROVE  TypeOK'
    <3>1. e \in Execution /\ RecordOf[e.job] \in Records
      BY <2>5 DEF HasRecord
    <3>2. [e EXCEPT !.phase = "calling"] \in Execution
          /\ [e EXCEPT !.phase = "blocked"] \in Execution
      BY <3>1
    <3> QED
      BY <2>5, <3>1, <3>2 DEF PreparePublisherRecord
  <2>6. ASSUME NEW e \in executing, Succeed(e)
        PROVE  TypeOK'
    BY <2>6 DEF Succeed, Settle, MarkRecord, HasRecord
  <2>7. ASSUME NEW e \in executing, FailForGood(e)
        PROVE  TypeOK'
    BY <2>7 DEF FailForGood, Settle, MarkRecord, HasRecord
  <2>8. ASSUME NEW e \in executing, FailAndRetry(e)
        PROVE  TypeOK'
    BY <2>8 DEF FailAndRetry, Settle
  <2>9. ASSUME NEW e \in executing, FailExhausted(e)
        PROVE  TypeOK'
    BY <2>9 DEF FailExhausted, Settle, MarkRecord, HasRecord
  <2>10. ASSUME NEW e \in executing, Crash(e)
         PROVE  TypeOK'
    BY <2>10 DEF Crash
  <2>11. ASSUME NEW S \in SUBSET Jobs, RecoverStale(S)
         PROVE  TypeOK'
    <3>1. status' \in [Jobs -> JobStatus \union {"absent"}]
      BY <2>11 DEF RecoverStale
    <3>2. \A j \in Jobs : ShouldRetry(j, attempts[j]) \in BOOLEAN
      BY DEF ShouldRetry
    <3>3. backoff' \in [Jobs -> BOOLEAN]
      BY <2>11, <3>2, Zenon DEF RecoverStale
    <3>4. outbox' \subseteq Event
      BY <2>11 DEF RecoverStale
    <3> QED
      BY <2>11, <3>1, <3>3, <3>4 DEF RecoverStale
  <2>12. ASSUME NEW r \in Records, CreateRecord(r)
         PROVE  TypeOK'
    BY <2>12 DEF CreateRecord
  <2>13. ASSUME NEW r \in Records, Withdraw(r)
         PROVE  TypeOK'
    BY <2>13 DEF Withdraw
  <2>14. CASE UNCHANGED vars
    BY <2>14 DEF vars
  <2>15. ASSUME NEW e \in executing, PreparePublisherRecord(e)
         PROVE  TypeOK'
    BY <2>5, <2>15 DEF PreparePublisherRecord
  <2> HIDE DEF TypeOK, Emit, jobVars, recordVars
  <2> QED
    BY <2>1, <2>2, <2>3, <2>4, <2>6, <2>7, <2>8, <2>9, <2>10, <2>11, <2>12, <2>13,
       <2>14, <2>15 DEF Next, Process, Resend
<1> QED
  BY <1>1, <1>2, PTL DEF Spec
-----------------------------------------------------------------------------
(* What a step can do to the calls in flight, the attempt counters and the  *)
(* ledger.  LedgerKeysFresh and ExclusiveExecution only depend on these.    *)

(* A call moves from one phase to the next. *)
Advances(e, f) ==
  /\ executing' = (executing \ {e}) \union {f}
  /\ f.job = e.job /\ f.attempt = e.attempt
  /\ UNCHANGED <<attempts, ledger, status>>

(* A call ends with its result in the ledger. *)
Concludes(e) ==
  /\ executing' = executing \ {e}
  /\ \E s \in {"success", "failed"} :
       ledger' = ledger \union {[job |-> e.job, attempt |-> e.attempt, status |-> s]}
  /\ \E s \in {"success", "failed", "pending"} : status' = [status EXCEPT ![e.job] = s]
  /\ UNCHANGED attempts

(* Nothing is opened or recorded; with locks that cover the runtime, a job  *)
(* whose counted attempt is still in flight stays running.                  *)
Recedes ==
  /\ executing' \subseteq executing
  /\ UNCHANGED <<attempts, ledger>>
  /\ LockCoversRuntime =>
       \A e \in executing' : status[e.job] = "running" /\ e.attempt = attempts[e.job]
         => status'[e.job] = "running"

LEMMA StepShape ==
  ASSUME TypeOK, [Next]_vars
  PROVE  \/ \E j \in Jobs : Claim(j)
         \/ \E e \in executing, f \in Execution : Advances(e, f)
         \/ \E e \in executing : Concludes(e)
         \/ Recedes
<1> USE DEF jobVars, recordVars
<1>1. ASSUME NEW e \in executing, PreparePublisherRecord(e)
      PROVE  \E f \in Execution : Advances(e, f)
  <2>1. e \in Execution
    BY DEF TypeOK
  <2>2. CASE executing' = (executing \ {e}) \union {[e EXCEPT !.phase = "calling"]}
    <3> DEFINE f == [e EXCEPT !.phase = "calling"]
    <3>1. f \in Execution /\ f.job = e.job /\ f.attempt = e.attempt
      BY <2>1 DEF Execution, Phase
    <3>2. Advances(e, f)
      BY <1>1, <2>2, <3>1 DEF PreparePublisherRecord, Advances
    <3> QED
      BY <3>1, <3>2
  <2>3. CASE executing' = (executing \ {e}) \union {[e EXCEPT !.phase = "blocked"]}
    <3> DEFINE f == [e EXCEPT !.phase = "blocked"]
    <3>1. f \in Execution /\ f.job = e.job /\ f.attempt = e.attempt
      BY <2>1 DEF Execution, Phase
    <3>2. Advances(e, f)
      BY <1>1, <2>3, <3>1 DEF PreparePublisherRecord, Advances
    <3> QED
      BY <3>1, <3>2
  <2> QED
    BY <1>1, <2>2, <2>3 DEF PreparePublisherRecord
<1>2. ASSUME NEW e \in executing,
             Succeed(e) \/ FailForGood(e) \/ FailAndRetry(e) \/ FailExhausted(e)
      PROVE  Concludes(e)
  BY <1>2 DEF Succeed, FailForGood, FailAndRetry, FailExhausted, Settle, Concludes
<1>3. ASSUME NEW e \in executing, Crash(e)
      PROVE  Recedes
  BY <1>3 DEF Crash, Recedes
<1>4. ASSUME NEW j \in Jobs, CreateJob(j) \/ BackoffElapses(j) \/ ManualRetry(j)
      PROVE  Recedes
  <2>1. \A e \in executing : e.job \in Jobs
    BY DEF TypeOK, Execution
  <2> QED
    BY <1>4, <2>1 DEF CreateJob, BackoffElapses, ManualRetry, Recedes, TypeOK
<1>5. ASSUME NEW S \in SUBSET Jobs, RecoverStale(S)
      PROVE  Recedes
  <2>1. \A e \in executing : e.job \in Jobs
    BY DEF TypeOK, Execution
  <2> QED
    BY <1>5, <2>1 DEF RecoverStale, Stale, Recedes, TypeOK
<1>6. ASSUME NEW r \in Records, CreateRecord(r) \/ Withdraw(r)
      PROVE  Recedes
  BY <1>6 DEF CreateRecord, Withdraw, Recedes
<1>7. CASE UNCHANGED vars
  BY <1>7 DEF vars, Recedes
<1> QED
  BY <1>1, <1>2, <1>3, <1>4, <1>5, <1>6, <1>7 DEF Next, Process, Resend
-----------------------------------------------------------------------------
(* The ledger's UNIQUE (job, attempt) key never refuses a result, whether   *)
(* or not the locks cover the runtime.  The strengthening says why: no      *)
(* attempt, in flight or recorded, is beyond its job's counter, so the one  *)
(* a claim opens is new.                                                    *)
KeysInv ==
  /\ \A e \in executing : e.attempt <= attempts[e.job]
  /\ \A l \in ledger : l.attempt <= attempts[l.job]
  /\ LedgerKeysFresh

(* The unique key on job and attempt never refuses a result: the outcome of *)
(* a call is always recorded (process, execution_results).                  *)
THEOREM LedgerKeysAlwaysFresh == Spec => []LedgerKeysFresh
<1>1. Init => KeysInv
  BY DEF Init, KeysInv, LedgerKeysFresh
<1>2. TypeOK /\ KeysInv /\ [Next]_vars => KeysInv'
  <2> SUFFICES ASSUME TypeOK, KeysInv, [Next]_vars
               PROVE  KeysInv'
    OBVIOUS
  <2>1. /\ \A e \in executing : e.job \in Jobs /\ e.attempt \in Nat
        /\ \A l \in ledger : l.job \in Jobs /\ l.attempt \in Nat
        /\ attempts \in [Jobs -> Nat]
    BY DEF TypeOK, Execution, Result
  <2>2. ASSUME NEW j \in Jobs, Claim(j)
        PROVE  KeysInv'
    <3> DEFINE new == [job |-> j, attempt |-> attempts[j] + 1,
                       phase |-> IF HasRecord(j) THEN "preparing" ELSE "calling"]
    <3>1. /\ executing' = executing \union {new}
          /\ attempts' = [attempts EXCEPT ![j] = attempts[j] + 1]
          /\ ledger' = ledger
      BY <2>2 DEF Claim
    <3>2. new.job = j /\ new.attempt = attempts[j] + 1
      OBVIOUS
    <3> HIDE DEF new
    <3> QED
      BY <2>1, <3>1, <3>2 DEF KeysInv, LedgerKeysFresh
  <2>3. ASSUME NEW e \in executing, NEW f \in Execution, Advances(e, f)
        PROVE  KeysInv'
    BY <2>1, <2>3 DEF Advances, KeysInv, LedgerKeysFresh
  <2>4. ASSUME NEW e \in executing, Concludes(e)
        PROVE  KeysInv'
    <3>1. PICK l : l.job = e.job /\ l.attempt = e.attempt /\ ledger' = ledger \union {l}
      BY <2>4 DEF Concludes
    <3>2. executing' = executing \ {e} /\ attempts' = attempts
      BY <2>4 DEF Concludes
    <3> QED
      BY <2>1, <3>1, <3>2 DEF KeysInv, LedgerKeysFresh
  <2>5. CASE Recedes
    BY <2>1, <2>5 DEF Recedes, KeysInv, LedgerKeysFresh
  <2> QED
    BY <2>2, <2>3, <2>4, <2>5, StepShape
<1>3. KeysInv => LedgerKeysFresh
  BY DEF KeysInv
<1> QED
  BY <1>1, <1>2, <1>3, TypeCorrect, PTL DEF Spec

(* With locks that cover the runtime at most one call is in flight for a    *)
(* job; the job is running, and the call has the attempt the row counts.    *)
THEOREM ExecutionIsExclusive ==
  ASSUME LockCoversRuntime
  PROVE  Spec => []ExclusiveExecution
<1>1. Init => ExclusiveExecution
  BY DEF Init, ExclusiveExecution
<1>2. TypeOK /\ ExclusiveExecution /\ [Next]_vars => ExclusiveExecution'
  <2> SUFFICES ASSUME TypeOK, ExclusiveExecution, [Next]_vars
               PROVE  ExclusiveExecution'
    OBVIOUS
  <2>1. /\ \A e \in executing : e.job \in Jobs /\ e.attempt \in Nat
        /\ attempts \in [Jobs -> Nat]
        /\ status \in [Jobs -> JobStatus \union {"absent"}]
    BY DEF TypeOK, Execution
  <2>2. ASSUME NEW j \in Jobs, Claim(j)
        PROVE  ExclusiveExecution'
    <3> DEFINE new == [job |-> j, attempt |-> attempts[j] + 1,
                       phase |-> IF HasRecord(j) THEN "preparing" ELSE "calling"]
    <3>1. /\ executing' = executing \union {new}
          /\ attempts' = [attempts EXCEPT ![j] = attempts[j] + 1]
          /\ status' = [status EXCEPT ![j] = "running"]
          /\ status[j] = "pending"
      BY <2>2 DEF Claim
    <3>2. new.job = j /\ new.attempt = attempts[j] + 1
      OBVIOUS
    <3>3. \A e \in executing : e.job # j
      BY <2>1, <3>1 DEF ExclusiveExecution
    <3> HIDE DEF new
    <3> QED
      BY <2>1, <3>1, <3>2, <3>3 DEF ExclusiveExecution
  <2>3. ASSUME NEW e \in executing, NEW f \in Execution, Advances(e, f)
        PROVE  ExclusiveExecution'
    BY <2>1, <2>3 DEF Advances, ExclusiveExecution
  <2>4. ASSUME NEW e \in executing, Concludes(e)
        PROVE  ExclusiveExecution'
    <3>1. executing' = executing \ {e} /\ attempts' = attempts
      BY <2>4 DEF Concludes
    <3>2. \A f \in executing' : f.job # e.job /\ status'[f.job] = status[f.job]
      BY <2>1, <2>4, <3>1 DEF Concludes, ExclusiveExecution
    <3> QED
      BY <2>1, <3>1, <3>2 DEF ExclusiveExecution
  <2>5. CASE Recedes
    BY <2>1, <2>5 DEF Recedes, ExclusiveExecution
  <2> QED
    BY <2>2, <2>3, <2>4, <2>5, StepShape
<1> QED
  BY <1>1, <1>2, TypeCorrect, PTL DEF Spec
-----------------------------------------------------------------------------
(* With locks that cover the runtime, the queue implements the state        *)
(* machine of job-status.ts: the initial state is its initial state, and    *)
(* every step is one of its steps or leaves its variables alone.            *)

LEMMA LifecycleStep ==
  ASSUME LockCoversRuntime, TypeOK, ExclusiveExecution, [Next]_vars
  PROVE  [Lifecycle!Next]_<<status, attempts>>
<1> USE DEF jobVars, recordVars
<1>1. \A e \in executing : e.job \in Jobs /\ status[e.job] = "running"
  BY DEF TypeOK, Execution, ExclusiveExecution
<1>2. ASSUME NEW j \in Jobs, CreateJob(j)
      PROVE  Lifecycle!Create(j)
  BY <1>2 DEF CreateJob, Lifecycle!Create
<1>3. ASSUME NEW j \in Jobs, Claim(j)
      PROVE  Lifecycle!Start(j)
  BY <1>3 DEF Claim, Lifecycle!Start, Lifecycle!JobStatus, Lifecycle!Allowed
<1>4. ASSUME NEW j \in Jobs, ManualRetry(j)
      PROVE  Lifecycle!ManualRetry(j)
  BY <1>4 DEF ManualRetry, Lifecycle!ManualRetry
<1>5. ASSUME NEW S \in SUBSET Jobs, NEW to \in [S -> {"success", "failed", "pending"}],
             \A j \in S : status[j] = "running",
             status' = [j \in Jobs |-> IF j \in S THEN to[j] ELSE status[j]],
             attempts' = attempts
      PROVE  Lifecycle!Resolve(S)
  BY <1>5 DEF Lifecycle!Resolve, Lifecycle!Allowed
<1>6. ASSUME NEW e \in executing, Concludes(e)
      PROVE  \E S \in SUBSET Jobs : Lifecycle!Resolve(S)
  <2>1. PICK s \in {"success", "failed", "pending"} : status' = [status EXCEPT ![e.job] = s]
    BY <1>6 DEF Concludes
  <2> DEFINE S == {e.job}
             to == [j \in S |-> s]
  <2>2. /\ to \in [S -> {"success", "failed", "pending"}]
        /\ S \in SUBSET Jobs
        /\ \A j \in S : status[j] = "running"
    BY <1>1
  <2>3. status' = [j \in Jobs |-> IF j \in S THEN to[j] ELSE status[j]]
    BY <2>1 DEF TypeOK
  <2>4. attempts' = attempts
    BY <1>6 DEF Concludes
  <2> HIDE DEF S, to
  <2> QED
    BY <1>5, <2>2, <2>3, <2>4
<1>7. ASSUME NEW S \in SUBSET Jobs, RecoverStale(S)
      PROVE  Lifecycle!Resolve(S)
  <2> DEFINE to == [j \in S |-> IF ShouldRetry(j, attempts[j]) THEN "pending" ELSE "failed"]
  <2>1. to \in [S -> {"success", "failed", "pending"}]
    OBVIOUS
  <2>2. /\ \A j \in S : status[j] = "running"
        /\ status' = [j \in Jobs |-> IF j \in S THEN to[j] ELSE status[j]]
        /\ attempts' = attempts
    BY <1>7 DEF RecoverStale, Stale
  <2> HIDE DEF to
  <2> QED
    BY <1>5, <2>1, <2>2
<1>8. ASSUME \/ \E j \in Jobs : BackoffElapses(j)
             \/ \E e \in executing : PreparePublisherRecord(e) \/ Crash(e)
             \/ \E r \in Records : CreateRecord(r) \/ Withdraw(r)
             \/ UNCHANGED vars
      PROVE  UNCHANGED <<status, attempts>>
  BY <1>8 DEF BackoffElapses, PreparePublisherRecord, Crash, CreateRecord, Withdraw, vars
<1>9. ASSUME NEW e \in executing,
             Succeed(e) \/ FailForGood(e) \/ FailAndRetry(e) \/ FailExhausted(e)
      PROVE  Concludes(e)
  BY <1>9 DEF Succeed, FailForGood, FailAndRetry, FailExhausted, Settle, Concludes
<1> QED
  BY <1>2, <1>3, <1>4, <1>6, <1>7, <1>8, <1>9
  DEF Next, Process, Resend, Lifecycle!Next

(* Where locks cover the runtime, every step of the queue is a step of the  *)
(* job state machine (job-status.ts) or leaves the job rows as they are.    *)
THEOREM QueueImplementsLifecycle ==
  ASSUME LockCoversRuntime
  PROVE  Spec => LifecycleImplemented
<1>1. Init => Lifecycle!Init
  BY DEF Init, Lifecycle!Init
<1>2. TypeOK /\ ExclusiveExecution /\ [Next]_vars
        => [Lifecycle!Next]_(Lifecycle!lifeVars)
  BY LifecycleStep DEF Lifecycle!lifeVars
<1> QED
  BY <1>1, <1>2, TypeCorrect, ExecutionIsExclusive, PTL
  DEF Spec, LifecycleImplemented, Lifecycle!Spec
-----------------------------------------------------------------------------
(* The external publisher is called at most once for a record: a record     *)
(* that is absent or pending has not been called for, and no step brings    *)
(* one back to pending.                                                     *)
CallsInv ==
  \A r \in Records :
    /\ calls[r] <= 1
    /\ record[r] \in {"absent", "pending"} => calls[r] = 0

(* The part of a step that a settled call plays on its record. *)
LEMMA MarkRecordEffect ==
  ASSUME TypeOK, NEW e \in executing,
         Succeed(e) \/ FailForGood(e) \/ FailAndRetry(e) \/ FailExhausted(e)
  PROVE  /\ calls' = calls
         /\ \/ record' = record
            \/ /\ HasRecord(e.job)
               /\ record[RecordOf[e.job]] = "publishing"
               /\ \E to \in {"published", "failed"} :
                    record' = [record EXCEPT ![RecordOf[e.job]] = to]
  BY DEF Succeed, FailForGood, FailAndRetry, FailExhausted, MarkRecord, recordVars

(* A publish record is taken to the publisher once, whatever lapses, fails  *)
(* or is retried (preparePublisherRecord).                                  *)
THEOREM PublisherCalledOnce == Spec => []OnePublishCall
<1>1. Init => CallsInv
  BY DEF Init, CallsInv
<1>2. TypeOK /\ CallsInv /\ [Next]_vars => CallsInv'
  <2> SUFFICES ASSUME TypeOK, CallsInv, [Next]_vars
               PROVE  CallsInv'
    OBVIOUS
  <2>1. record \in [Records -> RecordStatus \union {"absent"}] /\ calls \in [Records -> Nat]
    BY DEF TypeOK
  <2>2. ASSUME NEW e \in executing, PreparePublisherRecord(e)
        PROVE  CallsInv'
    BY <2>1, <2>2 DEF PreparePublisherRecord, CallsInv, recordVars, HasRecord
  <2>3. ASSUME NEW e \in executing,
               Succeed(e) \/ FailForGood(e) \/ FailAndRetry(e) \/ FailExhausted(e)
        PROVE  CallsInv'
    <3>1. calls' = calls /\ \A r \in Records : record'[r] = record[r]
                              \/ record'[r] \in {"published", "failed"}
      BY <2>1, <2>3, MarkRecordEffect
    <3> QED
      BY <3>1 DEF CallsInv
  <2>4. ASSUME NEW r \in Records, CreateRecord(r) \/ Withdraw(r)
        PROVE  CallsInv'
    BY <2>1, <2>4 DEF CreateRecord, Withdraw, CallsInv
  <2>5. CASE UNCHANGED recordVars
    BY <2>5 DEF recordVars, CallsInv
  <2>6. ASSUME \/ \E j \in Jobs : CreateJob(j) \/ BackoffElapses(j) \/ Claim(j) \/ ManualRetry(j)
               \/ \E e \in executing : Crash(e)
               \/ \E S \in SUBSET Jobs : RecoverStale(S)
               \/ UNCHANGED vars
        PROVE  UNCHANGED recordVars
    BY <2>6 DEF CreateJob, BackoffElapses, Claim, ManualRetry, Crash, RecoverStale, vars,
       recordVars
  <2> QED
    BY <2>2, <2>3, <2>4, <2>5, <2>6 DEF Next, Process, Resend
<1>3. CallsInv => OnePublishCall
  BY DEF CallsInv, OnePublishCall
<1> QED
  BY <1>1, <1>2, <1>3, TypeCorrect, PTL DEF Spec

-----------------------------------------------------------------------------
(* With locks that cover the runtime a job runs at most max_attempts times, *)
(* and once more per manual retry.  A pending job has an attempt to spare.  *)
BudgetInv ==
  \A j \in Jobs :
    /\ attempts[j] <= manualRetries[j] + MaxAttempts[j]
    /\ status[j] \in {"absent", "pending"} => attempts[j] < manualRetries[j] + MaxAttempts[j]

(* Where locks cover the runtime, max_attempts and the manual retries bound *)
(* what a job runs (claim, recoverStale, retryJob).                         *)
THEOREM AttemptsBounded ==
  ASSUME LockCoversRuntime
  PROVE  Spec => []AttemptBudget
<1>1. Init => BudgetInv
  BY DEF Init, BudgetInv
<1>2. TypeOK /\ ExclusiveExecution /\ BudgetInv /\ [Next]_vars => BudgetInv'
  <2> SUFFICES ASSUME TypeOK, ExclusiveExecution, BudgetInv, [Next]_vars
               PROVE  BudgetInv'
    OBVIOUS
  <2> USE DEF jobVars
  <2>1. /\ attempts \in [Jobs -> Nat] /\ manualRetries \in [Jobs -> Nat]
        /\ status \in [Jobs -> JobStatus \union {"absent"}]
        /\ \A j \in Jobs : MaxAttempts[j] \in Nat
    BY DEF TypeOK
  <2>2. ASSUME NEW j \in Jobs, CreateJob(j) \/ Claim(j) \/ ManualRetry(j)
        PROVE  BudgetInv'
    BY <2>1, <2>2 DEF CreateJob, Claim, ManualRetry, BudgetInv, JobStatus
  <2>3. ASSUME NEW e \in executing, FailAndRetry(e)
        PROVE  BudgetInv'
    <3>1. e.job \in Jobs /\ e.attempt = attempts[e.job] /\ e.attempt < MaxAttempts[e.job]
      BY <2>3 DEF FailAndRetry, ShouldRetry, ExclusiveExecution, TypeOK, Execution
    <3>2. /\ status' = [status EXCEPT ![e.job] = "pending"]
          /\ UNCHANGED <<attempts, manualRetries>>
      BY <2>3 DEF FailAndRetry, Settle
    <3> QED
      BY <2>1, <3>1, <3>2 DEF BudgetInv
  <2>4. ASSUME NEW e \in executing, Succeed(e) \/ FailForGood(e) \/ FailExhausted(e)
        PROVE  BudgetInv'
    <3>1. /\ \E s \in {"success", "failed"} : status' = [status EXCEPT ![e.job] = s]
          /\ UNCHANGED <<attempts, manualRetries>>
      BY <2>4 DEF Succeed, FailForGood, FailExhausted, Settle
    <3> QED
      BY <2>1, <3>1 DEF BudgetInv
  <2>5. ASSUME NEW S \in SUBSET Jobs, RecoverStale(S)
        PROVE  BudgetInv'
    <3>0. status' = [j \in Jobs |->
                       IF j \notin S THEN status[j]
                       ELSE IF ShouldRetry(j, attempts[j]) THEN "pending" ELSE "failed"]
      BY <2>5 DEF RecoverStale
    <3>1. \A j \in Jobs : \/ status'[j] \in {status[j], "failed"}
                          \/ status'[j] = "pending" /\ attempts[j] < MaxAttempts[j]
      <4> TAKE j \in Jobs
      <4>1. status'[j] = IF j \notin S THEN status[j]
                         ELSE IF ShouldRetry(j, attempts[j]) THEN "pending" ELSE "failed"
        BY <3>0, Zenon
      <4>2. ShouldRetry(j, attempts[j]) => attempts[j] < MaxAttempts[j]
        BY DEF ShouldRetry
      <4> QED
        BY <4>1, <4>2
    <3>2. UNCHANGED <<attempts, manualRetries>>
      BY <2>5 DEF RecoverStale
    <3> QED
      BY <2>1, <3>1, <3>2 DEF BudgetInv
  <2>6. ASSUME \/ \E j \in Jobs : BackoffElapses(j)
               \/ \E e \in executing : PreparePublisherRecord(e) \/ Crash(e)
               \/ \E r \in Records : CreateRecord(r) \/ Withdraw(r)
               \/ UNCHANGED vars
        PROVE  UNCHANGED <<attempts, manualRetries, status>>
    BY <2>6 DEF BackoffElapses, PreparePublisherRecord, Crash, CreateRecord, Withdraw, vars
  <2>7. CASE UNCHANGED <<attempts, manualRetries, status>>
    BY <2>7 DEF BudgetInv
  <2> QED
    BY <2>2, <2>3, <2>4, <2>5, <2>6, <2>7 DEF Next, Process, Resend
<1>3. TypeOK /\ BudgetInv => AttemptBudget
  BY DEF TypeOK, BudgetInv, AttemptBudget
<1> QED
  BY <1>1, <1>2, <1>3, TypeCorrect, ExecutionIsExclusive, PTL DEF Spec
-----------------------------------------------------------------------------
(* Locks that may lapse under a call: an attempt below the maximum is put   *)
(* back at most once by its own late failure, for which the ledger's key is *)
(* spent, and at most once by recovery, since the job is running again only *)
(* under the next attempt.                                                  *)
Happened(type, j, n) == [type |-> type, job |-> j, attempt |-> n] \in outbox
PutBackBy(type, j) == {n \in 1..(MaxAttempts[j] - 1) : Happened(type, j, n)}

Counted(j) ==
  attempts[j] + (IF status[j] = "pending" THEN 1 ELSE 0)
    <= manualRetries[j] + 1 + Cardinality(PutBackBy("retry_scheduled", j))
                            + Cardinality(PutBackBy("lock_timeout", j))

PutBackInv ==
  /\ \A e \in executing : e.attempt >= 1
  /\ \A j \in Jobs :
       /\ status[j] = "running" => attempts[j] >= 1
       /\ status[j] = "absent" => attempts[j] = 0
       /\ \A n \in Nat : Happened("retry_scheduled", j, n) =>
            \E l \in ledger : l.job = j /\ l.attempt = n
       /\ \A n \in Nat : Happened("lock_timeout", j, n) =>
            n <= attempts[j] /\ (status[j] = "running" => n < attempts[j])

CountInv == PutBackInv /\ \A j \in Jobs : Counted(j)

(* A set of attempts below the maximum, and what adding one does to it.     *)
LEMMA CountBelow ==
  ASSUME NEW m \in Nat \ {0}, NEW A \in SUBSET (1..(m - 1)), NEW B \in SUBSET (1..(m - 1)),
         A \subseteq B
  PROVE  /\ Cardinality(A) \in Nat /\ Cardinality(B) \in Nat
         /\ Cardinality(A) <= Cardinality(B)
         /\ Cardinality(B) <= m - 1
         /\ \A n \in B : n \notin A => Cardinality(A) + 1 <= Cardinality(B)
<1>1. IsFiniteSet(1..(m - 1)) /\ Cardinality(1..(m - 1)) = m - 1
  BY FS_Interval
<1>2. /\ IsFiniteSet(B) /\ Cardinality(B) <= m - 1
      /\ IsFiniteSet(A) /\ Cardinality(A) <= Cardinality(B)
  <2>1. IsFiniteSet(B) /\ Cardinality(B) <= m - 1
    BY <1>1, FS_Subset
  <2> QED
    BY <2>1, FS_Subset
<1>3. Cardinality(A) \in Nat /\ Cardinality(B) \in Nat
  BY <1>2, FS_CardinalityType
<1>4. ASSUME NEW n \in B, n \notin A
      PROVE  Cardinality(A) + 1 <= Cardinality(B)
  <2> DEFINE C == A \union {n}
  <2>1. Cardinality(C) = Cardinality(A) + 1
    BY <1>2, <1>4, FS_AddElement
  <2>2. C \in SUBSET B
    BY <1>4
  <2>3. \A T \in SUBSET B : Cardinality(T) <= Cardinality(B)
    BY <1>2, FS_Subset
  <2> HIDE DEF C
  <2> QED
    BY <2>1, <2>2, <2>3
<1> QED
  BY <1>2, <1>3, <1>4

(* The events only grow, and so do the two counts.                          *)
LEMMA CountsGrow ==
  ASSUME TypeOK, outbox \subseteq outbox', NEW type \in EventType, NEW j \in Jobs
  PROVE  /\ Cardinality(PutBackBy(type, j)) \in Nat
         /\ Cardinality(PutBackBy(type, j)') \in Nat
         /\ Cardinality(PutBackBy(type, j)) <= Cardinality(PutBackBy(type, j)')
         /\ \A n \in 1..(MaxAttempts[j] - 1) :
              ~Happened(type, j, n) /\ Happened(type, j, n)' =>
                Cardinality(PutBackBy(type, j)) + 1 <= Cardinality(PutBackBy(type, j)')
<1> DEFINE A == PutBackBy(type, j)
           B == PutBackBy(type, j)'
           m == MaxAttempts[j]
<1>1. m \in Nat \ {0} /\ A \in SUBSET (1..(m - 1)) /\ B \in SUBSET (1..(m - 1)) /\ A \subseteq B
  BY DEF PutBackBy, Happened
<1>2. \A n \in 1..(m - 1) :
        ~Happened(type, j, n) /\ Happened(type, j, n)' => n \in B /\ n \notin A
  BY DEF PutBackBy
<1> HIDE DEF A, B, m
<1>3. /\ Cardinality(A) \in Nat /\ Cardinality(B) \in Nat
      /\ Cardinality(A) <= Cardinality(B)
      /\ \A n \in B : n \notin A => Cardinality(A) + 1 <= Cardinality(B)
  BY <1>1, CountBelow
<1>4. \A n \in 1..(m - 1) : ~Happened(type, j, n) /\ Happened(type, j, n)' =>
        Cardinality(A) + 1 <= Cardinality(B)
  BY <1>2, <1>3
<1> QED
  BY <1>3, <1>4 DEF A, B, m

(* Whatever a step does that leaves the counters, opens no attempt and puts *)
(* nothing back keeps the count.                                            *)
LEMMA CountKept ==
  ASSUME TypeOK, outbox \subseteq outbox', NEW j \in Jobs, Counted(j),
         UNCHANGED <<attempts[j], manualRetries[j]>>,
         status'[j] = "pending" => status[j] = "pending"
  PROVE  Counted(j)'
<1>1. /\ attempts[j] \in Nat /\ manualRetries[j] \in Nat
  BY DEF TypeOK
<1>2. /\ Cardinality(PutBackBy("retry_scheduled", j)) \in Nat
      /\ Cardinality(PutBackBy("retry_scheduled", j)') \in Nat
      /\ Cardinality(PutBackBy("retry_scheduled", j)) <= Cardinality(PutBackBy("retry_scheduled", j)')
  BY CountsGrow DEF EventType
<1>3. /\ Cardinality(PutBackBy("lock_timeout", j)) \in Nat
      /\ Cardinality(PutBackBy("lock_timeout", j)') \in Nat
      /\ Cardinality(PutBackBy("lock_timeout", j)) <= Cardinality(PutBackBy("lock_timeout", j)')
  BY CountsGrow DEF EventType
<1> QED
  BY <1>1, <1>2, <1>3 DEF Counted

(* Putting a job back is paid for by an attempt not put back so before.     *)
LEMMA CountPaid ==
  ASSUME TypeOK, outbox \subseteq outbox', NEW j \in Jobs, Counted(j),
         UNCHANGED <<attempts[j], manualRetries[j]>>,
         NEW type \in {"retry_scheduled", "lock_timeout"},
         NEW n \in 1..(MaxAttempts[j] - 1),
         ~Happened(type, j, n), Happened(type, j, n)'
  PROVE  Counted(j)'
<1>1. /\ attempts[j] \in Nat /\ manualRetries[j] \in Nat
  BY DEF TypeOK
<1>2. /\ Cardinality(PutBackBy("retry_scheduled", j)) \in Nat
      /\ Cardinality(PutBackBy("retry_scheduled", j)') \in Nat
      /\ Cardinality(PutBackBy("retry_scheduled", j)) <= Cardinality(PutBackBy("retry_scheduled", j)')
      /\ type = "retry_scheduled" =>
           Cardinality(PutBackBy("retry_scheduled", j)) + 1
             <= Cardinality(PutBackBy("retry_scheduled", j)')
  BY CountsGrow DEF EventType
<1>3. /\ Cardinality(PutBackBy("lock_timeout", j)) \in Nat
      /\ Cardinality(PutBackBy("lock_timeout", j)') \in Nat
      /\ Cardinality(PutBackBy("lock_timeout", j)) <= Cardinality(PutBackBy("lock_timeout", j)')
      /\ type = "lock_timeout" =>
           Cardinality(PutBackBy("lock_timeout", j)) + 1
             <= Cardinality(PutBackBy("lock_timeout", j)')
  BY CountsGrow DEF EventType
<1> QED
  BY <1>1, <1>2, <1>3 DEF Counted

LEMMA PutBackStep ==
  ASSUME TypeOK, PutBackInv, [Next]_vars
  PROVE  PutBackInv' /\ outbox \subseteq outbox'
<1> USE DEF jobVars, recordVars, Emit, Happened
<1>0. /\ attempts \in [Jobs -> Nat] /\ status \in [Jobs -> JobStatus \union {"absent"}]
      /\ executing \subseteq Execution
  BY DEF TypeOK
<1>1. ASSUME NEW j \in Jobs, CreateJob(j) \/ Claim(j) \/ ManualRetry(j)
      PROVE  PutBackInv' /\ outbox \subseteq outbox'
  BY <1>0, <1>1 DEF CreateJob, Claim, ManualRetry, PutBackInv, JobStatus
<1>2. ASSUME NEW e \in executing, PreparePublisherRecord(e) \/ Crash(e)
      PROVE  PutBackInv' /\ outbox \subseteq outbox'
  BY <1>0, <1>2 DEF PreparePublisherRecord, Crash, PutBackInv, Execution
<1>3. ASSUME NEW e \in executing, Succeed(e) \/ FailForGood(e) \/ FailAndRetry(e) \/ FailExhausted(e)
      PROVE  PutBackInv' /\ outbox \subseteq outbox'
  <2>1. e.job \in Jobs /\ e.attempt \in Nat
    BY <1>0 DEF Execution
  <2>2. /\ UNCHANGED attempts
        /\ executing' \subseteq executing
        /\ \E to \in {"success", "failed", "pending"} : status' = [status EXCEPT ![e.job] = to]
        /\ \E x : x.job = e.job /\ x.attempt = e.attempt /\ ledger' = ledger \union {x}
        /\ \E type \in {"success", "failed", "retry_scheduled"} :
             outbox' = outbox \union {[type |-> type, job |-> e.job, attempt |-> e.attempt]}
    BY <1>3, Zenon DEF Succeed, FailForGood, FailAndRetry, FailExhausted, Settle
  <2>3. \A j \in Jobs, n \in Nat :
          Happened("retry_scheduled", j, n)' =>
            Happened("retry_scheduled", j, n) \/ (j = e.job /\ n = e.attempt)
    BY <2>1, <2>2
  <2>4. \A j \in Jobs, n \in Nat :
          Happened("lock_timeout", j, n)' => Happened("lock_timeout", j, n)
    <3> TAKE j \in Jobs, n \in Nat
    <3> DEFINE timedOut == [type |-> "lock_timeout", job |-> j, attempt |-> n]
    <3>1. \A type \in {"success", "failed", "retry_scheduled"} :
            [type |-> type, job |-> e.job, attempt |-> e.attempt] # timedOut
      OBVIOUS
    <3> HIDE DEF timedOut
    <3>2. timedOut \in outbox' => timedOut \in outbox
      BY <2>2, <3>1
    <3> QED
      BY <3>2 DEF timedOut
  <2>5. \A j \in Jobs : status'[j] \in {"running", "absent"} => status'[j] = status[j]
    BY <1>0, <2>1, <2>2
  <2>6. ledger \subseteq ledger' /\ \E x \in ledger' : x.job = e.job /\ x.attempt = e.attempt
    BY <2>2
  <2> HIDE DEF Happened
  <2>7. PutBackInv'
    BY <2>2, <2>3, <2>4, <2>5, <2>6 DEF PutBackInv
  <2> QED
    BY <2>2, <2>7
<1>4. ASSUME NEW S \in SUBSET Jobs, RecoverStale(S)
      PROVE  PutBackInv' /\ outbox \subseteq outbox'
  <2>1. /\ UNCHANGED <<attempts, executing, ledger>>
        /\ outbox' = outbox \union
             {[type |-> "lock_timeout", job |-> j, attempt |-> attempts[j]] : j \in S}
    BY <1>4 DEF RecoverStale
  <2>2. \A j \in Jobs : IF j \in S THEN status'[j] \in {"pending", "failed"}
                                   ELSE status'[j] = status[j]
    BY <1>4 DEF RecoverStale
  <2>3. \A j \in Jobs, n \in Nat :
          /\ Happened("retry_scheduled", j, n)' => Happened("retry_scheduled", j, n)
          /\ Happened("lock_timeout", j, n)' =>
               Happened("lock_timeout", j, n) \/ (j \in S /\ n = attempts[j])
    <3> TAKE j \in Jobs, n \in Nat
    <3> DEFINE retried == [type |-> "retry_scheduled", job |-> j, attempt |-> n]
               timedOut == [type |-> "lock_timeout", job |-> j, attempt |-> n]
    <3>1. \A i \in S : [type |-> "lock_timeout", job |-> i, attempt |-> attempts[i]] # retried
      OBVIOUS
    <3>2. \A i \in S : [type |-> "lock_timeout", job |-> i, attempt |-> attempts[i]] = timedOut
                      => i = j /\ n = attempts[j]
      OBVIOUS
    <3> HIDE DEF retried, timedOut
    <3>3. retried \in outbox' => retried \in outbox
      BY <2>1, <3>1, Zenon
    <3>4. timedOut \in outbox' => timedOut \in outbox \/ (j \in S /\ n = attempts[j])
      BY <2>1, <3>2
    <3> QED
      BY <3>3, <3>4 DEF retried, timedOut
  <2> HIDE DEF Happened
  <2>4. PutBackInv'
    BY <1>0, <2>1, <2>2, <2>3 DEF PutBackInv
  <2> QED
    BY <2>1, <2>4
<1>5. ASSUME \/ \E j \in Jobs : BackoffElapses(j)
             \/ \E r \in Records : CreateRecord(r) \/ Withdraw(r)
             \/ UNCHANGED vars
      PROVE  PutBackInv' /\ outbox \subseteq outbox'
  BY <1>5 DEF BackoffElapses, CreateRecord, Withdraw, vars, PutBackInv
<1> QED
  BY <1>1, <1>2, <1>3, <1>4, <1>5 DEF Next, Process, Resend

LEMMA CountStep ==
  ASSUME TypeOK, CountInv, [Next]_vars, NEW j \in Jobs
  PROVE  Counted(j)'
<1> USE DEF jobVars
<1>0. /\ attempts \in [Jobs -> Nat] /\ manualRetries \in [Jobs -> Nat]
      /\ status \in [Jobs -> JobStatus \union {"absent"}]
      /\ executing \subseteq Execution
      /\ MaxAttempts[j] \in Nat \ {0}
  BY DEF TypeOK
<1>1. PutBackInv /\ Counted(j) /\ outbox \subseteq outbox'
  BY PutBackStep DEF CountInv
<1>2. CASE /\ attempts'[j] = attempts[j]
           /\ manualRetries'[j] = manualRetries[j]
           /\ status'[j] = "pending" => status[j] = "pending"
  BY <1>1, <1>2, CountKept
<1>3. /\ Cardinality(PutBackBy("retry_scheduled", j)) \in Nat
      /\ Cardinality(PutBackBy("retry_scheduled", j)') \in Nat
      /\ Cardinality(PutBackBy("retry_scheduled", j)) <= Cardinality(PutBackBy("retry_scheduled", j)')
      /\ Cardinality(PutBackBy("lock_timeout", j)) \in Nat
      /\ Cardinality(PutBackBy("lock_timeout", j)') \in Nat
      /\ Cardinality(PutBackBy("lock_timeout", j)) <= Cardinality(PutBackBy("lock_timeout", j)')
  BY <1>1, CountsGrow DEF EventType
<1>4. ASSUME CreateJob(j) \/ Claim(j) \/ ManualRetry(j)
      PROVE  Counted(j)'
  <2>1. \/ /\ attempts'[j] = attempts[j] /\ status'[j] = "pending"
           /\ \/ status[j] = "absent" /\ manualRetries'[j] = manualRetries[j]
              \/ status[j] = "failed" /\ manualRetries'[j] = manualRetries[j] + 1
        \/ /\ attempts'[j] = attempts[j] + 1 /\ manualRetries'[j] = manualRetries[j]
           /\ status[j] = "pending" /\ status'[j] = "running"
    BY <1>0, <1>4 DEF CreateJob, Claim, ManualRetry
  <2>2. status[j] = "absent" => attempts[j] = 0
    BY <1>1 DEF PutBackInv
  <2> QED
    BY <1>0, <1>1, <1>3, <2>1, <2>2 DEF Counted
<1>5. ASSUME NEW e \in executing, FailAndRetry(e), e.job = j
      PROVE  Counted(j)'
  <2>1. e.attempt \in 1..(MaxAttempts[j] - 1)
    BY <1>0, <1>1, <1>5 DEF FailAndRetry, ShouldRetry, PutBackInv, Execution
  <2>2. /\ UNCHANGED <<attempts, manualRetries>>
        /\ Happened("retry_scheduled", j, e.attempt)'
        /\ ~\E l \in ledger : l.job = j /\ l.attempt = e.attempt
    BY <1>5 DEF FailAndRetry, Settle, Emit, Happened
  <2>3. ~Happened("retry_scheduled", j, e.attempt)
    BY <1>1, <2>1, <2>2 DEF PutBackInv
  <2> QED
    BY <1>1, <2>1, <2>2, <2>3, CountPaid
<1>6. ASSUME NEW S \in SUBSET Jobs, RecoverStale(S), j \in S, status'[j] = "pending"
      PROVE  Counted(j)'
  <2>1. /\ status[j] = "running"
        /\ UNCHANGED <<attempts, manualRetries>>
        /\ Happened("lock_timeout", j, attempts[j])'
    BY <1>6 DEF RecoverStale, Stale, Happened
  <2>2. ShouldRetry(j, attempts[j])
    <3>1. status'[j] = IF j \notin S THEN status[j]
                       ELSE IF ShouldRetry(j, attempts[j]) THEN "pending" ELSE "failed"
      BY <1>6, Zenon DEF RecoverStale
    <3> QED
      BY <1>6, <3>1
  <2>3. attempts[j] \in 1..(MaxAttempts[j] - 1)
    BY <1>0, <1>1, <2>1, <2>2 DEF ShouldRetry, PutBackInv
  <2>4. ~Happened("lock_timeout", j, attempts[j])
    BY <1>0, <1>1, <2>1 DEF PutBackInv
  <2> QED
    BY <1>1, <2>1, <2>3, <2>4, CountPaid
<1>7. ASSUME NEW S \in SUBSET Jobs, RecoverStale(S)
      PROVE  Counted(j)'
  <2>1. UNCHANGED <<attempts, manualRetries>> /\ (j \notin S => status'[j] = status[j])
    BY <1>7 DEF RecoverStale
  <2> QED
    BY <1>2, <1>6, <1>7, <2>1
<1>8. ASSUME NEW i \in Jobs, CreateJob(i) \/ Claim(i) \/ ManualRetry(i)
      PROVE  Counted(j)'
  <2>1. i # j => /\ attempts'[j] = attempts[j] /\ manualRetries'[j] = manualRetries[j]
                 /\ status'[j] = status[j]
    BY <1>0, <1>8 DEF CreateJob, Claim, ManualRetry
  <2> QED
    BY <1>2, <1>4, <1>8, <2>1
<1>9. ASSUME NEW e \in executing, Process(e)
      PROVE  Counted(j)'
  <2>1. /\ UNCHANGED <<attempts, manualRetries>>
        /\ \/ e.job # j /\ status'[j] = status[j]
           \/ status'[j] = "pending" => status[j] = "pending"
           \/ FailAndRetry(e) /\ e.job = j
    BY <1>0, <1>9 DEF Process, PreparePublisherRecord, Succeed, FailForGood, FailAndRetry,
       FailExhausted, Crash, Settle
  <2> QED
    BY <1>2, <1>5, <1>9, <2>1
<1>10. ASSUME \/ \E i \in Jobs : BackoffElapses(i)
              \/ \E r \in Records : CreateRecord(r) \/ Withdraw(r)
              \/ UNCHANGED vars
       PROVE  Counted(j)'
  <2>1. UNCHANGED <<attempts, manualRetries, status>>
    BY <1>10 DEF BackoffElapses, CreateRecord, Withdraw, vars
  <2> QED
    BY <1>2, <2>1
<1> QED
  BY <1>7, <1>8, <1>9, <1>10 DEF Next, Resend

(* The bound on the attempts, whatever the locks do: max_attempts where     *)
(* they cover the runtime, and twice that less one where they do not.       *)
THEOREM AttemptsAlwaysBounded == Spec => []AttemptBudget
<1>1. CASE LockCoversRuntime
  BY <1>1, AttemptsBounded
<1>2. CASE ~LockCoversRuntime
  <2>1. Init => CountInv
    <3> SUFFICES ASSUME Init
                 PROVE  CountInv
      OBVIOUS
    <3>1. PutBackInv
      BY DEF Init, PutBackInv, Happened
    <3>2. ASSUME NEW j \in Jobs
          PROVE  Counted(j)
      <4>1. PutBackBy("retry_scheduled", j) = {} /\ PutBackBy("lock_timeout", j) = {}
        BY DEF Init, PutBackBy, Happened
      <4> QED
        BY <4>1, FS_EmptySet DEF Init, Counted
    <3> QED
      BY <3>1, <3>2 DEF CountInv
  <2>2. TypeOK /\ CountInv /\ [Next]_vars => CountInv'
    BY PutBackStep, CountStep DEF CountInv
  <2>3. TypeOK /\ CountInv => AttemptBudget
    <3> SUFFICES ASSUME TypeOK, CountInv, NEW j \in Jobs
                 PROVE  attempts[j] <= manualRetries[j] + 2 * MaxAttempts[j] - 1
      BY <1>2 DEF AttemptBudget, TypeOK
    <3>1. /\ attempts[j] \in Nat /\ manualRetries[j] \in Nat /\ MaxAttempts[j] \in Nat \ {0}
      BY DEF TypeOK
    <3>2. \A type \in EventType : /\ Cardinality(PutBackBy(type, j)) \in Nat
                                  /\ Cardinality(PutBackBy(type, j)) <= MaxAttempts[j] - 1
      <4> TAKE type \in EventType
      <4>1. PutBackBy(type, j) \in SUBSET (1..(MaxAttempts[j] - 1))
        BY DEF PutBackBy
      <4> QED
        BY <3>1, <4>1, CountBelow
    <3> QED
      BY <3>1, <3>2 DEF CountInv, Counted, EventType
  <2> QED
    BY <2>1, <2>2, <2>3, TypeCorrect, PTL DEF Spec
<1> QED
  BY <1>1, <1>2
-----------------------------------------------------------------------------
(* A record that shows as published names a job with a success in the       *)
(* ledger: markPublished runs in the transaction that inserts it, the       *)
(* ledger only grows, and nothing else sets or takes over a published       *)
(* record.                                                                  *)
(* "A success of job j, whose record is r, is in the ledger l." *)
Won(r, j, l) ==
  \E x \in l : x.job = j /\ x.status = "success" /\ RecordOf[x.job] = r

LEMMA LedgerGrows ==
  ASSUME TypeOK, [Next]_vars
  PROVE  ledger \subseteq ledger'
<1> USE DEF jobVars, recordVars
<1>1. CASE \E j \in Jobs : Claim(j)
  BY <1>1 DEF Claim
<1> QED
  BY <1>1, StepShape DEF Advances, Concludes, Recedes

(* A record that is published has the successful result of a job that used  *)
(* it (markPublished, in the transaction of the result).                    *)
THEOREM PublishedAlwaysHasResult == Spec => []PublishedHasResult
<1>1. Init => PublishedHasResult
  BY DEF Init, PublishedHasResult
<1>2. TypeOK /\ PublishedHasResult /\ [Next]_vars => PublishedHasResult'
  <2> SUFFICES ASSUME TypeOK, PublishedHasResult, [Next]_vars
               PROVE  PublishedHasResult'
    OBVIOUS
  <2>1. record \in [Records -> RecordStatus \union {"absent"}]
        /\ recordJob \in [Records -> Jobs \union {NoJob}]
    BY DEF TypeOK
  <2>2. \A r \in Records : record[r] \in {"published", "withdrawn"}
                           => Won(r, recordJob[r], ledger)
    BY DEF PublishedHasResult, Won
  <2>3. \A r, j : Won(r, j, ledger) => Won(r, j, ledger')
    BY LedgerGrows DEF Won
  <2>4. ASSUME \A r \in Records : record'[r] \in {"published", "withdrawn"} =>
                 \/ record[r] \in {"published", "withdrawn"} /\ recordJob'[r] = recordJob[r]
                 \/ Won(r, recordJob'[r], ledger')
        PROVE  PublishedHasResult'
    <3>1. \A r \in Records : record'[r] \in {"published", "withdrawn"}
                             => Won(r, recordJob'[r], ledger')
      BY <2>2, <2>3, <2>4
    <3> QED
      BY <3>1 DEF PublishedHasResult, Won
  <2>5. ASSUME NEW e \in executing, Succeed(e)
        PROVE  PublishedHasResult'
    <3>1. /\ [job |-> e.job, attempt |-> e.attempt, status |-> "success"] \in ledger'
          /\ e.job \in Jobs
      BY <2>5 DEF Succeed, Settle, TypeOK, Execution
    <3>2. Won(RecordOf[e.job], e.job, ledger')
      BY <3>1 DEF Won
    <3>3. \A r \in Records : \/ record'[r] = record[r] /\ recordJob'[r] = recordJob[r]
                             \/ HasRecord(e.job) /\ r = RecordOf[e.job] /\ recordJob'[r] = e.job
      BY <2>1, <2>5 DEF Succeed, MarkRecord
    <3> QED
      BY <2>4, <3>2, <3>3
  <2>6. ASSUME NEW e \in executing, FailForGood(e) \/ FailExhausted(e) \/ FailAndRetry(e)
        PROVE  PublishedHasResult'
    <3>1. \A r \in Records : \/ record'[r] = record[r] /\ recordJob'[r] = recordJob[r]
                             \/ record'[r] = "failed"
      BY <2>1, <2>6 DEF FailForGood, FailExhausted, FailAndRetry, MarkRecord, recordVars
    <3> QED
      BY <2>4, <3>1
  <2>7. ASSUME NEW e \in executing, PreparePublisherRecord(e)
        PROVE  PublishedHasResult'
    <3>1. \A r \in Records : \/ record'[r] = record[r] /\ recordJob'[r] = recordJob[r]
                             \/ record'[r] = "publishing"
      BY <2>1, <2>7 DEF PreparePublisherRecord, recordVars
    <3> QED
      BY <2>4, <3>1
  <2>8. ASSUME NEW r \in Records, CreateRecord(r) \/ Withdraw(r)
        PROVE  PublishedHasResult'
    BY <2>1, <2>4, <2>8 DEF CreateRecord, Withdraw
  <2>9. ASSUME \/ \E j \in Jobs : CreateJob(j) \/ BackoffElapses(j) \/ Claim(j) \/ ManualRetry(j)
               \/ \E e \in executing : Crash(e)
               \/ \E S \in SUBSET Jobs : RecoverStale(S)
               \/ UNCHANGED vars
        PROVE  UNCHANGED <<record, recordJob>>
    BY <2>9 DEF CreateJob, BackoffElapses, Claim, ManualRetry, Crash, RecoverStale, vars,
       recordVars
  <2>10. CASE UNCHANGED <<record, recordJob>>
    BY <2>4, <2>10
  <2> QED
    BY <2>5, <2>6, <2>7, <2>8, <2>9, <2>10 DEF Next, Process, Resend
<1> QED
  BY <1>1, <1>2, TypeCorrect, PTL DEF Spec

-----------------------------------------------------------------------------
(* A job that shares its record with no other. *)
Owns(j) ==
  HasRecord(j) /\ \A i \in Jobs \ {j} : RecordOf[i] # RecordOf[j]

(* While such a job is in its call its record is "publishing", and stays   *)
(* so until the call's own outcome: this is why success publishes it.      *)
Publishes(j) ==
  /\ \A e \in executing :
       e.job = j /\ e.phase = "calling" => record[RecordOf[j]] = "publishing"
  /\ status[j] = "success" => record[RecordOf[j]] \in {"published", "withdrawn"}

PublicationInv == \A j \in Jobs : Owns(j) => Publishes(j)

(* With locks that cover the runtime, a publisher job that owns its record *)
(* and shows as successful has that record published (or withdrawn since). *)
THEOREM SuccessIsPublished ==
  ASSUME LockCoversRuntime
  PROVE  Spec => []SuccessMeansPublished
<1>1. Init => PublicationInv
  BY DEF Init, PublicationInv, Publishes
<1>2. TypeOK /\ ExclusiveExecution /\ PublicationInv /\ [Next]_vars => PublicationInv'
  <2> SUFFICES ASSUME TypeOK, ExclusiveExecution, PublicationInv, [Next]_vars,
                      NEW j \in Jobs, Owns(j)
               PROVE  Publishes(j)'
    BY DEF PublicationInv
  <2> DEFINE r == RecordOf[j]
  <2> USE DEF jobVars, recordVars
  <2>1. /\ Publishes(j)
        /\ r \in Records
        /\ \A i \in Jobs : RecordOf[i] = r => i = j
        /\ status \in [Jobs -> JobStatus \union {"absent"}]
        /\ record \in [Records -> RecordStatus \union {"absent"}]
    BY DEF PublicationInv, Owns, HasRecord, TypeOK
  <2>2. \A e \in executing :
          /\ e.job \in Jobs
          /\ status[e.job] = "running"
          /\ \A f \in executing : f.job = e.job => f = e
    BY DEF ExclusiveExecution, TypeOK, Execution
  <2> HIDE DEF r
  <2>3. ASSUME executing' \subseteq executing,
               record'[r] = record[r],
               status'[j] = "success" => status[j] = "success"
        PROVE  Publishes(j)'
    BY <2>1, <2>3 DEF Publishes, r
  <2>4. ASSUME NEW k \in Jobs, Claim(k)
        PROVE  Publishes(j)'
    <3> DEFINE new == [job |-> k, attempt |-> attempts[k] + 1,
                       phase |-> IF HasRecord(k) THEN "preparing" ELSE "calling"]
    <3>1. /\ executing' = executing \union {new}
          /\ status' = [status EXCEPT ![k] = "running"]
          /\ record' = record
      BY <2>4 DEF Claim
    <3>2. new.job = j => new.phase # "calling"
      BY DEF Owns
    <3> HIDE DEF new
    <3> QED
      BY <2>1, <3>1, <3>2 DEF Publishes, r
  <2>5. ASSUME NEW e \in executing, PreparePublisherRecord(e)
        PROVE  Publishes(j)'
    <3>1. PICK f : /\ executing' = (executing \ {e}) \union {f}
                   /\ f.job = e.job
                   /\ status' = status
                   /\ \/ record' = [record EXCEPT ![RecordOf[e.job]] = "publishing"]
                      \/ record' = record /\ f.phase = "blocked"
      <4>1. e.job \in Jobs /\ e \in Execution
        BY DEF TypeOK, Execution
      <4>2. /\ [e EXCEPT !.phase = "calling"].job = e.job
            /\ [e EXCEPT !.phase = "blocked"].job = e.job
            /\ [e EXCEPT !.phase = "blocked"].phase = "blocked"
        BY <4>1 DEF Execution
      <4>3. CASE record[RecordOf[e.job]] = "pending"
        BY <2>5, <4>2, <4>3 DEF PreparePublisherRecord
      <4>4. CASE record[RecordOf[e.job]] # "pending"
        BY <2>5, <4>2, <4>4 DEF PreparePublisherRecord
      <4> QED
        BY <4>3, <4>4
    <3>2. CASE e.job = j
      BY <2>1, <2>2, <3>1, <3>2 DEF Publishes, r
    <3>3. CASE e.job # j
      <4>1. record'[r] = record[r]
        BY <2>1, <2>2, <3>1, <3>3
      <4> QED
        BY <2>1, <3>1, <3>3, <4>1 DEF Publishes, r
    <3> QED
      BY <3>2, <3>3
  <2>6. ASSUME NEW e \in executing, NEW to \in JobStatus,
               \/ Succeed(e) /\ to = "success"
               \/ /\ FailForGood(e) \/ FailAndRetry(e) \/ FailExhausted(e)
                  /\ to # "success",
               status' = [status EXCEPT ![e.job] = to],
               executing' = executing \ {e}
        PROVE  Publishes(j)'
    <3>1. CASE e.job # j
      <4>1. record'[r] = record[r]
        BY <2>1, <2>2, <2>6, <3>1
           DEF Succeed, FailForGood, FailAndRetry, FailExhausted, MarkRecord
      <4> QED
        BY <2>1, <2>2, <2>3, <2>6, <3>1, <4>1
    <3>2. CASE e.job = j /\ Succeed(e) /\ to = "success"
      <4>1. record[r] = "publishing"
        BY <2>1, <3>2 DEF Succeed, Publishes, r
      <4>2. record'[r] = "published"
        BY <2>1, <3>2, <4>1 DEF Succeed, MarkRecord, Owns, r
      <4> QED
        BY <2>2, <2>6, <3>2, <4>2 DEF Publishes, r
    <3>3. CASE e.job = j /\ to # "success"
      BY <2>1, <2>2, <2>6, <3>3 DEF Publishes
    <3> QED
      BY <2>6, <3>1, <3>2, <3>3
  <2>7. ASSUME NEW e \in executing, Succeed(e)
        PROVE  Publishes(j)'
    <3>1. /\ status' = [status EXCEPT ![e.job] = "success"]
          /\ executing' = executing \ {e}
      BY <2>7 DEF Succeed, Settle
    <3> QED
      BY <2>6, <2>7, <3>1 DEF JobStatus
  <2>8. ASSUME NEW e \in executing, FailForGood(e) \/ FailExhausted(e)
        PROVE  Publishes(j)'
    <3>1. /\ status' = [status EXCEPT ![e.job] = "failed"]
          /\ executing' = executing \ {e}
      BY <2>8 DEF FailForGood, FailExhausted, Settle
    <3> QED
      BY <2>6, <2>8, <3>1 DEF JobStatus
  <2>9. ASSUME NEW e \in executing, FailAndRetry(e)
        PROVE  Publishes(j)'
    <3>1. /\ status' = [status EXCEPT ![e.job] = "pending"]
          /\ executing' = executing \ {e}
      BY <2>9 DEF FailAndRetry, Settle
    <3> QED
      BY <2>6, <2>9, <3>1 DEF JobStatus
  <2>10. ASSUME NEW k \in Records, CreateRecord(k) \/ Withdraw(k)
         PROVE  Publishes(j)'
    BY <2>1, <2>10 DEF CreateRecord, Withdraw, Publishes, r
  <2>11. ASSUME \/ \E k \in Jobs : CreateJob(k) \/ BackoffElapses(k) \/ ManualRetry(k)
                \/ \E e \in executing : Crash(e)
                \/ \E S \in SUBSET Jobs : RecoverStale(S)
                \/ UNCHANGED vars
         PROVE  Publishes(j)'
    BY <2>1, <2>3, <2>11
       DEF CreateJob, BackoffElapses, ManualRetry, Crash, RecoverStale, vars
  <2> QED
    BY <2>4, <2>5, <2>7, <2>8, <2>9, <2>10, <2>11 DEF Next, Process, Resend
<1>3. PublicationInv => SuccessMeansPublished
  BY DEF PublicationInv, Owns, Publishes, SuccessMeansPublished
<1> QED
  BY <1>1, <1>2, <1>3, TypeCorrect, ExecutionIsExclusive, PTL DEF Spec

-----------------------------------------------------------------------------
(* What the relay may rely on: an event about the end of an attempt names   *)
(* an attempt that was made, and a terminal one has its result in the       *)
(* ledger.                                                                  *)
EventsInv ==
  /\ \A v \in outbox :
       /\ v.type \in {"failed", "success", "lock_timeout"} => v.attempt \in 1..attempts[v.job]
       /\ v.type \in {"failed", "success"} =>
            \E l \in ledger : l.job = v.job /\ l.attempt = v.attempt
  /\ \A e \in executing : e.attempt \in 1..attempts[e.job]
  /\ \A j \in Jobs : status[j] = "running" => attempts[j] >= 1
  /\ \A j \in Jobs : manualRetries[j] <= ManualRetryBound

(* A step writes one event, or none, unless it recovers a batch of jobs.    *)
LEMMA EventsOfStep ==
  ASSUME TypeOK, [Next]_vars
  PROVE  \/ UNCHANGED outbox
         \/ \E v \in Event : outbox' = outbox \union {v}
         \/ \E S \in SUBSET Jobs : RecoverStale(S)
<1> USE DEF TypeOK, Emit
<1>1. ASSUME NEW j \in Jobs, CreateJob(j) \/ Claim(j) \/ ManualRetry(j)
      PROVE  \E v \in Event : outbox' = outbox \union {v}
  <2>1. \E type \in EventType, n \in Nat :
          outbox' = outbox \union {[type |-> type, job |-> j, attempt |-> n]}
    <3>1. attempts[j] \in Nat /\ attempts[j] + 1 \in Nat
      OBVIOUS
    <3> QED
      BY <1>1, <3>1, Zenon DEF CreateJob, Claim, ManualRetry, EventType
  <2> QED
    BY <2>1 DEF Event
<1>2. ASSUME NEW e \in executing, Process(e)
      PROVE  UNCHANGED outbox \/ \E v \in Event : outbox' = outbox \union {v}
  <2>1. e.job \in Jobs /\ e.attempt \in Nat
    BY DEF Execution
  <2>2. \/ UNCHANGED outbox
        \/ \E type \in {"success", "failed", "retry_scheduled"} :
             outbox' = outbox \union {[type |-> type, job |-> e.job, attempt |-> e.attempt]}
    BY <1>2, Zenon DEF Process, PreparePublisherRecord, Succeed, FailForGood, FailAndRetry,
       FailExhausted, Crash, Settle
  <2> QED
    BY <2>1, <2>2 DEF Event, EventType
<1>3. ASSUME \/ \E j \in Jobs : BackoffElapses(j)
             \/ \E r \in Records : CreateRecord(r) \/ Withdraw(r)
             \/ UNCHANGED vars
      PROVE  UNCHANGED outbox
  BY <1>3 DEF BackoffElapses, CreateRecord, Withdraw, vars
<1> QED
  BY <1>1, <1>2, <1>3 DEF Next, Resend

(* A result is committed with its event, and is the first of its attempt.   *)
LEMMA ResultHasEvent ==
  ASSUME TypeOK, [Next]_vars, ledger' # ledger
  PROVE  \E e \in executing, type \in {"success", "failed", "retry_scheduled"} :
           /\ outbox' = outbox \union {[type |-> type, job |-> e.job, attempt |-> e.attempt]}
           /\ ~\E l \in ledger : l.job = e.job /\ l.attempt = e.attempt
           /\ type = "retry_scheduled" => status'[e.job] = "pending"
<1> USE DEF Emit
<1>1. ASSUME NEW e \in executing, Process(e)
      PROVE  \E type \in {"success", "failed", "retry_scheduled"} :
           /\ outbox' = outbox \union {[type |-> type, job |-> e.job, attempt |-> e.attempt]}
           /\ ~\E l \in ledger : l.job = e.job /\ l.attempt = e.attempt
           /\ type = "retry_scheduled" => status'[e.job] = "pending"
  <2>1. e.job \in Jobs /\ status \in [Jobs -> JobStatus \union {"absent"}]
    BY DEF TypeOK, Execution
  <2>2. CASE FailAndRetry(e)
    <3>1. status'[e.job] = "pending"
      BY <2>1, <2>2 DEF FailAndRetry, Settle
    <3> QED
      BY <2>2, <3>1 DEF FailAndRetry, Settle
  <2>3. CASE Succeed(e) \/ FailForGood(e) \/ FailExhausted(e)
    BY <2>3, Zenon DEF Succeed, FailForGood, FailExhausted, Settle
  <2>4. CASE PreparePublisherRecord(e) \/ Crash(e)
    BY <2>4 DEF PreparePublisherRecord, Crash
  <2> QED
    BY <1>1, <2>2, <2>3, <2>4 DEF Process
<1>2. ASSUME ~\E e \in executing : Process(e)
      PROVE  FALSE
  BY <1>2 DEF Next, CreateJob, BackoffElapses, Claim, ManualRetry, RecoverStale, CreateRecord,
     Withdraw, Resend, vars
<1> QED
  BY <1>1, <1>2

LEMMA EventsInvariant == Spec => []EventsInv
<1>1. Init => EventsInv
  BY DEF Init, EventsInv
<1>2. TypeOK /\ EventsInv /\ [Next]_vars => EventsInv'
  <2> SUFFICES ASSUME TypeOK, EventsInv, [Next]_vars
               PROVE  EventsInv'
    OBVIOUS
  <2> USE DEF jobVars, recordVars, Emit
  <2>0. /\ attempts \in [Jobs -> Nat] /\ status \in [Jobs -> JobStatus \union {"absent"}]
        /\ manualRetries \in [Jobs -> Nat]
        /\ executing \subseteq Execution
        /\ \A v \in outbox : v.job \in Jobs /\ v.attempt \in Nat
    BY DEF TypeOK, Event
  <2>1. ASSUME NEW j \in Jobs, CreateJob(j) \/ ManualRetry(j)
        PROVE  EventsInv'
    <3>1. /\ UNCHANGED <<attempts, ledger, executing>>
          /\ \A v \in outbox' : v \in outbox \/ v.type \in {"created", "manual_retry"}
          /\ \A i \in Jobs : status'[i] = "running" => status[i] = "running"
      BY <2>0, <2>1 DEF CreateJob, ManualRetry
    <3>2. \A i \in Jobs : manualRetries'[i] <= ManualRetryBound
      BY <2>0, <2>1 DEF CreateJob, ManualRetry, EventsInv
    <3> QED
      BY <3>1, <3>2 DEF EventsInv
  <2>2. ASSUME NEW j \in Jobs, Claim(j)
        PROVE  EventsInv'
    <3>1. /\ UNCHANGED <<manualRetries, ledger>>
          /\ attempts' = [attempts EXCEPT ![j] = @ + 1]
          /\ \A v \in outbox' : v \in outbox \/ v.type = "running"
          /\ \A e \in executing' : e \in executing \/ (e.job = j /\ e.attempt = attempts[j] + 1)
      BY <2>0, <2>2 DEF Claim
    <3>2. \A i \in Jobs : status'[i] = "running" => i = j \/ status[i] = "running"
      BY <2>0, <2>2 DEF Claim
    <3> QED
      BY <2>0, <3>1, <3>2 DEF EventsInv, Execution
  <2>3. ASSUME NEW e \in executing, PreparePublisherRecord(e) \/ Crash(e)
        PROVE  EventsInv'
    <3>1. /\ UNCHANGED <<status, attempts, manualRetries, ledger, outbox>>
          /\ \A f \in executing' : \E g \in executing : f.job = g.job /\ f.attempt = g.attempt
      BY <2>0, <2>3 DEF PreparePublisherRecord, Crash, Execution
    <3> QED
      BY <3>1 DEF EventsInv
  <2>4. ASSUME NEW e \in executing,
               Succeed(e) \/ FailForGood(e) \/ FailAndRetry(e) \/ FailExhausted(e)
        PROVE  EventsInv'
    <3>1. e.job \in Jobs /\ e.attempt \in 1..attempts[e.job]
      BY <2>0 DEF EventsInv, Execution
    <3>2. /\ UNCHANGED <<attempts, manualRetries>>
          /\ executing' \subseteq executing
          /\ \E to \in {"success", "failed", "pending"} : status' = [status EXCEPT ![e.job] = to]
          /\ \E x : x.job = e.job /\ x.attempt = e.attempt /\ ledger' = ledger \union {x}
          /\ \E type \in {"success", "failed", "retry_scheduled"} :
               outbox' = outbox \union {[type |-> type, job |-> e.job, attempt |-> e.attempt]}
      BY <2>4, Zenon DEF Succeed, FailForGood, FailAndRetry, FailExhausted, Settle
    <3>3. \A v \in outbox' : v \in outbox \/ (v.job = e.job /\ v.attempt = e.attempt)
      BY <3>2
    <3>4. \A i \in Jobs : status'[i] = "running" => status[i] = "running"
      BY <2>0, <3>1, <3>2
    <3>5. ledger \subseteq ledger' /\ \E x \in ledger' : x.job = e.job /\ x.attempt = e.attempt
      BY <3>2
    <3> QED
      BY <3>1, <3>2, <3>3, <3>4, <3>5 DEF EventsInv
  <2>5. ASSUME NEW S \in SUBSET Jobs, RecoverStale(S)
        PROVE  EventsInv'
    <3>1. /\ UNCHANGED <<attempts, manualRetries, executing, ledger>>
          /\ \A v \in outbox' : v \in outbox \/ (v.type = "lock_timeout" /\ v.job \in S
                                                   /\ v.attempt = attempts[v.job])
      BY <2>5 DEF RecoverStale
    <3>2. /\ \A j \in S : status[j] = "running"
          /\ \A j \in Jobs : status'[j] = "running" => status[j] = "running"
      BY <2>5 DEF RecoverStale, Stale
    <3> QED
      BY <2>0, <3>1, <3>2 DEF EventsInv
  <2>6. ASSUME \/ \E j \in Jobs : BackoffElapses(j)
               \/ \E r \in Records : CreateRecord(r) \/ Withdraw(r)
               \/ UNCHANGED vars
        PROVE  EventsInv'
    BY <2>6 DEF BackoffElapses, CreateRecord, Withdraw, vars, EventsInv
  <2> QED
    BY <2>1, <2>2, <2>3, <2>4, <2>5, <2>6 DEF Next, Process, Resend
<1> QED
  BY <1>1, <1>2, TypeCorrect, PTL DEF Spec
=============================================================================
