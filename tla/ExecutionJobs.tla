--------------------------- MODULE ExecutionJobs ---------------------------
(***************************************************************************)
(* The execution plane's job queue: execution_jobs rows claimed, run and   *)
(* settled by the worker's overlapping cycles, recovered when their lock   *)
(* goes stale, retried by an operator; the execution_results ledger, the   *)
(* outbox_events written in the same transactions, and the publish_records *)
(* a publisher job drives.  A step is one committed transaction, or the    *)
(* death of the process that should have committed one.                    *)
(***************************************************************************)
EXTENDS Integers, FiniteSets

CONSTANTS
  Jobs,               \* jobs, each under an idempotency key of its own
  Records,            \* publish_records rows
  NoRecord,           \* a job whose payload names no publish record
  NoJob,              \* publish_records.execution_job_id IS NULL
  RecordOf,           \* the publishRecordId of each job's payload
  MaxAttempts,        \* execution_jobs.max_attempts
  LockCoversRuntime,  \* TRUE: no lock expires while its process still runs
  Concurrency,        \* bound: process() calls in flight at once
  ManualRetryBound    \* bound: manual retries of one job

ASSUME JobsAssumption ==
  /\ NoJob \notin Jobs
  /\ NoRecord \notin Records
  /\ RecordOf \in [Jobs -> Records \union {NoRecord}]
  /\ MaxAttempts \in [Jobs -> Nat \ {0}]
  /\ LockCoversRuntime \in BOOLEAN
  /\ Concurrency \in Nat \ {0}
  /\ ManualRetryBound \in Nat

VARIABLES
  status,         \* execution_jobs.status, or "absent"
  attempts,       \* execution_jobs.attempt_count
  backoff,        \* is execution_jobs.next_run_at in the future?
  manualRetries,  \* manual retries so far (history; bounds the model)
  executing,      \* process() calls in flight, each with its job snapshot
  ledger,         \* execution_results rows
  outbox,         \* outbox_events rows
  record,         \* publish_records.status, or "absent"
  recordJob,      \* publish_records.execution_job_id
  calls           \* publisher runtime calls made for a record (history)

jobVars == <<status, attempts, backoff, manualRetries>>
recordVars == <<record, recordJob, calls>>
vars == <<jobVars, executing, ledger, outbox, recordVars>>

JobStatus == {"pending", "running", "success", "failed"}
RecordStatus == {"pending", "publishing", "published", "failed", "withdrawn"}
EventType == {"created", "running", "success", "failed", "retry_scheduled",
              "lock_timeout", "manual_retry"}

(* "preparing": claimed, publish record not yet marked; "calling": inside  *)
(* the runtime adapter; "blocked": markPublishing matched no row.          *)
Phase == {"preparing", "calling", "blocked"}

Execution == [job : Jobs, attempt : Nat, phase : Phase]
Result == [job : Jobs, attempt : Nat, status : {"success", "failed"}]
Event == [type : EventType, job : Jobs, attempt : Nat]

TypeOK ==
  /\ status \in [Jobs -> JobStatus \union {"absent"}]
  /\ attempts \in [Jobs -> Nat]
  /\ backoff \in [Jobs -> BOOLEAN]
  /\ manualRetries \in [Jobs -> Nat]
  /\ executing \subseteq Execution
  /\ ledger \subseteq Result
  /\ outbox \subseteq Event
  /\ record \in [Records -> RecordStatus \union {"absent"}]
  /\ recordJob \in [Records -> Jobs \union {NoJob}]
  /\ calls \in [Records -> Nat]

Init ==
  /\ status = [j \in Jobs |-> "absent"]
  /\ attempts = [j \in Jobs |-> 0]
  /\ backoff = [j \in Jobs |-> FALSE]
  /\ manualRetries = [j \in Jobs |-> 0]
  /\ executing = {}
  /\ ledger = {}
  /\ outbox = {}
  /\ record = [r \in Records |-> "absent"]
  /\ recordJob = [r \in Records |-> NoJob]
  /\ calls = [r \in Records |-> 0]

Emit(type, j, attempt) ==
  outbox' = outbox \union {[type |-> type, job |-> j, attempt |-> attempt]}

HasRecord(j) == RecordOf[j] # NoRecord

(* Mutant: the attempt just made is not counted. *)
ShouldRetryOnceMore(j, attempt) == attempt <= MaxAttempts[j]

(* retry-policy.ts: the attempt was counted when it was claimed. *)
ShouldRetry(j, attempt) == attempt < MaxAttempts[j]

-----------------------------------------------------------------------------
(* Jobs: creation, the passing of next_run_at, the claim. *)

(* A second job under the same key is refused and changes nothing. *)
CreateJob(j) ==
  /\ status[j] = "absent"
  /\ status' = [status EXCEPT ![j] = "pending"]
  /\ Emit("created", j, 0)
  /\ UNCHANGED <<attempts, backoff, manualRetries, executing, ledger, recordVars>>

BackoffElapses(j) ==
  /\ backoff[j]
  /\ backoff' = [backoff EXCEPT ![j] = FALSE]
  /\ UNCHANGED <<status, attempts, manualRetries, executing, ledger, outbox,
                 recordVars>>

(* Mutant: the claim forgets WHERE status = 'pending'. *)
ClaimAnyUnfinished(j) ==
  /\ status[j] \in {"pending", "running"}
  /\ ~backoff[j]
  /\ Cardinality(executing) < Concurrency
  /\ status' = [status EXCEPT ![j] = "running"]
  /\ attempts' = [attempts EXCEPT ![j] = @ + 1]
  /\ executing' = executing \union
       {[job |-> j, attempt |-> attempts[j] + 1,
         phase |-> IF HasRecord(j) THEN "preparing" ELSE "calling"]}
  /\ Emit("running", j, attempts[j] + 1)
  /\ UNCHANGED <<backoff, manualRetries, ledger, recordVars>>

(* SKIP LOCKED lets the poller pass over an older row that another         *)
(* transaction holds, and tickJob names its job: any due pending job may   *)
(* be the one claimed.  The row returned is the snapshot process() keeps.  *)
Claim(j) ==
  /\ status[j] = "pending"
  /\ ~backoff[j]
  /\ Cardinality(executing) < Concurrency
  /\ status' = [status EXCEPT ![j] = "running"]
  /\ attempts' = [attempts EXCEPT ![j] = @ + 1]
  /\ executing' = executing \union
       {[job |-> j, attempt |-> attempts[j] + 1,
         phase |-> IF HasRecord(j) THEN "preparing" ELSE "calling"]}
  /\ Emit("running", j, attempts[j] + 1)
  /\ UNCHANGED <<backoff, manualRetries, ledger, recordVars>>

-----------------------------------------------------------------------------
(* process(): the publish record is taken in a transaction of its own, the *)
(* runtime is called outside any, and one more commits the outcome.        *)

PreparePublisherRecord(e) ==
  LET r == RecordOf[e.job] IN
  /\ e.phase = "preparing"
  /\ HasRecord(e.job)
  /\ IF record[r] = "pending"
       THEN /\ record' = [record EXCEPT ![r] = "publishing"]
            /\ recordJob' = [recordJob EXCEPT ![r] = e.job]
            /\ calls' = [calls EXCEPT ![r] = @ + 1]
            /\ executing' = (executing \ {e}) \union {[e EXCEPT !.phase = "calling"]}
       ELSE /\ executing' = (executing \ {e}) \union {[e EXCEPT !.phase = "blocked"]}
            /\ UNCHANGED recordVars
  /\ UNCHANGED <<jobVars, ledger, outbox>>

(* markPublished and markFailed of the repository: both match the record   *)
(* only while it is "publishing", whichever job it was taken for, and the  *)
(* worker does not look at whether a row was matched.                      *)
MarkRecord(j, to) ==
  LET r == RecordOf[j] IN
  /\ IF HasRecord(j) /\ record[r] = "publishing"
       THEN /\ record' = [record EXCEPT ![r] = to]
            /\ recordJob' = [recordJob EXCEPT ![r] = j]
       ELSE UNCHANGED <<record, recordJob>>
  /\ UNCHANGED calls

(* The job row is written by id alone: neither its present status nor its  *)
(* attempt_count is compared with the snapshot.  The UNIQUE key of the     *)
(* ledger is the only guard; a transaction that breaks it is a Crash.      *)
Settle(e, to, result, type) ==
  /\ ~\E l \in ledger : l.job = e.job /\ l.attempt = e.attempt
  /\ status' = [status EXCEPT ![e.job] = to]
  /\ ledger' = ledger \union
       {[job |-> e.job, attempt |-> e.attempt, status |-> result]}
  /\ Emit(type, e.job, e.attempt)
  /\ executing' = executing \ {e}
  /\ UNCHANGED <<attempts, manualRetries>>

(* Mutant: the publish record is left to somebody else. *)
SucceedUnpublished(e) ==
  /\ e.phase = "calling"
  /\ Settle(e, "success", "success", "success")
  /\ UNCHANGED <<backoff, recordVars>>

Succeed(e) ==
  /\ e.phase = "calling"
  /\ Settle(e, "success", "success", "success")
  /\ MarkRecord(e.job, "published")
  /\ UNCHANGED backoff

(* Mutant: the error type is written where the status belongs. *)
FailForGoodAsBlocked(e) ==
  /\ e.phase \in {"calling", "blocked"}
  /\ Settle(e, "blocked", "failed", "failed")
  /\ MarkRecord(e.job, "failed")
  /\ UNCHANGED backoff

(* validation_error, permission_denied, blocked: final whatever is left. *)
FailForGood(e) ==
  /\ e.phase \in {"calling", "blocked"}
  /\ Settle(e, "failed", "failed", "failed")
  /\ MarkRecord(e.job, "failed")
  /\ UNCHANGED backoff

(* Mutant: a retry gives its publish record back. *)
FailAndRetryReleasing(e) ==
  /\ e.phase = "calling"
  /\ ShouldRetry(e.job, e.attempt)
  /\ Settle(e, "pending", "failed", "retry_scheduled")
  /\ backoff' = [backoff EXCEPT ![e.job] = TRUE]
  /\ MarkRecord(e.job, "pending")

(* The decision is taken on the snapshot's attempt, not on the row's.      *)
FailAndRetry(e) ==
  /\ e.phase = "calling"
  /\ ShouldRetry(e.job, e.attempt)
  /\ Settle(e, "pending", "failed", "retry_scheduled")
  /\ backoff' = [backoff EXCEPT ![e.job] = TRUE]
  /\ UNCHANGED recordVars

FailExhausted(e) ==
  /\ e.phase = "calling"
  /\ ~ShouldRetry(e.job, e.attempt)
  /\ Settle(e, "failed", "failed", "failed")
  /\ MarkRecord(e.job, "failed")
  /\ backoff' = [backoff EXCEPT ![e.job] = FALSE]

(* The process dies, or its last transaction fails: the row stays running. *)
Crash(e) ==
  /\ executing' = executing \ {e}
  /\ UNCHANGED <<jobVars, ledger, outbox, recordVars>>

-----------------------------------------------------------------------------
(* Recovery and operators. *)

(* May the lock of j be older than the lock timeout?  The timeout knows    *)
(* nothing of the process that holds it (a payload may ask for a runtime   *)
(* ten times longer than the default lock): any running job may be stale,  *)
(* unless the deployment keeps every runtime inside its lock.              *)
Stale(j) ==
  /\ status[j] = "running"
  /\ LockCoversRuntime =>
       ~\E e \in executing : e.job = j /\ e.attempt = attempts[j]

(* Mutant: only a job with attempts to spare is recovered. *)
RecoverStaleRetryable(S) ==
  /\ S # {}
  /\ \A j \in S : Stale(j) /\ ShouldRetry(j, attempts[j])
  /\ status' = [j \in Jobs |-> IF j \in S THEN "pending" ELSE status[j]]
  /\ backoff' = [j \in Jobs |-> backoff[j] \/ j \in S]
  /\ outbox' = outbox \union
       {[type |-> "lock_timeout", job |-> j, attempt |-> attempts[j]] : j \in S}
  /\ UNCHANGED <<attempts, manualRetries, executing, ledger, recordVars>>

RecoverStale(S) ==
  /\ S # {}
  /\ \A j \in S : Stale(j)
  /\ status' = [j \in Jobs |->
       IF j \notin S THEN status[j]
       ELSE IF ShouldRetry(j, attempts[j]) THEN "pending" ELSE "failed"]
  /\ backoff' = [j \in Jobs |->
       IF j \notin S THEN backoff[j] ELSE ShouldRetry(j, attempts[j])]
  /\ outbox' = outbox \union
       {[type |-> "lock_timeout", job |-> j, attempt |-> attempts[j]] : j \in S}
  /\ UNCHANGED <<attempts, manualRetries, executing, ledger, recordVars>>

(* Mutant: the attempts start over. *)
ManualRetryFromZero(j) ==
  /\ status[j] = "failed"
  /\ manualRetries[j] < ManualRetryBound
  /\ status' = [status EXCEPT ![j] = "pending"]
  /\ attempts' = [attempts EXCEPT ![j] = 0]
  /\ backoff' = [backoff EXCEPT ![j] = FALSE]
  /\ manualRetries' = [manualRetries EXCEPT ![j] = @ + 1]
  /\ Emit("manual_retry", j, 0)
  /\ UNCHANGED <<executing, ledger, recordVars>>

(* Mutant: a job that succeeded can be run again. *)
ManualRetrySettled(j) ==
  /\ status[j] \in {"success", "failed"}
  /\ manualRetries[j] < ManualRetryBound
  /\ status' = [status EXCEPT ![j] = "pending"]
  /\ backoff' = [backoff EXCEPT ![j] = FALSE]
  /\ manualRetries' = [manualRetries EXCEPT ![j] = @ + 1]
  /\ Emit("manual_retry", j, attempts[j])
  /\ UNCHANGED <<attempts, executing, ledger, recordVars>>

(* attempt_count is kept: the ledger of the earlier attempts stands. *)
ManualRetry(j) ==
  /\ status[j] = "failed"
  /\ manualRetries[j] < ManualRetryBound
  /\ status' = [status EXCEPT ![j] = "pending"]
  /\ backoff' = [backoff EXCEPT ![j] = FALSE]
  /\ manualRetries' = [manualRetries EXCEPT ![j] = @ + 1]
  /\ Emit("manual_retry", j, attempts[j])
  /\ UNCHANGED <<attempts, executing, ledger, recordVars>>

-----------------------------------------------------------------------------
(* publish_records outside the worker. *)

CreateRecord(r) ==
  /\ record[r] = "absent"
  /\ record' = [record EXCEPT ![r] = "pending"]
  /\ UNCHANGED <<jobVars, executing, ledger, outbox, recordJob, calls>>

(* A resend leaves the old record as it is and inserts a fresh one. *)
Resend(old, r) ==
  /\ record[old] \in {"failed", "withdrawn"}
  /\ CreateRecord(r)

(* Mutant: a publication under way can be withdrawn. *)
WithdrawInFlight(r) ==
  /\ record[r] \in {"publishing", "published"}
  /\ record' = [record EXCEPT ![r] = "withdrawn"]
  /\ UNCHANGED <<jobVars, executing, ledger, outbox, recordJob, calls>>

Withdraw(r) ==
  /\ record[r] = "published"
  /\ record' = [record EXCEPT ![r] = "withdrawn"]
  /\ UNCHANGED <<jobVars, executing, ledger, outbox, recordJob, calls>>

-----------------------------------------------------------------------------
Process(e) ==
  \/ PreparePublisherRecord(e)
  \/ Succeed(e)
  \/ FailForGood(e)
  \/ FailAndRetry(e)
  \/ FailExhausted(e)
  \/ Crash(e)

Next ==
  \/ \E j \in Jobs : CreateJob(j) \/ BackoffElapses(j) \/ Claim(j) \/ ManualRetry(j)
  \/ \E e \in executing : Process(e)
  \/ \E S \in SUBSET Jobs : RecoverStale(S)
  \/ \E r \in Records : CreateRecord(r) \/ Withdraw(r)
  \/ \E old, r \in Records : Resend(old, r)

Spec == Init /\ [][Next]_vars

(* The interval timer keeps claiming and recovering, time passes, and a    *)
(* process() call ends: its runtime answers, or its process dies.  Nobody  *)
(* is obliged to create, retry or withdraw anything.                       *)
Fairness ==
  /\ WF_vars(\E j \in Jobs : Claim(j))
  /\ \A j \in Jobs :
       /\ WF_vars(BackoffElapses(j))
       /\ WF_vars(\E e \in executing : e.job = j /\ Process(e))
       /\ WF_vars(\E S \in SUBSET Jobs : j \in S /\ RecoverStale(S))

FairSpec == Spec /\ Fairness

-----------------------------------------------------------------------------
(* Properties that hold however late a process commits. *)

(* The ledger's UNIQUE (job, attempt) key never refuses a result: a call   *)
(* in flight owns an attempt that no recorded result and no other call has *)
(* (claim counts up, manual retry keeps attempt_count).                    *)
LedgerKeysFresh ==
  \A e \in executing :
    /\ \A l \in ledger : l.job = e.job => l.attempt # e.attempt
    /\ \A f \in executing : f.job = e.job /\ f.attempt = e.attempt => f = e

(* The external publisher is called at most once for a publish record,     *)
(* through every retry, recovery, crash and job that names the record.     *)
OnePublishCall == \A r \in Records : calls[r] <= 1

(* A record that shows as published (or was, before its withdrawal) names  *)
(* a job that has a successful result in the ledger.                       *)
PublishedHasResult ==
  \A r \in Records : record[r] \in {"published", "withdrawn"} =>
    \E l \in ledger :
      l.job = recordJob[r] /\ l.status = "success" /\ RecordOf[l.job] = r

(* How often a job may run.  With locks that cover the runtime: its        *)
(* maximum, plus one per manual retry.  Without: a stale attempt below the *)
(* maximum can be put back twice, by recovery and by its late failure.     *)
AttemptBudget ==
  \A j \in Jobs :
    attempts[j] <= manualRetries[j] +
      (IF LockCoversRuntime THEN MaxAttempts[j] ELSE 2 * MaxAttempts[j] - 1)

(* Every job that exists and is not settled settles. *)
JobSettles ==
  \A j \in Jobs : status[j] \in {"pending", "running"} ~> status[j] \in {"success", "failed"}

-----------------------------------------------------------------------------
(* Properties of a deployment whose locks cover the runtime. *)

(* One call per job, and it is the one the row's attempt_count counts. *)
ExclusiveExecution ==
  \A e \in executing :
    /\ status[e.job] = "running"
    /\ e.attempt = attempts[e.job]
    /\ \A f \in executing : f.job = e.job => f = e

Lifecycle == INSTANCE JobLifecycle

(* The queue implements the job state machine of job-status.ts: no step    *)
(* but a manual retry leaves success or failed, no attempt settles twice.  *)
LifecycleImplemented == Lifecycle!Spec

(* A publisher job that succeeded has its record published, when no other  *)
(* job names the same record.                                              *)
SuccessMeansPublished ==
  \A j \in Jobs :
    /\ status[j] = "success" /\ HasRecord(j)
    /\ \A i \in Jobs \ {j} : RecordOf[i] # RecordOf[j]
    => record[RecordOf[j]] \in {"published", "withdrawn"}

-----------------------------------------------------------------------------
(* What the documents say and the code does not do. *)

(* "success / failed have no successor": a job that succeeded stays so. *)
SuccessIsFinal ==
  [][\A j \in Jobs : status[j] = "success" => status'[j] = "success"]_vars

(* A retried publisher job is to finish the publication it started: its    *)
(* own record, still "publishing", does not block it.                      *)
RetryNotBlockedByItself ==
  \A e \in executing : e.phase = "blocked" =>
    ~(record[RecordOf[e.job]] = "publishing" /\ recordJob[RecordOf[e.job]] = e.job)
=============================================================================
