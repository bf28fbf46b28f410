---------------------------- MODULE JobLifecycle ----------------------------
(***************************************************************************)
(* What an execution job promises to everyone who reads its row: the state *)
(* machine of domain/execution/job-status.ts, the attempt counter that a   *)
(* claim advances, and the one override the operators have, a manual retry *)
(* of a failed job.  Nothing is said here of workers, leases or results.   *)
(***************************************************************************)
EXTENDS Naturals

CONSTANT Jobs      \* the execution_jobs rows, one per idempotency key

VARIABLES
  status,          \* execution_jobs.status, or "absent" before the insert
  attempts         \* execution_jobs.attempt_count

lifeVars == <<status, attempts>>

JobStatus == {"pending", "running", "success", "failed"}

(* The TRANSITIONS matrix: success and failed have no successor. *)
Allowed ==
  [pending |-> {"running"},
   running |-> {"success", "failed", "pending"},
   success |-> {},
   failed  |-> {}]

Init ==
  /\ status = [j \in Jobs |-> "absent"]
  /\ attempts = [j \in Jobs |-> 0]

Create(j) ==
  /\ status[j] = "absent"
  /\ status' = [status EXCEPT ![j] = "pending"]
  /\ UNCHANGED attempts

(* Only a claim enters "running", and it opens the next attempt. *)
Start(j) ==
  /\ status[j] \in JobStatus
  /\ "running" \in Allowed[status[j]]
  /\ status' = [status EXCEPT ![j] = "running"]
  /\ attempts' = [attempts EXCEPT ![j] = @ + 1]

(* One transaction settles or puts back the attempt of every job of S. *)
Resolve(S) ==
  /\ \A j \in S : status[j] = "running"
  /\ \E to \in [S -> Allowed["running"]] :
       status' = [j \in Jobs |-> IF j \in S THEN to[j] ELSE status[j]]
  /\ UNCHANGED attempts

(* The operators' override: outside the matrix, and only from "failed". *)
ManualRetry(j) ==
  /\ status[j] = "failed"
  /\ status' = [status EXCEPT ![j] = "pending"]
  /\ UNCHANGED attempts

Next ==
  \/ \E j \in Jobs : Create(j) \/ Start(j) \/ ManualRetry(j)
  \/ \E S \in SUBSET Jobs : Resolve(S)

Spec == Init /\ [][Next]_lifeVars
=============================================================================
