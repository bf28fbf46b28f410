-------------------------- MODULE MCExecutionJobs --------------------------
(* Small instances of ExecutionJobs.                                       *)
EXTENDS ExecutionJobs

CONSTANTS first, second, r1, r2

MCJobs == {first, second}

(* A publisher job with a record of its own, and a job without one. *)
MCOwnRecord == [j \in MCJobs |-> IF j = first THEN r1 ELSE NoRecord]
MCTwoAttempts == [j \in MCJobs |-> 2]

(* Two publisher jobs that name the same record; one has a single attempt. *)
MCSharedRecord == [j \in MCJobs |-> r1]
MCOneHasTwo == [j \in MCJobs |-> IF j = first THEN 2 ELSE 1]
=============================================================================
