-------------------------- MODULE MCStageWriteback --------------------------
(* Small instances of StageWriteback.                                      *)
EXTENDS StageWriteback

CONSTANT draft   \* a stage

(* Two results of one stage's job: a failure, then a retry's success. *)
MCSubjects == [e \in {1, 2} |-> draft]
MCResults == [e \in {1, 2} |-> IF e = 1 THEN "failed" ELSE "success"]

(* An event with nothing to do, one of a subject that is skipped, and a    *)
(* stage's result.                                                         *)
MCKinds == [e \in 1..3 |-> IF e = 1 THEN NotTerminal ELSE IF e = 2 THEN Unsupported ELSE draft]
MCSuccesses == [e \in 1..3 |-> "success"]
=============================================================================
