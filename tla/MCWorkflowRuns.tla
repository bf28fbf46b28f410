--------------------------- MODULE MCWorkflowRuns ---------------------------
(* Small instances of WorkflowRuns.                                        *)
EXTENDS WorkflowRuns, TLC

CONSTANTS brief, text, art, u1, u2   \* stages, requests

(* A chain of two stages, and a branch to two. *)
MCChain == {<<brief, text>>}
MCBranch == {<<brief, text>>, <<brief, art>>}

(* With a second row for text, by a revision or by a second approval. *)
MCVisits == [n \in Nodes |-> IF n = text THEN 2 ELSE 1]
MCOnce == [n \in Nodes |-> 1]

MCSymmetry == Permutations(Users)
=============================================================================
