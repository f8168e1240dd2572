--------------------------- MODULE MCEvaluation ---------------------------
(* Instances of Evaluation: processes and candidates are interchangeable.   *)
EXTENDS ReleaseGate, TLC

Alike == Permutations(Workers) \cup Permutations(Candidates)
=============================================================================
