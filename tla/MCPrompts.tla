----------------------------- MODULE MCPrompts -----------------------------
(* Instances of Prompts: the process of each thread.  Versions and          *)
(* experiments share no state but the threads, so that an instance explores *)
(* them apart.                                                              *)
EXTENDS Prompts, TLC

CONSTANTS t1, t2, p1, p2, v1, v2

MCHome == (t1 :> p1) @@ (t2 :> p2)

Apart ==
  \/ \A e \in Experiments : experiments[e] = None
  \/ \A v \in Versions : versions[v] = "absent"

Alike == Permutations(Versions)
=============================================================================
