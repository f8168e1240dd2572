---------------------------- MODULE MCFeedback ----------------------------
(* Instances of Feedback: what the detector asks for, by key.               *)
EXTENDS Triage, TLC

MCAsked == [key \in Keys |-> CASE key = "high_latency" -> 0
                                 [] key = "low_confidence" -> 1
                                 [] key = "guardrail" -> 2]

Alike == Permutations(Scanners) \cup Permutations(Reviewers)
=============================================================================
