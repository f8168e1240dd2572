-------------------------- MODULE MCPublicMessages --------------------------
(* Small instances of PublicMessages for TLC. *)
EXTENDS PublicMessages, TLC

\* Requests, keys and bodies are interchangeable: safety runs only.
Interchangeable ==
  Permutations(Requests) \cup Permutations(Keys) \cup Permutations(Bodies)
=============================================================================
