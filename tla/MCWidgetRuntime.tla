-------------------------- MODULE MCWidgetRuntime --------------------------
(* Small instances of WidgetRuntime for TLC. *)
EXTENDS WidgetRuntime, TLC

\* Commands are interchangeable: safety runs only.
Interchangeable == Permutations(Commands)
=============================================================================
