------------------------- MODULE MCWidgetRevisions -------------------------
(* Small instances of WidgetRevisions for TLC. *)
EXTENDS WidgetRevisions, TLC

\* Requests and fields are interchangeable: safety runs only.
Interchangeable == Permutations(Requests) \union Permutations(Fields)
=============================================================================
