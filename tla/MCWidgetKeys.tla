---------------------------- MODULE MCWidgetKeys ----------------------------
(* Small instances of WidgetKeys for TLC. *)
EXTENDS WidgetKeys, TLC

\* The routes of a widget and the activation of its key, one after the other,
\* and every route, two requests at once.
OneByOne == [workers |-> 1, operations |-> WidgetOperations \union {"activate", "disable", "revoke"}]
TwoAtOnce == [workers |-> 2, operations |-> Operations]

BothRegimes == {OneByOne, TwoAtOnce}

Interchangeable == Permutations(Requests)
=============================================================================
