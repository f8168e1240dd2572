------------------------- MODULE PublicationHistory -------------------------
(***************************************************************************)
(* What publishing promises whoever reads a widget's public configuration: *)
(* an append-only history of immutable configurations and a pointer that   *)
(* always names the newest of them, moved in the same step that adds it    *)
(* (docs/adr/0017-...-management-model.md: "creates an immutable revision  *)
(* and updates the active published revision pointer atomically").         *)
(***************************************************************************)
EXTENDS Naturals

CONSTANTS Contents,  \* the configurations a widget can have
          Numbers    \* the numbers a revision can have, all positive

VARIABLES published, \* the configurations ever published, by revision number
          current    \* the number the public endpoint serves, 0 before any

vars == <<published, current>>

Entry == [number : Numbers, content : Contents]

TypeOK == published \in SUBSET Entry /\ current \in Nat

Init == published = {} /\ current = 0

\* A publication, or a rollback, which is a publication of an old content.
Publish(n, c) ==
    /\ n > current
    /\ published' = published \union {[number |-> n, content |-> c]}
    /\ current' = n

Next == \E n \in Numbers, c \in Contents : Publish(n, c)

Spec == Init /\ [][Next]_vars
=============================================================================
