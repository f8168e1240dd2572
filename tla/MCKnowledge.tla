---------------------------- MODULE MCKnowledge ----------------------------
(* Small instances of the two halves of answering from documents, one      *)
(* after the other in one run: how a document comes to be found            *)
(* (Documents), and what a request makes of what it finds (Answers, whose  *)
(* library is a given).  The half a behaviour is about moves, the other    *)
(* rests in one initial state.                                             *)
EXTENDS MCAnswers, Library, TLC

VARIABLE half

\* Windows with and without an overlap, and one that takes the whole text.
ChunkSettings ==
  {[size |-> 2, overlap |-> 1], [size |-> 2, overlap |-> 0], [size |-> 3, overlap |-> 1]}

\* Two models of one provider: an embedding by the other model changes one column.
Configured(provider, model) == [c \in {"provider", "model"} |-> IF c = "provider" THEN provider ELSE model]
Configurations == {Configured("ollama", "small"), Configured("ollama", "large")}

ingestion == <<documents, editions, chunks, words, files, draft, locked, handlers, spoiled>>

answering == <<case, setup, area, live, changes, pc, allowed, queries, rankings, context, reason, shown,
               attempt, reply, citations, usage, orphan, trace, buffer>>

\* A status that nothing follows is not explored further: the document before it can do
\* all that one in it can, and retrieval finds no more of it.
Unended ==
  \A d \in Uploads :
    documents[d].status \notin {"failed", "archived", "expired"} /\ editions[d].status # "superseded"

HandlersAlike == Permutations(Handlers)

KnowledgeInit ==
  /\ half \in {"ingestion", "answering"}
  /\ Reply!Init /\ Ingestion!Init
  /\ half = "ingestion" =>
       /\ case = [question |-> Thanks, texts |-> Resets]
       /\ setup = Deployment("dense", FALSE, "identity", "v1", 0, FALSE)
       /\ area = Unscoped

Ingests == half = "ingestion" /\ Ingestion!Next /\ UNCHANGED <<half, answering>>
Responds == half = "answering" /\ Reply!Next /\ UNCHANGED <<half, ingestion>>
KnowledgeNext == Ingests \/ Responds

KnowledgeSpec == KnowledgeInit /\ [][KnowledgeNext]_<<half, answering, ingestion>>
=============================================================================
