------------------------------ MODULE Answers ------------------------------
(***************************************************************************)
(* One question's way through RAGOrchestrator.answer: screening, scope,    *)
(* query transformation, retrieval, evidence, generation, accounting and   *)
(* the stored reply.  The steps are the points between which others act:   *)
(* an administrator changes the draft's scope or a document's              *)
(* availability, other requests of the process record their usage, a       *)
(* rewrite that was given up records its own, the process may die.         *)
(*                                                                         *)
(* A case is a question and the texts of the chunks.  A setup is what the  *)
(* deployment, or an evaluation run, chose: the pipeline ("dense",         *)
(* "hybrid" or "v3"), a reranker or none, the query transformer, the       *)
(* verifier, the similarity floor, and whether failures of the stages      *)
(* before generation are raised (loud) or absorbed.                        *)
(***************************************************************************)
EXTENDS Retrieval, Evidence

CONSTANTS
  DocOf, Titles,      \* a chunk's document; a document's title, as tokens
  Requests,           \* the cases and setups that are asked
  Scopes,             \* knowledge scopes an administrator sets
  Scores,             \* scores a dense search gives
  MaxBlocks,          \* RETRIEVAL_MAX_CONTEXT_CHUNKS, and the fused and reranked top k
  Pool,               \* candidate pool sizes
  Budget,             \* RETRIEVAL_MAX_CONTEXT_CHARS, in sentences
  MaxQueries, MaxAttempts,
  Window,             \* how far _find_usage_record looks back
  MaxUsage,           \* bound on usage records
  MaxChanges,         \* bound on what administrators change
  Unscoped, None

Docs == {DocOf[c] : c \in Chunks}

\* What is assumed of the constants.
Admissible ==
  /\ RetrievalAdmissible
  /\ DocOf \in [Chunks -> Docs] /\ DOMAIN Titles = Docs
  /\ Scopes \subseteq SUBSET Docs /\ Scores \subseteq Nat
  /\ \A r \in Requests :
       /\ IsFiniteSet(r.case.question.terms) /\ IsFiniteSet(r.case.question.keywords)
       /\ \A c \in Chunks : WellFormed(r.case.texts[c])
       /\ r.setup.floor \in Nat
  /\ \A d \in Docs : IsSequence(Titles[d])
  /\ NoType \notin ConflictTypes
  /\ MaxBlocks \in Nat \ {0} /\ Pool \in Nat \ {0} /\ Budget \in Nat
  /\ MaxQueries \in Nat \ {0} /\ MaxAttempts \in Nat \ {0} /\ Window \in Nat \ {0}
  /\ MaxChanges \in Nat
  /\ None \notin [state : {"answered", "fallback", "failed"}, cost : {"none", "zero", "recorded"}]
  /\ None \notin {"citation_foreign_scope", "ambiguous_request", "related_topic_only",
                  "requested_fact_absent", "conflicting_evidence", "sufficient_evidence",
                  "provider_failed"}

VARIABLES
  case, setup,
  scope,     \* the draft's knowledge scope; Unscoped without an assistant
  live,      \* documents retrieval may find
  changes,   \* what administrators have changed
  pc,        \* where the request is
  allowed,   \* the scope it read
  queries,   \* how many retrieval queries it searches with
  found,     \* the rankings its searches returned, until it has judged them
  context,   \* the blocks assembled, sanitised
  reason,    \* why it answers or refuses
  seen,      \* the blocks the model gets
  attempt,   \* the attempt under way
  usage,     \* the process's usage records, in order
  orphan,    \* a rewrite was given up and is still running
  reply,     \* the assistant's message
  citations, \* what is attached to it
  trace,     \* the request's row of ai_traces
  buffer     \* what the recorder writes with its end

world   == <<case, setup>>
tracing == <<trace, buffer>>
request == <<pc, allowed, queries, found, context, reason, seen, attempt, reply, citations>>
vars    == <<world, scope, live, changes, request, usage, orphan, tracing>>

question == case.question
v3       == setup.pipeline = "v3"
Stages   == {"accepted", "resolve", "policy", "scope", "transform", "dense", "lexical", "judge",
             "refuse", "generate", "account", "cite", "finish", "returned", "raised", "dead"}
Ended    == {"returned", "raised", "dead"}

TypeOK ==
  /\ [case |-> case, setup |-> setup] \in Requests
  /\ scope \in Scopes \cup {Unscoped} /\ allowed \in Scopes \cup {Unscoped}
  /\ live \subseteq Docs /\ changes \in 0 .. MaxChanges
  /\ pc \in Stages /\ queries \in 1 .. MaxQueries /\ attempt \in 1 .. MaxAttempts
  /\ Len(found) <= MaxQueries + 1 /\ Len(context) <= MaxBlocks /\ Len(seen) <= Len(context)
  /\ usage \in Seq({"answer", "rewrite", "other"}) /\ orphan \in BOOLEAN
  /\ reply = None \/ reply.state \in {"answered", "fallback", "failed"}
  /\ citations = None \/ Len(citations) <= Len(seen)
  /\ trace = None \/ trace.status \in {"in_progress", "completed", "failed"}

Nothing == [chunks |-> <<>>, calls |-> 0]

Init ==
  /\ \E r \in Requests : case = r.case /\ setup = r.setup
  /\ scope \in Scopes \cup {Unscoped} /\ live = Docs /\ changes = 0
  /\ pc = "accepted" /\ allowed = Unscoped /\ queries = 1 /\ found = <<>>
  /\ context = <<>> /\ reason = None /\ seen = <<>> /\ attempt = 1
  /\ usage = <<>> /\ orphan = FALSE
  /\ reply = None /\ citations = None
  /\ trace = None /\ buffer = Nothing

-----------------------------------------------------------------------------
(* Before retrieval. *)

(* start_trace commits in a session of its own; a write that fails is        *)
(* swallowed, and then the request leaves no trace.                          *)
StartTrace ==
  /\ pc = "accepted" /\ pc' = "resolve"
  /\ \/ trace' = [status |-> "in_progress", state |-> None, written |-> Nothing]
     \/ trace' = trace
  /\ UNCHANGED <<world, scope, live, changes, allowed, queries, found, context, reason, seen, attempt,
                 usage, orphan, reply, citations, buffer>>

(* No such workspace, assistant or conversation. *)
ResolveFails ==
  /\ pc = "resolve" /\ pc' = "finish"
  /\ UNCHANGED <<world, scope, live, changes, allowed, queries, found, context, reason, seen, attempt,
                 usage, orphan, reply, citations, tracing>>

(* append_user_message commits; the screened question goes on. *)
AppendUserMessage ==
  /\ pc = "resolve" /\ pc' = "policy"
  /\ UNCHANGED <<world, scope, live, changes, allowed, queries, found, context, reason, seen, attempt,
                 usage, orphan, reply, citations, tracing>>

InputPolicy ==
  /\ pc = "policy"
  /\ IF question.blocked THEN pc' = "refuse" /\ reason' = "blocked"
                         ELSE pc' = "scope"  /\ UNCHANGED reason
  /\ UNCHANGED <<world, scope, live, changes, allowed, queries, found, context, seen, attempt,
                 usage, orphan, reply, citations, tracing>>

ReadScope ==
  /\ pc = "scope" /\ pc' = "transform"
  /\ allowed' = scope
  /\ UNCHANGED <<world, scope, live, changes, queries, found, context, reason, seen, attempt,
                 usage, orphan, reply, citations, tracing>>

(* transform_query.  A failed transformation leaves the original query. *)
Transform(n) ==
  /\ queries' = n /\ pc' = "dense"
Untransformed ==
  IF setup.loud THEN pc' = "raised" /\ UNCHANGED queries ELSE Transform(1)

Rewritten == \E n \in 1 .. MaxQueries : Transform(n) /\ usage' = Append(usage, "rewrite") /\ UNCHANGED orphan
RewriteFails == Untransformed /\ usage' = Append(usage, "rewrite") /\ UNCHANGED orphan
RewriteTimesOut == Untransformed /\ orphan' = TRUE /\ UNCHANGED usage

TransformQuery ==
  /\ pc = "transform"
  /\ \/ setup.rewriter = "identity" /\ Transform(1) /\ UNCHANGED <<usage, orphan>>
     \/ /\ setup.rewriter = "deterministic"
        /\ (\E n \in 1 .. MaxQueries : Transform(n)) /\ UNCHANGED <<usage, orphan>>
     \/ setup.rewriter = "model" /\ (Rewritten \/ RewriteFails \/ RewriteTimesOut)
  /\ UNCHANGED <<world, scope, live, changes, allowed, found, context, reason, seen, attempt,
                 reply, citations, tracing>>

-----------------------------------------------------------------------------
(* Retrieval. *)
Searchable == {c \in Chunks : DocOf[c] \in live /\ (allowed = Unscoped \/ DocOf[c] \in allowed)}

Larger(m, n) == IF m > n THEN m ELSE n

(* Only the dense pipeline searches with every query and applies the floor. *)
DenseQueries == IF setup.pipeline = "dense" THEN queries ELSE 1
DenseFloor   == IF setup.pipeline = "dense" THEN setup.floor ELSE 0
CandidateLimit ==   \* of the candidates handed on
  CASE setup.pipeline # "dense" -> Pool
    [] setup.pipeline = "dense" /\ setup.reranker -> Larger(Pool, MaxBlocks)
    [] OTHER -> MaxBlocks
DenseLimit   ==     \* of one search
  IF DenseQueries > 1 THEN Larger(CandidateLimit, Pool) ELSE CandidateLimit

SearchDense ==
  /\ pc = "dense"
  /\ \E score \in [Searchable -> Scores] :
       found' = Append(found, DenseSearch(Searchable, score, DenseLimit, DenseFloor))
  /\ pc' = CASE Len(found') < DenseQueries -> "dense"
             [] Len(found') >= DenseQueries /\ setup.pipeline = "dense" -> "judge"
             [] OTHER -> "lexical"
  /\ UNCHANGED <<world, scope, live, changes, allowed, queries, context, reason, seen, attempt,
                 usage, orphan, reply, citations, tracing>>

(* The embedding provider fails; with an empty scope it is not asked. *)
EmbeddingFails ==
  /\ pc = "dense" /\ allowed # {}
  /\ pc' = "raised"
  /\ UNCHANGED <<world, scope, live, changes, allowed, queries, found, context, reason, seen, attempt,
                 usage, orphan, reply, citations, tracing>>

SearchLexical ==
  /\ pc = "lexical" /\ pc' = "judge"
  /\ LET words == [c \in Chunks |-> ToSet(WholeText(case.texts[c]))]
     IN found' = Append(found, LexicalSearch(Searchable, question.terms, words, Pool))
  /\ UNCHANGED <<world, scope, live, changes, allowed, queries, context, reason, seen, attempt,
                 usage, orphan, reply, citations, tracing>>

(* The candidates: fused, merged, or as the one search ranked them. *)
Candidates ==
  CASE setup.pipeline # "dense" -> Fuse(found[1], found[2], MaxBlocks)
    [] setup.pipeline = "dense" /\ DenseQueries > 1 -> Merge(found, CandidateLimit)
    [] OTHER -> found[1]

-----------------------------------------------------------------------------
(* From the ranking to the decision. *)
Sanitised(blocks) == [i \in DOMAIN blocks |-> [blocks[i] EXCEPT !.text = SanitiseText(blocks[i].text)]]

InScope(blocks) == allowed = Unscoped \/ \A i \in DOMAIN blocks : DocOf[blocks[i].chunk] \in allowed

Verdict(blocks) ==
  EvidenceVerdict(setup.verifier, question,
                  [i \in DOMAIN blocks |-> blocks[i].text],
                  [i \in DOMAIN blocks |-> Titles[DocOf[blocks[i].chunk]]],
                  Max({0} \cup {blocks[i].score : i \in DOMAIN blocks}))

Decision(blocks, verdict) ==
  IF blocks = <<>> THEN "retrieval_empty"
  ELSE IF ~InScope(blocks) THEN "citation_foreign_scope"
  ELSE IF v3 THEN Constrained(setup.verifier, verdict)
  ELSE verdict.reason

(* What the model is shown, of the blocks of an answerable question. *)
Shown(blocks, verdict) ==
  LET those == IF v3 THEN AllowedBlocks(verdict, Len(blocks)) ELSE DOMAIN blocks
      order == Sorted(those, {p \in those \X those : p[1] < p[2]})
  IN [i \in DOMAIN order |-> blocks[order[i]]]

(* What is recorded is buffered until the trace ends, if there is one. *)
Buffered(chunks, calls) ==
  buffer' = IF trace = None THEN buffer
            ELSE [chunks |-> buffer.chunks \o chunks, calls |-> buffer.calls + calls]

Judge(blocks, verdict) ==
  /\ found' = <<>> /\ context' = blocks /\ Buffered([i \in DOMAIN blocks |-> blocks[i].chunk], 0)
  /\ reason' = Decision(blocks, verdict)
  /\ IF reason' = "sufficient_evidence"
     THEN seen' = Shown(blocks, verdict) /\ pc' = "generate"
     ELSE pc' = "refuse" /\ UNCHANGED seen

(* A reranker may choose any order; the one it was given is what is left
   when it fails and the failure is absorbed. *)
Rankings == IF setup.reranker THEN Rerankings(Candidates, MaxBlocks) ELSE {Candidates}

JudgeRanking ==
  /\ pc = "judge"
  /\ \E ranking \in Rankings :
       \E blocks \in {Sanitised(AssembleContext(ranking, case.texts, MaxBlocks, Budget))} :
         \E verdict \in {Verdict(blocks)} : Judge(blocks, verdict)
  /\ UNCHANGED <<world, scope, live, changes, allowed, queries, attempt, usage, orphan, reply, citations, trace>>

(* The reranker fails on candidates it was given. *)
RerankFails ==
  /\ pc = "judge" /\ setup.reranker /\ setup.loud /\ Candidates # <<>>
  /\ pc' = "raised"
  /\ UNCHANGED <<world, scope, live, changes, allowed, queries, found, context, reason, seen, attempt,
                 usage, orphan, reply, citations, tracing>>

(* _persist_fallback. *)
PersistFallback ==
  /\ pc = "refuse" /\ pc' = "finish"
  /\ reply' = [state |-> "fallback", cost |-> "none"]
  /\ UNCHANGED <<world, scope, live, changes, allowed, queries, found, context, reason, seen, attempt,
                 usage, orphan, citations, tracing>>

-----------------------------------------------------------------------------
(* Generation and accounting. *)

(* An execution is recorded when it ends, whatever its attempts. *)
Generated(error) ==
  /\ pc' = "account" /\ usage' = Append(usage, "answer")
  /\ reason' = IF error THEN "provider_failed" ELSE reason
  /\ UNCHANGED attempt

ProviderAnswers == pc = "generate" /\ Generated(FALSE)
ProviderRefuses == pc = "generate" /\ Generated(TRUE)   \* an error that is not retried
ProviderUnavailable ==
  /\ pc = "generate"
  /\ IF attempt < MaxAttempts THEN attempt' = attempt + 1 /\ UNCHANGED <<pc, usage, reason>>
                              ELSE Generated(TRUE)

Generate ==
  /\ ProviderAnswers \/ ProviderRefuses \/ ProviderUnavailable
  /\ UNCHANGED <<world, scope, live, changes, allowed, queries, found, context, seen, orphan, reply, citations, tracing>>

(* _find_usage_record looks through the latest records of the process. *)
Recent == SubSeq(usage, IF Len(usage) > Window THEN Len(usage) - Window + 1 ELSE 1, Len(usage))

(* A failure is stored and raised; an unsafe answer is stored as a fallback. *)
PersistReply ==
  /\ pc = "account"
  /\ Buffered(<<>>, 1)
  /\ LET cost == IF Contains(Recent, "answer") THEN "recorded" ELSE "zero"
     IN IF reason = "provider_failed"
        THEN reply' = [state |-> "failed", cost |-> cost] /\ pc' = "finish"
        ELSE /\ \E state \in {"answered", "fallback"} : reply' = [state |-> state, cost |-> cost]
             /\ pc' = "cite"
  /\ UNCHANGED <<world, scope, live, changes, allowed, queries, found, context, reason, seen, attempt,
                 usage, orphan, citations, trace>>

(* A message whose number another request of the conversation took first    *)
(* is not stored: append_user_message and append_assistant_message raise,   *)
(* and nothing ends the trace.  The execution behind a reply was recorded.  *)
MessageNotStored ==
  /\ pc \in {"resolve", "refuse", "account"} /\ pc' = "raised"
  /\ IF pc = "account" THEN Buffered(<<>>, 1) ELSE UNCHANGED buffer
  /\ UNCHANGED <<world, scope, live, changes, allowed, queries, found, context, reason, seen, attempt,
                 usage, orphan, reply, citations, trace>>

\* Variant of the next: citations are numbered anew.
CitedAnew(blocks) == [i \in DOMAIN blocks |-> [index |-> i, chunk |-> blocks[i].chunk, text |-> blocks[i].text]]

Cited(blocks) == [i \in DOMAIN blocks |-> [index |-> blocks[i].index, chunk |-> blocks[i].chunk,
                                           text |-> blocks[i].text]]

(* A commit of its own. *)
AttachCitations ==
  /\ pc = "cite" /\ pc' = "finish"
  /\ citations' = IF reply.state = "answered" THEN Cited(seen) ELSE <<>>
  /\ UNCHANGED <<world, scope, live, changes, allowed, queries, found, context, reason, seen, attempt,
                 usage, orphan, reply, tracing>>

(* finish_trace: one commit of the row's end and of all that was buffered;   *)
(* if it fails, all of that is lost and the row stays as it was.             *)
Failed == reply = None \/ reply.state = "failed"

FinishTrace ==
  /\ pc = "finish" /\ pc' = IF Failed THEN "raised" ELSE "returned"
  /\ buffer' = Nothing
  /\ \/ trace' = trace
     \/ /\ trace # None
        /\ trace' = [status |-> IF Failed THEN "failed" ELSE "completed",
                     state  |-> IF reply = None THEN None ELSE reply.state, written |-> buffer]
  /\ UNCHANGED <<world, scope, live, changes, allowed, queries, found, context, reason, seen, attempt,
                 usage, orphan, reply, citations>>

Request == StartTrace \/ ResolveFails \/ AppendUserMessage \/ InputPolicy \/ ReadScope \/ TransformQuery
             \/ SearchDense \/ EmbeddingFails \/ SearchLexical \/ JudgeRanking \/ RerankFails
             \/ PersistFallback \/ Generate \/ PersistReply \/ MessageNotStored \/ AttachCitations \/ FinishTrace

-----------------------------------------------------------------------------
(* Everyone else, as long as this request may notice: what is recorded     *)
(* before its own record, or changed after its search, it never reads.     *)

OthersRecord ==
  /\ pc = "account" /\ Len(usage) + 1 < MaxUsage
  /\ usage' = Append(usage, "other")
  /\ UNCHANGED <<world, scope, live, changes, request, orphan, tracing>>

(* The rewrite that was given up ends after all. *)
OrphanRecords ==
  /\ orphan /\ pc # "dead"
  /\ orphan' = FALSE /\ usage' = Append(usage, "rewrite")
  /\ UNCHANGED <<world, scope, live, changes, request, tracing>>

Retrieving == {"accepted", "resolve", "policy", "scope", "transform", "dense", "lexical"}

SetScope ==
  /\ pc \in Retrieving /\ changes < MaxChanges /\ changes' = changes + 1
  /\ scope # Unscoped /\ scope' \in Scopes \ {scope}
  /\ UNCHANGED <<world, live, request, usage, orphan, tracing>>

SetLive ==
  /\ pc \in Retrieving /\ changes < MaxChanges /\ changes' = changes + 1
  /\ \E d \in Docs : live' = IF d \in live THEN live \ {d} ELSE live \cup {d}
  /\ UNCHANGED <<world, scope, request, usage, orphan, tracing>>

Die ==
  /\ pc \notin Ended /\ pc' = "dead"
  /\ usage' = <<>> /\ orphan' = FALSE /\ buffer' = Nothing
  /\ UNCHANGED <<world, scope, live, changes, allowed, queries, found, context, reason, seen, attempt,
                 reply, citations, trace>>

Next == Request \/ OthersRecord \/ OrphanRecords \/ SetScope \/ SetLive \/ Die

Spec == Init /\ [][Next]_vars

-----------------------------------------------------------------------------
(* What the evidence should be, said without units, windows and verdicts:   *)
(* a fact is the anchors and a value of the type within reach of each other.*)

Fact == RequestedFact(setup.verifier, question, 0)

Passage(text, lo, hi) == WholeText(SubSeq(text, lo, hi))
Stops(text, lo, hi)   == Cardinality({i \in lo .. hi - 1 : text[i].ends = "stop"})

States(passage, title) ==
  /\ IF Fact.entities # {} THEN Fact.entities \subseteq ToSet(passage) \cup title
     ELSE Fact.keywords = {} \/ Hits(Fact.keywords, passage) >= RequiredHits(Fact.keywords)
  /\ \/ Fact.type = NoType
     \/ \E token \in ToSet(passage) \cup title : token[1] \in Accepts(setup.verifier, Fact.type)

TitleOf(block) == IF Fact.entities # {} THEN ToSet(Titles[DocOf[block.chunk]]) ELSE {}

(* The chunk states the fact in a row of at most so many sentences. *)
StatesWithin(block, sentences) ==
  \E lo, hi \in DOMAIN block.text :
    /\ lo <= hi /\ Stops(block.text, lo, hi) < sentences
    /\ States(Passage(block.text, lo, hi), TitleOf(block))

StatesOutright(block) ==
  \E i \in DOMAIN block.text : States(block.text[i].tokens, TitleOf(block))

ValuesIn(block) == {t \in ToSet(WholeText(block.text)) \cup TitleOf(block) :
                      t[1] \in Accepts(setup.verifier, Fact.type)}

Disagree(a, b) ==
  /\ StatesOutright(a) /\ StatesOutright(b)
  /\ Cardinality(ValuesIn(a)) = 1 /\ Cardinality(ValuesIn(b)) = 1
  /\ ValuesIn(a) # ValuesIn(b)

\* Only the second verifier leaves values out, of questions of keywords alone.
AllCompared == setup.verifier = "v1" \/ Fact.keywords = {}

(* A specific question is answered only when a chunk the model is shown     *)
(* states the fact within three sentences; the third pipeline shows no      *)
(* other chunk.  When it asks for a value of a type that can conflict, and  *)
(* every value found is compared, it is not answered while two chunks state *)
(* different values outright.  (Of a question of keywords alone the second  *)
(* verifier drops the values of weak matches, and may answer over two; and  *)
(* the values of other types are never compared.)  The model is shown       *)
(* nothing out of scope, below the floor or injected.  And a question is    *)
(* refused only for a reason that holds: no chunk states the fact in one    *)
(* sentence, or two values were found.  (answer, both verifiers, the        *)
(* constraints.)                                                            *)
DecisionIsRight ==
  LET shown  == ToSet(seen)
      blocks == ToSet(context)
  IN /\ seen # <<>> /\ Specific(Fact) =>
          /\ \E b \in shown : StatesWithin(b, 3)
          /\ v3 => \A b \in shown : StatesWithin(b, 3)
          /\ Fact.type \in ConflictTypes /\ AllCompared => ~\E a, b \in blocks : Disagree(a, b)
     /\ \A b \in shown :
          /\ allowed = Unscoped \/ DocOf[b.chunk] \in allowed
          /\ setup.pipeline = "dense" => b.score >= setup.floor
          /\ \A i \in DOMAIN b.text : ~b.text[i].injected
     /\ reason = "requested_fact_absent" =>
          Specific(Fact) /\ ~\E b \in blocks : StatesOutright(b)
     /\ reason \in {"conflicting_evidence", "ambiguous_request"} =>
          Cardinality(UNION {ValuesIn(b) : b \in blocks}) > 1
     /\ reason = "related_topic_only" => ~Specific(Fact)
     /\ reason # "citation_foreign_scope"

Dominates(a, b) ==
  \A i \in DOMAIN found : b \in ChunksOf(found[i]) =>
    a \in ChunksOf(found[i]) /\ RankOf(found[i], a) < RankOf(found[i], b)

(* A chunk that every search which found another ranks above the other is   *)
(* not displaced by it: if the other is among those the context is made of, *)
(* it is, and earlier.  (reciprocal_rank_fusion, merge_multi_query_-        *)
(* candidates, the limits of each search.)                                  *)
RankingIsFair ==
  pc = "judge" =>
    \A ranking \in {Top(Candidates, MaxBlocks)} : \A j \in DOMAIN ranking :
      \A a \in Chunks \ {ranking[j].chunk} :
        Dominates(a, ranking[j].chunk) => \E i \in 1 .. j - 1 : ranking[i].chunk = a

\* The model has been asked, and what became of it is known.
Asked == \/ pc = "account" \/ (reply # None /\ reply.cost # "none")
         \/ pc = "raised" /\ reason \in {"sufficient_evidence", "provider_failed"}

(* The stored reply says what happened: a request that returned left one,   *)
(* and one that raised only when the provider failed.  The model's          *)
(* execution is recorded exactly once when there was one, also when the     *)
(* reply is lost to a taken number, and the cost stored is zero only when a *)
(* full window of later records hides it.  An answer cites the blocks the   *)
(* model was shown, under the numbers it was shown, and nothing else cites  *)
(* anything.  And a trace that has ended says the same: its status, its     *)
(* answer state, the chunks of the whole context and the one call of the    *)
(* model, if there was one.                                                 *)
ReplyIsTrue ==
  LET executions == {i \in DOMAIN usage : usage[i] = "answer"}
  IN /\ pc = "returned" => reply # None
     /\ pc = "raised" /\ reply # None => reason = "provider_failed"
     /\ pc # "dead" => Cardinality(executions) = (IF Asked THEN 1 ELSE 0)
     /\ reply # None /\ reply.cost = "zero" /\ pc # "dead" =>
          \A i \in executions : Len(usage) - i >= Window
     /\ reply # None /\ reply.state = "answered" => reason = "sufficient_evidence"
     /\ citations # None =>
          IF reply.state # "answered" THEN citations = <<>>
          ELSE /\ Len(citations) = Len(seen)
               /\ \A i \in DOMAIN seen :
                    /\ citations[i].chunk = seen[i].chunk /\ citations[i].text = seen[i].text
                    /\ context[citations[i].index].chunk = citations[i].chunk
     /\ trace # None /\ trace.status # "in_progress" =>
          /\ pc = IF trace.status = "failed" THEN "raised" ELSE "returned"
          /\ trace.state = IF reply = None THEN None ELSE reply.state
          /\ trace.written.calls = Cardinality(executions)
          /\ trace.written.chunks = [i \in DOMAIN context |-> context[i].chunk]
=============================================================================
