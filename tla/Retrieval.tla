----------------------------- MODULE Retrieval -----------------------------
(***************************************************************************)
(* How retrieval ranks chunks: the dense and the lexical search, the       *)
(* fusion of both, the merge of the searches of several queries, and the   *)
(* context assembled from the ranking.                                     *)
(*                                                                         *)
(* A chunk is a number, its id; a score is a natural number on the scale   *)
(* of the cosine similarity.  A match is a chunk and its score, a ranking  *)
(* a sequence of matches.                                                  *)
(***************************************************************************)
EXTENDS Ordering, FiniteSetsExt

CONSTANTS
  Chunks,       \* ids of chunks
  ChunkIndex,   \* ChunkIndex[c]: its position in its document
  RrfK,         \* RETRIEVAL_RRF_K
  Scale         \* a number that RrfK and any rank add up to a divisor of

\* What is assumed of these constants.
RetrievalAdmissible ==
  /\ Chunks \subseteq Nat /\ IsFiniteSet(Chunks)
  /\ ChunkIndex \in [Chunks -> Nat]
  /\ RrfK \in Nat \ {0} /\ Scale \in Nat \ {0}
  /\ \A rank \in 1 .. Cardinality(Chunks) : Scale % (RrfK + rank) = 0

Match(c, score) == [chunk |-> c, score |-> score]

ChunksOf(ranking) == {ranking[i].chunk : i \in DOMAIN ranking}
RankOf(ranking, c) == CHOOSE i \in DOMAIN ranking : ranking[i].chunk = c
ScoreOf(ranking, c) == ranking[RankOf(ranking, c)].score

-----------------------------------------------------------------------------
(* The two searches over the chunks that may be found. *)
EarlierChunk(a, b) == ChunkIndex[a] < ChunkIndex[b] \/ (ChunkIndex[a] = ChunkIndex[b] /\ a < b)

ByScore(chunks, score) ==
  LET Before(a, b) == score[a] > score[b] \/ (score[a] = score[b] /\ EarlierChunk(a, b))
      order        == Sorted(chunks, {p \in chunks \X chunks : Before(p[1], p[2])})
  IN [i \in DOMAIN order |-> Match(order[i], score[order[i]])]

(* search_embedded_chunks: the floor cuts the top of the ranking short, which
   falls by score. *)
DenseSearch(chunks, score, limit, floor) ==
  LET top   == Top(ByScore(chunks, score), limit)
      above == {i \in DOMAIN top : floor = 0 \/ top[i].score >= floor}
  IN Top(top, Cardinality(above))

(* search_lexical_chunks: the share of the query's terms a chunk holds. *)
LexicalSearch(chunks, terms, words, limit) ==
  LET hits == [c \in chunks |-> Cardinality(terms \cap words[c])]
  IN Top(ByScore({c \in chunks : hits[c] > 0}, hits), limit)

-----------------------------------------------------------------------------
(* reciprocal_rank_fusion, in integers: 1 / (k + rank) times Scale. *)
Reciprocal(ranking, c) ==
  IF c \in ChunksOf(ranking) THEN Scale \div (RrfK + RankOf(ranking, c)) ELSE 0

RrfScore(dense, lexical, c) == Reciprocal(dense, c) + Reciprocal(lexical, c)

(* A candidate keeps its dense score; one only the words found has none. *)
Fuse(dense, lexical, topK) ==
  LET found == ChunksOf(dense) \cup ChunksOf(lexical)
      score == [c \in found |-> RrfScore(dense, lexical, c)]
      Before(a, b) == score[a] > score[b] \/ (score[a] = score[b] /\ a < b)
      order == Sorted(found, {p \in found \X found : Before(p[1], p[2])})
      Fused(c) == Match(c, IF c \in ChunksOf(dense) THEN ScoreOf(dense, c) ELSE 0)
  IN Top([i \in DOMAIN order |-> Fused(order[i])], topK)

-----------------------------------------------------------------------------
(* merge_multi_query_candidates over the rankings of several queries. *)
FoundBy(rankings, c) == {q \in DOMAIN rankings : c \in ChunksOf(rankings[q])}
\* Variant of the next: the score of the last query that found it.
LatestScore(rankings, c) == ScoreOf(rankings[Max(FoundBy(rankings, c))], c)
BestScore(rankings, c) == Max({ScoreOf(rankings[q], c) : q \in FoundBy(rankings, c)})
BestRank(rankings, c)  == Min({RankOf(rankings[q], c) : q \in FoundBy(rankings, c)})

SeenBefore(rankings, a, b) ==
  LET p == Min(FoundBy(rankings, a))
      q == Min(FoundBy(rankings, b))
  IN p < q \/ (p = q /\ RankOf(rankings[p], a) < RankOf(rankings[q], b))

(* Where the keys of two chunks differ first, the greater comes first. *)
Greater(k, l) == \E i \in DOMAIN k : k[i] > l[i] /\ \A j \in 1 .. i - 1 : k[j] = l[j]

Key(rankings, c) ==
  <<BestScore(rankings, c), Cardinality(FoundBy(rankings, c)), Cardinality(Chunks) - BestRank(rankings, c)>>

Merge(rankings, topK) ==
  LET found == UNION {ChunksOf(rankings[q]) : q \in DOMAIN rankings}
      key == [c \in found |-> Key(rankings, c)]
      Before(a, b) == Greater(key[a], key[b]) \/ (key[a] = key[b] /\ SeenBefore(rankings, a, b))
      order == Sorted(found, {p \in found \X found : Before(p[1], p[2])})
  IN Top([i \in DOMAIN order |-> Match(order[i], BestScore(rankings, order[i]))], topK)

-----------------------------------------------------------------------------
(* rerank_candidates: the model may put any topK of them in any order. *)
Rerankings(ranking, topK) ==
  {s \in [1 .. Len(Top(ranking, topK)) -> ToSet(ranking)] : IsInjective(s)}

(* assemble_context_from_matches: a block is numbered and headed by a line
   that names its source; the last one may be cut to what is left. *)
Heading == 1   \* length of a heading, in sentences

\* What the blocks before the i-th leave, where each is taken whole.
RoomFor(matches, texts, budget, i) ==
  LET earlier == FlattenSeq([j \in 1 .. i - 1 |-> texts[matches[j].chunk]])
  IN budget - (i - 1) * Heading - Len(earlier)

AssembleContext(matches, texts, maxChunks, budget) ==
  LET top     == Top(matches, maxChunks)
      Room(i) == RoomFor(top, texts, budget, i)
      fits    == {i \in DOMAIN top : \A j \in 1 .. i : Room(j) > Heading /\ texts[top[j].chunk] # <<>>}
  IN [i \in 1 .. Cardinality(fits) |->
        [index |-> i, chunk |-> top[i].chunk, score |-> top[i].score,
         text |-> Top(texts[top[i].chunk], Room(i) - Heading)]]
=============================================================================
