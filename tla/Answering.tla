----------------------------- MODULE Answering -----------------------------
(***************************************************************************)
(* Answers under names of its own, so that one module may extend it        *)
(* together with other components: ContentProofs holds its theorems, and   *)
(* MCAnswers and MCKnowledge give the instance that TLC checks.            *)
(***************************************************************************)
EXTENDS Naturals

CONSTANTS
  ConflictTypes, CasedTypes, DurationUnits, ScopeWords, Threshold,
  Chunks, ChunkIndex, RrfK, Scale, DocOf, Titles, Requests, Scores, MaxBlocks, Pool,
  Budget, MaxQueries, MaxAttempts, Window, MaxUsage, MaxChanges, Unscoped,
  Areas,            \* Answers' Scopes
  NoAnswer          \* its None

VARIABLES
  case, setup, live, changes, pc, allowed, queries, context, reason, attempt,
  usage, orphan, reply, citations, trace, buffer,
  area,             \* its scope
  rankings,         \* its found
  shown             \* its seen

Reply == INSTANCE Answers WITH
  Scopes <- Areas, None <- NoAnswer, scope <- area, found <- rankings, seen <- shown

ASSUME AnsweringAssumption == Reply!Admissible

\* An answer has evidence and a refusal its reason: Answers' property of the
\* verifiers and the constraints.
DecisionIsRight == Reply!DecisionIsRight
\* A chunk that every search prefers is not displaced: Answers' property of
\* fusions and merges.
RankingIsFair == Reply!RankingIsFair
\* What is stored of a request is what happened: Answers' property of the
\* reply, its citations, its cost and its trace.
ReplyIsTrue == Reply!ReplyIsTrue
=============================================================================
