------------------------------ MODULE Library ------------------------------
(***************************************************************************)
(* Documents under names of its own, so that one module may extend it      *)
(* together with another component: ContentProofs holds its theorems, and  *)
(* MCKnowledge gives the instance that TLC checks, next to Answers.        *)
(***************************************************************************)
EXTENDS Naturals

CONSTANTS
  Uploads,          \* Documents' Docs
  Handlers, Columns, Providers, Settings, MaxWords,
  LibraryNone       \* its None

VARIABLES
  documents, chunks, words, files, locked, handlers, spoiled,
  editions,         \* its versions
  draft             \* its scope

Ingestion == INSTANCE Documents WITH
  Docs <- Uploads, None <- LibraryNone, versions <- editions, scope <- draft

ASSUME LibraryAssumption == Ingestion!Admissible

\* The chunks of a version are one split of its text under one setting:
\* Documents' property of concurrent chunkings.
TextIsChunked == Ingestion!TextIsChunked
\* The file a committed row names is on disk: Documents' property of uploads
\* and extractions and what they clean up.
FilesBehindRows == Ingestion!FilesBehindRows
\* Dense retrieval finds all of a document or nothing: Documents' property of
\* embeddings that overlap, or fail part-way.
FoundWhole == Ingestion!FoundWhole
=============================================================================
