------------------------------ MODULE Documents ------------------------------
(***************************************************************************)
(* A workspace's documents: upload, extraction, chunking, embedding, the   *)
(* two lifecycles, the assignment to an assistant's draft, and what        *)
(* retrieval finds.  Each operation is an HTTP request of an administrator *)
(* and runs in a handler of its own; handlers interleave at their          *)
(* database statements and may die at any of them, which rolls back what   *)
(* they had not committed and leaves the files they wrote.                 *)
(*                                                                         *)
(* Every statement is the transaction's own view under READ COMMITTED: a   *)
(* status is read without a lock and later written without being compared. *)
(* Only an UPDATE under way locks its row: the extraction flushes          *)
(* "processing" to the version's row and holds it until it commits.  And   *)
(* an UPDATE names only the columns whose new value differs from the one   *)
(* the session loaded (Written).                                           *)
(*                                                                         *)
(* The API gives a document one version, with the upload; a document       *)
(* created without an upload has none.                                     *)
(***************************************************************************)
EXTENDS Integers, Sequences, FiniteSets

CONSTANTS
  Docs, Handlers,
  Columns,    \* the columns of a chunk that say what embedded it: provider, model
  Providers,  \* what a process may be configured to embed with, column by column
  Settings,   \* chunk size and overlap, in words, that a process is configured with
  MaxWords,   \* bound: words of a document's text
  None

VARIABLES
  documents,  \* documents: the status, and whether the upload's version is active
  versions,   \* document_versions: the processing status, and whether a text path is set
  chunks,     \* chunks of the version: the words each holds and what embedded it
  words,      \* number of words of the text the document's file holds
  files,      \* files in LOCAL_UPLOAD_ROOT
  scope,      \* knowledge_scope_json of the assistant's draft
  locked,     \* the handler whose UPDATE of the version's row is not committed
  handlers,   \* the requests being served
  spoiled     \* history: documents left embedded in part, see CommitEmbedding

vars == <<documents, versions, chunks, words, files, scope, locked, handlers, spoiled>>

DocumentStatuses == {"uploaded", "processing", "ready", "failed", "archived", "expired", "deleted"}
VersionStatuses  == {"pending", "queued", "extracting", "chunking", "embedding", "ready",
                     "superseded", "failed", "withdrawn", "uploaded", "processing"}
File    == [kind : {"original", "extracted"}, doc : Docs]
Names    == {p[c] : p \in Providers, c \in Columns}
Embedder == [Columns -> Names \cup {None}]
Chunk    == [from : 1 .. MaxWords, to : 1 .. MaxWords, by : Embedder]
Request == [op : {"upload", "extract", "chunk", "embed", "document", "version"},
            at : {"file", "assign", "draft", "read", "flushed", "work"}, doc : Docs,
            target : DocumentStatuses \cup VersionStatuses \cup {None},
            read : SUBSET Docs,
            by : Providers \cup {None}, seen : Seq(Embedder)]   \* an embedding's own, and what it loaded

\* Assumed by Library, which instantiates this module; the chunker refuses a size
\* that is not positive and an overlap that is not smaller.
Admissible ==
  /\ Settings \subseteq {s \in [size : Nat, overlap : Nat] : s.overlap < s.size}
  /\ MaxWords \in Nat
  /\ Providers \subseteq [Columns -> Names]
  /\ None \notin Request /\ None \notin Handlers
  /\ \A ds \in SUBSET Docs : ds # None

TypeOK ==
  /\ documents \in [Docs -> [status : DocumentStatuses \cup {"absent"}, active : BOOLEAN]]
  /\ versions \in [Docs -> [status : VersionStatuses \cup {"absent"}, text : BOOLEAN]]
  /\ chunks \in [Docs -> Seq(Chunk)]
  /\ words \in [Docs -> 0 .. MaxWords]
  /\ files \subseteq File
  /\ scope \subseteq Docs
  /\ locked \in [Docs -> Handlers \cup {None}]
  /\ handlers \in [Handlers -> Request \cup {None}]
  /\ spoiled \subseteq Docs

-----------------------------------------------------------------------------
(* Splitting a text of n words into windows.                               *)

Lesser(a, b) == IF a < b THEN a ELSE b

\* A window opens every size - overlap words, until one reaches the end.
Starts(n, s) ==
  {k * (s.size - s.overlap) : k \in 0 .. n} \cap
  {start \in 0 .. n - 1 : start = 0 \/ start + s.overlap < n}

Unembedded == [c \in Columns |-> None]

SplitText(n, s) ==
  [i \in 1 .. Cardinality(Starts(n, s)) |->
     LET start == (i - 1) * (s.size - s.overlap)
     IN  [from |-> start + 1, to |-> Lesser(start + s.size, n), by |-> Unembedded]]

-----------------------------------------------------------------------------
(* Requests.                                                               *)

Original(d)  == [kind |-> "original", doc |-> d]
Extracted(d) == [kind |-> "extracted", doc |-> d]

Ask(op, at, d, target) ==
  [op |-> op, at |-> at, doc |-> d, target |-> target, read |-> {}, by |-> None, seen |-> <<>>]
Idle(h)      == handlers[h] = None
At(h, op, at) == ~Idle(h) /\ handlers[h].op = op /\ handlers[h].at = at

Start(h, request) == handlers' = [handlers EXCEPT ![h] = request]
Done(h)           == handlers' = [handlers EXCEPT ![h] = None]
Goes(h, at)       == handlers' = [handlers EXCEPT ![h].at = at]

Unclaimed(d) ==
  /\ documents[d].status = "absent"
  /\ \A h \in Handlers : At(h, "upload", "file") => handlers[h].doc # d

\* An UPDATE waits for the row's lock.
Free(h, d) == locked[d] \in {None, h}

-----------------------------------------------------------------------------
(* Creating and uploading.                                                 *)

CreateDocument(d) ==
  /\ Unclaimed(d)
  /\ documents' = [documents EXCEPT ![d] = [status |-> "uploaded", active |-> FALSE]]
  /\ UNCHANGED <<versions, chunks, words, files, scope, locked, handlers, spoiled>>

\* save_upload: the file is written before any row, under a name of its own.
SaveUpload(h, d) ==
  /\ Idle(h) /\ Unclaimed(d)
  /\ Original(d) \notin files
  /\ \E n \in 0 .. MaxWords : words' = [words EXCEPT ![d] = n]
  /\ files' = files \cup {Original(d)}
  /\ Start(h, Ask("upload", "file", d, None))
  /\ UNCHANGED <<documents, versions, chunks, scope, locked, spoiled>>

CommitUpload(h) ==
  LET d == handlers[h].doc IN
  /\ At(h, "upload", "file")
  /\ documents' = [documents EXCEPT ![d] = [status |-> "uploaded", active |-> TRUE]]
  /\ versions' = [versions EXCEPT ![d] = [status |-> "uploaded", text |-> FALSE]]
  /\ Done(h) \/ Goes(h, "assign")
  /\ UNCHANGED <<chunks, words, files, scope, locked, spoiled>>

\* The source identity is taken: the rows are rolled back, the file is removed.
RefuseUpload(h) ==
  LET d == handlers[h].doc IN
  /\ At(h, "upload", "file")
  /\ files' = files \ {Original(d)}
  /\ Done(h)
  /\ UNCHANGED <<documents, versions, chunks, words, scope, locked, spoiled>>

ReadDraftRemovingTheFile(h) ==
  /\ At(h, "upload", "assign")
  /\ files' = files \ {Original(handlers[h].doc)}
  /\ Done(h)
  /\ UNCHANGED <<documents, versions, chunks, words, scope, locked, spoiled>>

ReadDraft(h) ==
  /\ At(h, "upload", "assign")
  /\ handlers' = [handlers EXCEPT ![h].at = "draft", ![h].read = scope]
  /\ UNCHANGED <<documents, versions, chunks, words, files, scope, locked, spoiled>>

\* The version number compared is of the row the session has already loaded,
\* so that the comparison never fails here.
AssignDocument(h) ==
  /\ At(h, "upload", "draft")
  /\ scope' = handlers[h].read \cup {handlers[h].doc}
  /\ Done(h)
  /\ UNCHANGED <<documents, versions, chunks, words, files, locked, spoiled>>

-----------------------------------------------------------------------------
(* Extraction.                                                             *)

Extractable(d) == versions[d].status = "uploaded"

AskExtraction(h, d) ==
  /\ Idle(h) /\ Extractable(d)
  /\ Start(h, Ask("extract", "read", d, None))
  /\ UNCHANGED <<documents, versions, chunks, words, files, scope, locked, spoiled>>

FlushProcessing(h) ==
  LET d == handlers[h].doc IN
  /\ At(h, "extract", "read")
  /\ Free(h, d)
  /\ locked' = [locked EXCEPT ![d] = h]
  /\ Goes(h, "flushed")
  /\ UNCHANGED <<documents, versions, chunks, words, files, scope, spoiled>>

\* The parsers read a file below the storage root.
Readable(d) == Original(d) \in files

\* The text is saved under a name that both extractions of a version would use.
SaveText(h) ==
  LET d == handlers[h].doc IN
  /\ At(h, "extract", "flushed")
  /\ Readable(d)
  /\ files' = files \cup {Extracted(d)}
  /\ Goes(h, "work")
  /\ UNCHANGED <<documents, versions, chunks, words, scope, locked, spoiled>>

CommitExtraction(h) ==
  LET d == handlers[h].doc IN
  /\ At(h, "extract", "work")
  /\ versions' = [versions EXCEPT ![d] = [status |-> "ready", text |-> TRUE]]
  /\ locked' = [locked EXCEPT ![d] = None]
  /\ Done(h)
  /\ UNCHANGED <<documents, chunks, words, files, scope, spoiled>>

FailExtraction(h) ==
  LET d == handlers[h].doc IN
  /\ At(h, "extract", "flushed")
  /\ versions' = [versions EXCEPT ![d].status = "failed"]
  /\ locked' = [locked EXCEPT ![d] = None]
  /\ Done(h)
  /\ UNCHANGED <<documents, chunks, words, files, scope, spoiled>>

-----------------------------------------------------------------------------
(* Chunking.  A version without a text path, or whose text cannot be read, *)
(* is only audited.                                                        *)

Chunkable(d) ==
  /\ versions[d].status = "ready"
  /\ versions[d].text /\ Extracted(d) \in files
  /\ chunks[d] = <<>>

AskChunking(h, d) ==
  /\ Idle(h) /\ Chunkable(d)
  /\ Start(h, Ask("chunk", "read", d, None))
  /\ UNCHANGED <<documents, versions, chunks, words, files, scope, locked, spoiled>>

\* (document_version_id, chunk_index) is unique: index 0 can be taken once.
InsertableUnindexed(d, rows) == TRUE
Insertable(d, rows) == rows = <<>> \/ chunks[d] = <<>>

CommitChunks(h) ==
  LET d == handlers[h].doc IN
  /\ At(h, "chunk", "read")
  /\ Free(h, d)
  /\ \E s \in Settings :
       LET rows == SplitText(words[d], s) IN
       chunks' = IF Insertable(d, rows)
                 THEN [chunks EXCEPT ![d] = @ \o rows]
                 ELSE chunks
  /\ Done(h)
  /\ UNCHANGED <<documents, versions, words, files, scope, locked, spoiled>>

-----------------------------------------------------------------------------
(* Embedding.  The provider is called for one chunk after the other and    *)
(* may fail at any; the rows already changed in the session are committed  *)
(* with the failure's audit event.                                         *)

Embeddable(d) == versions[d].status = "ready" /\ chunks[d] # <<>>

Embedders(d) == [i \in DOMAIN chunks[d] |-> chunks[d][i].by]

AskEmbedding(h, d, p) ==
  /\ Idle(h) /\ Embeddable(d)
  /\ Start(h, [Ask("embed", "work", d, None) EXCEPT !.by = p, !.seen = Embedders(d)])
  /\ UNCHANGED <<documents, versions, chunks, words, files, scope, locked, spoiled>>

\* The columns after a commit that sets new on a row loaded with seen.
Written(new, seen, now) == [c \in Columns |-> IF new[c] = seen[c] THEN now[c] ELSE new[c]]

EmbedFirst(h, k) ==
  LET w    == handlers[h]
      rows == chunks[w.doc]
  IN  chunks' = [chunks EXCEPT ![w.doc] =
        [i \in DOMAIN rows |->
           IF i <= k THEN [rows[i] EXCEPT !.by = Written(w.by, w.seen[i], rows[i].by)] ELSE rows[i]]]

Whole(embedders) == \A i, j \in DOMAIN embedders : embedders[i] = embedders[j]

CommitEmbeddingOfTheRest(h) ==
  LET d == handlers[h].doc IN
  /\ At(h, "embed", "work")
  /\ chunks' = [chunks EXCEPT ![d] =
       [i \in DOMAIN @ |-> IF @[i].by = Unembedded THEN [@[i] EXCEPT !.by = handlers[h].by] ELSE @[i]]]
  /\ spoiled' = spoiled \ {d}
  /\ Done(h)
  /\ UNCHANGED <<documents, versions, words, files, scope, locked>>

\* An embedding whose chunks nobody else changed meanwhile leaves the document whole.
\* One that loaded a document in parts may leave it in parts, if another has changed
\* it since: it does not write the parts that were its own.
CommitEmbedding(h) ==
  LET d == handlers[h].doc
      seen == handlers[h].seen
  IN
  /\ At(h, "embed", "work")
  /\ EmbedFirst(h, Len(chunks[d]))
  /\ spoiled' = IF seen = Embedders(d) THEN spoiled \ {d}
                ELSE spoiled \cup {x \in {d} : ~Whole(seen)}
  /\ Done(h)
  /\ UNCHANGED <<documents, versions, words, files, scope, locked>>

FailEmbedding(h) ==
  LET d == handlers[h].doc IN
  /\ At(h, "embed", "work")
  /\ \E k \in 0 .. Len(chunks[d]) - 1 :
       /\ EmbedFirst(h, k)
       /\ spoiled' = IF k = 0 THEN spoiled ELSE spoiled \cup {d}
  /\ Done(h)
  /\ UNCHANGED <<documents, versions, words, files, scope, locked>>

-----------------------------------------------------------------------------
(* The two lifecycles.                                                     *)

DocumentTransitions ==
  [s \in DocumentStatuses |->
     CASE s = "uploaded"   -> {"processing"}
       [] s = "processing" -> {"ready", "failed"}
       [] s = "ready"      -> {"archived", "expired"}
       [] OTHER            -> {}]

VersionTransitions ==
  [s \in VersionStatuses |->
     CASE s = "pending"    -> {"queued"}
       [] s = "queued"     -> {"extracting"}
       [] s = "extracting" -> {"chunking", "failed"}
       [] s = "chunking"   -> {"embedding", "failed"}
       [] s = "embedding"  -> {"ready", "failed"}
       [] s = "ready"      -> {"superseded"}
       [] OTHER            -> {}]

AskDocumentTransition(h, d, new) ==
  /\ Idle(h)
  /\ documents[d].status # "absent"
  /\ new \in DocumentTransitions[documents[d].status]
  /\ Start(h, Ask("document", "read", d, new))
  /\ UNCHANGED <<documents, versions, chunks, words, files, scope, locked, spoiled>>

CommitDocumentTransition(h) ==
  /\ At(h, "document", "read")
  /\ documents' = [documents EXCEPT ![handlers[h].doc].status = handlers[h].target]
  /\ Done(h)
  /\ UNCHANGED <<versions, chunks, words, files, scope, locked, spoiled>>

AskVersionTransition(h, d, new) ==
  /\ Idle(h)
  /\ versions[d].status # "absent"
  /\ new \in VersionTransitions[versions[d].status]
  /\ Start(h, Ask("version", "read", d, new))
  /\ UNCHANGED <<documents, versions, chunks, words, files, scope, locked, spoiled>>

CommitVersionTransition(h) ==
  LET d == handlers[h].doc IN
  /\ At(h, "version", "read")
  /\ Free(h, d)
  /\ versions' = [versions EXCEPT ![d].status = handlers[h].target]
  /\ Done(h)
  /\ UNCHANGED <<documents, chunks, words, files, scope, locked, spoiled>>

-----------------------------------------------------------------------------
\* The handler's process dies, or the handler fails before it commits.
Die(h) ==
  /\ ~Idle(h)
  /\ Done(h)
  /\ locked' = [d \in Docs |-> IF locked[d] = h THEN None ELSE locked[d]]
  /\ UNCHANGED <<documents, versions, chunks, words, files, scope, spoiled>>

Init ==
  /\ documents = [d \in Docs |-> [status |-> "absent", active |-> FALSE]]
  /\ versions = [d \in Docs |-> [status |-> "absent", text |-> FALSE]]
  /\ chunks = [d \in Docs |-> <<>>]
  /\ words = [d \in Docs |-> 0]
  /\ files = {} /\ scope = {} /\ spoiled = {}
  /\ locked = [d \in Docs |-> None]
  /\ handlers = [h \in Handlers |-> None]

Proceeds(h) ==
  \/ CommitUpload(h) \/ RefuseUpload(h) \/ ReadDraft(h) \/ AssignDocument(h)
  \/ FlushProcessing(h) \/ SaveText(h) \/ CommitExtraction(h) \/ FailExtraction(h)
  \/ CommitChunks(h) \/ CommitEmbedding(h) \/ FailEmbedding(h)
  \/ CommitDocumentTransition(h) \/ CommitVersionTransition(h)

Arrives(h, d) ==
  \/ SaveUpload(h, d) \/ AskExtraction(h, d) \/ AskChunking(h, d)
  \/ \E p \in Providers : AskEmbedding(h, d, p)
  \/ \E new \in DocumentStatuses : AskDocumentTransition(h, d, new)
  \/ \E new \in VersionStatuses : AskVersionTransition(h, d, new)

Next ==
  \/ \E d \in Docs : CreateDocument(d)
  \/ \E h \in Handlers : Proceeds(h) \/ Die(h)
  \/ \E h \in Handlers, d \in Docs : Arrives(h, d)

Spec == Init /\ [][Next]_vars

-----------------------------------------------------------------------------
(* What retrieval finds, given an assistant's scope, or None for none.     *)

Live(d) ==
  /\ documents[d].status = "ready" /\ documents[d].active
  /\ versions[d].status = "ready"

InScope(d, ids) == ids = None \/ d \in ids

LexicalMatches(ids) ==
  {m \in Docs \X (1 .. MaxWords) :
     Live(m[1]) /\ InScope(m[1], ids) /\ m[2] \in DOMAIN chunks[m[1]]}

DenseMatches(p, ids) ==
  {m \in LexicalMatches(ids) : chunks[m[1]][m[2]].by = p}

-----------------------------------------------------------------------------
(* Properties.                                                             *)

\* The chunks of a version are one split of its text, from the first word to
\* the last, with the overlap of one setting, whatever number of chunkings ran
\* at once and under whatever settings.
TextIsChunked ==
  \A d \in Docs : chunks[d] # <<>> =>
    LET last == Len(chunks[d]) IN
    /\ chunks[d][1].from = 1
    /\ chunks[d][last].to = words[d]
    /\ \E s \in Settings :
         \A i \in 1 .. last - 1 :
           /\ chunks[d][i].to - chunks[d][i].from + 1 = s.size
           /\ chunks[d][i].to - chunks[d][i + 1].from + 1 = s.overlap
           /\ chunks[d][i].to < chunks[d][i + 1].to

\* The file a committed row names is on disk, whatever failed and was cleaned up.
FilesBehindRows ==
  \A d \in Docs :
    /\ versions[d].status # "absent" => Original(d) \in files
    /\ versions[d].text => Extracted(d) \in files

\* Dense retrieval finds all of a document or nothing of it under any provider,
\* whichever embeddings overlap, unless one failed after it had embedded a chunk.
\* An embedding that succeeds makes the document whole again if nobody else
\* embedded it meanwhile; one that had loaded the parts and commits after another
\* may undo that (embeddings.py:232).
FoundWhole ==
  \A d \in Docs \ spoiled, p \in Providers :
    LET found == DenseMatches(p, {d}) IN found = {} \/ found = LexicalMatches({d})
=============================================================================
