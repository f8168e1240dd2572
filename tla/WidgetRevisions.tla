-------------------------- MODULE WidgetRevisions --------------------------
(***************************************************************************)
(* Editing, publishing and rolling back the configuration of one widget:   *)
(* access/widget_admin/service.py and the handlers of api/v1/widgets.py.   *)
(*                                                                         *)
(* Each admin request is one database transaction of several statements    *)
(* under READ COMMITTED, run by synchronous handlers in a thread pool, so  *)
(* requests interleave between statements.  What a request has read lives  *)
(* in its own session (autoflush is off and nothing is read again), and    *)
(* the only things the database enforces are row locks and the unique      *)
(* (widget, revision_number) pair.  A request is read together with the    *)
(* GET that showed its author the draft it acts on.                        *)
(*                                                                         *)
(* A configuration maps each field to the request that last wrote it, so   *)
(* two contents are equal only when the same edits made them.              *)
(***************************************************************************)
EXTENDS Naturals

CONSTANTS Requests,    \* admin requests, each served once
          Fields,      \* the fields of a configuration
          Initial,     \* the value of a field nobody has edited
          MaxRevision  \* bound: revision numbers considered

ASSUME InitialAssumption == Initial \notin Requests
ASSUME MaxRevisionAssumption == MaxRevision \in Nat /\ MaxRevision >= 1

VARIABLES rows,      \* widget_configuration_revisions, by revision_number
          active,    \* Widget.active_published_revision_id, 0 for NULL
          archived,  \* Widget.archived_at is set
          tx         \* what each request holds in its session

vars == <<rows, active, archived, tx>>

Numbers == 1..MaxRevision
NoNumber == 0
Contents == [Fields -> Requests \union {Initial}]
Blank == [f \in Fields |-> Initial]

RevisionRow == [status : {"absent", "draft", "published", "superseded"},
                version : Nat,
                content : Contents,
                hash : Contents,
                source : 0..MaxRevision]

Absent == [status |-> "absent", version |-> 0, content |-> Blank,
           hash |-> Blank, source |-> NoNumber]

Phases == {"idle", "loaded", "writing", "read", "checked", "numbered",
           "locked", "inserted", "done"}
Answers == {"none", "ok", "not_found", "conflict", "invalid", "error"}

RequestState ==
    [phase : Phases,
     op : {"none", "update", "publish", "rollback"},
     seen : 0..MaxRevision,        \* the draft its author loaded,
     seenVersion : Nat,  \* its version,
     seenContent : Contents,       \* its content,
     seenActive : 0..MaxRevision,  \* and the active revision shown with it
     row : 0..MaxRevision,         \* the row it read and will change or clone
     copy : Contents,              \* the content of that row when it was read
     version : Nat,      \* its version then
     draft : 0..MaxRevision,       \* the draft it will supersede
     number : 0..MaxRevision,      \* the number of its published clone
     answer : Answers]

Idle == [phase |-> "idle", op |-> "none", seen |-> NoNumber,
         seenVersion |-> 0, seenContent |-> Blank, seenActive |-> NoNumber,
         row |-> NoNumber, copy |-> Blank, version |-> 0,
         draft |-> NoNumber, number |-> NoNumber, answer |-> "none"]

TypeOK ==
    /\ rows \in [Numbers -> RevisionRow]
    /\ active \in 0..MaxRevision
    /\ archived \in BOOLEAN
    /\ tx \in [Requests -> RequestState]

-----------------------------------------------------------------------------

Existing == {n \in Numbers : rows[n].status # "absent"}
Drafts == {n \in Numbers : rows[n].status = "draft"}
Published == {n \in Numbers : rows[n].status = "published"}

\* get_current_draft: the draft with the highest number.
IsCurrentDraft(n) == n \in Drafts /\ \A m \in Drafts : m <= n

IsNextNumberOffByOne(n) ==
    /\ \A m \in Existing : m < n
    /\ \E k \in Existing : k + 2 = n

\* _next_revision_number: one more than the highest committed number.
IsNextNumber(n) ==
    /\ \A m \in Existing : m < n
    /\ \E k \in Existing : k + 1 = n

\* A transaction that has inserted a row keeps its number from the others,
\* and one that has updated a draft keeps the row, until it ends.
HoldsNumber(r, n) == tx[r].phase = "inserted" /\ tx[r].number = n
NumberNeverHeld(r, n) == FALSE
NumberHeld(r, n) == \E q \in Requests \ {r} : HoldsNumber(q, n)
HoldsRow(r, n) ==
    /\ tx[r].op = "rollback"
    /\ tx[r].phase \in {"locked", "inserted"}
    /\ tx[r].draft = n
RowHeld(r, n) == \E q \in Requests \ {r} : HoldsRow(q, n)

\* uq_widget_configuration_revisions_widget_number.
NumberTaken(n) == n \in Existing

Goto(r, phase) == tx' = [tx EXCEPT ![r] = [@ EXCEPT !.phase = phase]]
Answer(r, answer) ==
    tx' = [tx EXCEPT ![r] = [@ EXCEPT !.phase = "done", !.answer = answer]]
Refuse(r, answer) == Answer(r, answer) /\ UNCHANGED <<rows, active, archived>>

-----------------------------------------------------------------------------

\* create_widget leaves draft revision 1.
Init ==
    /\ rows = [n \in Numbers |->
                 IF n = 1 THEN [Absent EXCEPT !.status = "draft", !.version = 1]
                          ELSE Absent]
    /\ active = NoNumber
    /\ archived = FALSE
    /\ tx = [r \in Requests |-> Idle]

\* GET the widget and its draft: what the author of the request acts on.
Load(r) ==
    /\ tx[r].phase = "idle"
    /\ ~archived
    /\ \E d \in Drafts :
         /\ IsCurrentDraft(d)
         /\ tx' = [tx EXCEPT ![r] = [@ EXCEPT !.phase = "loaded", !.seen = d,
                             !.seenVersion = rows[d].version,
                             !.seenContent = rows[d].content,
                             !.seenActive = active]]
    /\ UNCHANGED <<rows, active, archived>>

\* _load_widget_or_404, for every operation.
FindNothing(r) ==
    /\ tx[r].phase = "loaded"
    /\ archived
    /\ Refuse(r, "not_found")

Archive ==
    /\ ~archived
    /\ archived' = TRUE
    /\ UNCHANGED <<rows, active, tx>>

\* update_draft: the current draft is read and its version compared with the
\* one the author sends.
VersionMatches(r, n) == rows[n].version = tx[r].seenVersion

ReadForUpdate(r) ==
    /\ tx[r].phase = "loaded"
    /\ ~archived
    /\ \E d \in Drafts :
         /\ IsCurrentDraft(d)
         /\ IF VersionMatches(r, d)
            THEN tx' = [tx EXCEPT ![r] = [@ EXCEPT !.phase = "writing", !.op = "update",
                                  !.row = d, !.copy = rows[d].content,
                                  !.version = rows[d].version]]
            ELSE tx' = [tx EXCEPT ![r] = [@ EXCEPT !.phase = "done", !.op = "update",
                                  !.answer = "conflict"]]
    /\ UNCHANGED <<rows, active, archived>>

\* The UPDATE names the row by its id and writes the columns that changed,
\* with the version and the hash computed from what was read.
EditRow(row, copy, version, f, value) ==
    [row EXCEPT !.content = [@ EXCEPT ![f] = value],
                !.version = version + 1, !.hash = [copy EXCEPT ![f] = value]]

WriteUpdate(r, f) ==
    /\ tx[r].phase = "writing"
    /\ ~RowHeld(r, tx[r].row)
    /\ rows' = [rows EXCEPT ![tx[r].row] =
                  EditRow(@, tx[r].copy, tx[r].version, f, r)]
    /\ Answer(r, "ok")
    /\ UNCHANGED <<active, archived>>

\* validate_configuration_payload and _validate_publishability (the key, the
\* operational status, the origins, the documents) are outside this module:
\* they pass or they do not.
Invalid(r) ==
    /\ <<tx[r].op, tx[r].phase>> \in
         {<<"update", "writing">>, <<"publish", "checked">>, <<"rollback", "read">>}
    /\ Refuse(r, "invalid")

-----------------------------------------------------------------------------

\* publish_widget: the draft the author names is read,
ReadForPublish(r) ==
    /\ tx[r].phase = "loaded"
    /\ ~archived
    /\ LET d == tx[r].seen
       IN  IF rows[d].status = "draft"
           THEN tx' = [tx EXCEPT ![r] = [@ EXCEPT !.phase = "read", !.op = "publish",
                                 !.row = d, !.copy = rows[d].content,
                                 !.version = rows[d].version, !.draft = d]]
           ELSE tx' = [tx EXCEPT ![r] = [@ EXCEPT !.phase = "done", !.op = "publish",
                                 !.answer = "conflict"]]
    /\ UNCHANGED <<rows, active, archived>>

\* then the current draft, and its version as read before is compared.
CheckDraft(r) ==
    /\ tx[r].op = "publish"
    /\ tx[r].phase = "read"
    /\ IF IsCurrentDraft(tx[r].row) /\ tx[r].version = tx[r].seenVersion
       THEN Goto(r, "checked")
       ELSE Answer(r, "conflict")
    /\ UNCHANGED <<rows, active, archived>>

\* rollback_widget compares the active revision and reads the target,
ActiveAsSeen(r) == active = tx[r].seenActive /\ active # NoNumber

ReadForRollback(r, target) ==
    /\ tx[r].phase = "loaded"
    /\ ~archived
    /\ target \in Existing
    /\ IF ActiveAsSeen(r) /\ rows[target].status = "published"
       THEN tx' = [tx EXCEPT ![r] = [@ EXCEPT !.phase = "read", !.op = "rollback",
                             !.row = target, !.copy = rows[target].content]]
       ELSE tx' = [tx EXCEPT ![r] = [@ EXCEPT !.phase = "done", !.op = "rollback",
                             !.answer = IF ActiveAsSeen(r)
                                           THEN "invalid" ELSE "conflict"]]
    /\ UNCHANGED <<rows, active, archived>>

\* then the current draft, which it will supersede whatever its version.
ReadCurrentDraft(r) ==
    /\ tx[r].op = "rollback"
    /\ tx[r].phase = "read"
    /\ \E d \in Drafts :
         /\ IsCurrentDraft(d)
         /\ tx' = [tx EXCEPT ![r] = [@ EXCEPT !.phase = "checked", !.draft = d]]
    /\ UNCHANGED <<rows, active, archived>>

-----------------------------------------------------------------------------

\* _clone_revision reads the next number,
ReadNumber(r) ==
    /\ tx[r].phase = "checked"
    /\ \E n \in Numbers :
         /\ IsNextNumber(n)
         /\ n < MaxRevision
         /\ tx' = [tx EXCEPT ![r] = [@ EXCEPT !.phase = "numbered", !.number = n]]
    /\ UNCHANGED <<rows, active, archived>>

\* a rollback's flush updates the superseded draft before it inserts,
LockDraft(r) ==
    /\ tx[r].op = "rollback"
    /\ tx[r].phase = "numbered"
    /\ ~RowHeld(r, tx[r].draft)
    /\ Goto(r, "locked")
    /\ UNCHANGED <<rows, active, archived>>

\* and the insert waits for whoever holds the number and fails if it is taken.
InsertPublished(r) ==
    /\ \/ tx[r].op = "publish" /\ tx[r].phase = "numbered"
       \/ tx[r].op = "rollback" /\ tx[r].phase = "locked"
    /\ ~NumberHeld(r, tx[r].number)
    /\ IF NumberTaken(tx[r].number) THEN Answer(r, "error")
                                    ELSE Goto(r, "inserted")
    /\ UNCHANGED <<rows, active, archived>>

\* _clone_revision: the content read earlier is copied and hashed again.
CloneKeepingHash(r, status, source) ==
    [status |-> status, version |-> 1, content |-> tx[r].copy,
     hash |-> rows[tx[r].row].hash, source |-> source]

Clone(r, status, source) ==
    [status |-> status, version |-> 1, content |-> tx[r].copy,
     hash |-> tx[r].copy, source |-> source]

\* The second flush and the commit: the pointer moves, the draft is
\* superseded, and a new draft is cloned from the published revision.
FreshDraft(r) == Clone(r, "draft", tx[r].number)

AfterPublication(r) ==
    [n \in Numbers |->
       CASE n = tx[r].number     -> Clone(r, "published", tx[r].row)
         [] n = tx[r].number + 1 -> FreshDraft(r)
         [] n = tx[r].draft      -> [rows[n] EXCEPT !.status = "superseded"]
         [] OTHER                -> rows[n]]

PointTo(r) == tx[r].number

Publish(r) ==
    /\ tx[r].phase = "inserted"
    /\ ~RowHeld(r, tx[r].draft)
    /\ rows' = AfterPublication(r)
    /\ active' = PointTo(r)
    /\ Answer(r, "ok")
    /\ UNCHANGED archived

-----------------------------------------------------------------------------

\* A rollback that holds the draft and waits for the number of a publication
\* that waits for the draft: PostgreSQL aborts one of them.
Deadlocked(q, r) ==
    /\ tx[q].op = "publish"
    /\ tx[r].phase = "locked"
    /\ HoldsNumber(q, tx[r].number)
    /\ HoldsRow(r, tx[q].draft)

DeadlockUnnoticed(r) == FALSE
DeadlockVictim(r) ==
    /\ \E q \in Requests \ {r} : Deadlocked(q, r) \/ Deadlocked(r, q)
    /\ Refuse(r, "error")

\* A request that dies leaves nothing: its transaction is rolled back.
Crash(r) ==
    /\ tx[r].phase \notin {"idle", "loaded", "done"}
    /\ Refuse(r, "error")

Step(r) ==
    \/ \E f \in Fields : WriteUpdate(r, f)
    \/ Invalid(r)
    \/ CheckDraft(r)
    \/ ReadCurrentDraft(r)
    \/ ReadNumber(r)
    \/ LockDraft(r)
    \/ InsertPublished(r)
    \/ Publish(r)
    \/ DeadlockVictim(r)

Start(r) ==
    \/ FindNothing(r)
    \/ ReadForUpdate(r)
    \/ ReadForPublish(r)
    \/ \E target \in Numbers : ReadForRollback(r, target)

\* Nothing is left to serve.
Finished ==
    /\ \A r \in Requests : tx[r].phase \in {"idle", "done"}
    /\ archived
    /\ UNCHANGED vars

Next ==
    \/ Archive
    \/ Finished
    \/ \E r \in Requests : Load(r) \/ Start(r) \/ Step(r) \/ Crash(r)

Spec == Init /\ [][Next]_vars

\* A started request goes on while the database lets it; Postgres breaks
\* deadlocks within deadlock_timeout.
FairSpec == Spec /\ \A r \in Requests : WF_vars(Step(r))

-----------------------------------------------------------------------------
(***************************************************************************)
(* Safety.                                                                 *)
(***************************************************************************)

\* Whatever publications, rollbacks and edits overlap, the revision with the
\* highest number is a draft: there is always a current draft, and what was
\* published last never shadows it (get_current_draft never finds nothing).
NewestIsDraft ==
    \E d \in Drafts : \A n \in Existing : n <= d

\* Revision numbers have no gap: an aborted publication gives its number back
\* and two that read the same next number never both keep it.
NumbersContiguous ==
    \E top \in Numbers : Existing = 1..top

\* The revisions are numbered 1, 2, 3, ... and the last of them is the draft
\* the next edit finds, whatever publications and rollbacks race or abort.
DraftsWhole == NewestIsDraft /\ NumbersContiguous

\* The hash stored with a published revision is the hash of what it holds,
\* although overlapping edits leave drafts whose hash is not.
PublishedHashMatches ==
    \A n \in Published : rows[n].hash = rows[n].content

\* The publications are an append-only history of immutable configurations,
\* served from the newest, pointer and revision moving in one step.
PublishedEntries ==
    {[number |-> n, content |-> rows[n].content] : n \in Published}

History == INSTANCE PublicationHistory WITH
    published <- PublishedEntries, current <- active

ImplementsHistory == History!Spec

\* Every request the database has started on is answered: waiting for a
\* revision number or a draft row ends, deadlocks included.
Responds ==
    \A r \in Requests :
      tx[r].phase \notin {"idle", "loaded"} ~> tx[r].phase = "done"

-----------------------------------------------------------------------------
(***************************************************************************)
(* Why the safety properties hold: an inductive strengthening.             *)
(***************************************************************************)

\* The active revision is the newest of the published ones.
ActiveIsNewest ==
    \/ active = NoNumber /\ Published = {}
    \/ active \in Published /\ \A n \in Published : n <= active

\* The unique number makes publications and rollbacks exclude each other.
OneInserter ==
    \A q, r \in Requests :
      (tx[q].phase = "inserted" /\ tx[r].phase = "inserted") => q = r

\* Rows that exist and are not published: the ones a request may change.
Editable == Existing \ Published

Working == {"writing", "read", "checked", "numbered", "locked", "inserted"}

\* A request changes only rows that are not published, and the number it
\* holds is the next one.
WorksOnDrafts(r) ==
    /\ tx[r].op \in {"update", "publish"} => tx[r].row \in Editable
    /\ tx[r].op = "publish" => tx[r].draft = tx[r].row
    /\ (tx[r].op = "rollback" /\ tx[r].phase # "read") => tx[r].draft \in Editable

HoldsNext(r) ==
    /\ tx[r].phase \in {"numbered", "locked"} =>
         tx[r].number < MaxRevision /\ tx[r].number - 1 \in Existing
    /\ tx[r].phase = "inserted" =>
         tx[r].number < MaxRevision /\ IsNextNumber(tx[r].number)

OpFits(r) ==
    /\ tx[r].phase = "writing" => tx[r].op = "update"
    /\ tx[r].phase \in {"read", "checked", "numbered", "locked", "inserted"} =>
         tx[r].op \in {"publish", "rollback"}
    /\ tx[r].phase = "loaded" => tx[r].seen \in Existing

RequestHolds(r) ==
    /\ tx[r].phase \in Working => WorksOnDrafts(r)
    /\ HoldsNext(r)
    /\ OpFits(r)

IInv ==
    /\ TypeOK
    /\ NumbersContiguous
    /\ NewestIsDraft
    /\ PublishedHashMatches
    /\ ActiveIsNewest
    /\ OneInserter
    /\ \A r \in Requests : RequestHolds(r)

=============================================================================
