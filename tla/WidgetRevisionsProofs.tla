----------------------- MODULE WidgetRevisionsProofs -----------------------
(***************************************************************************)
(* Proofs about WidgetRevisions, for any set of requests and fields and    *)
(* any bound on the revision numbers.  A step either leaves the rows alone *)
(* and moves one request (QuietStep), or is InsertPublished, WriteUpdate   *)
(* or Publish, which have a lemma each.                                    *)
(***************************************************************************)
EXTENDS WidgetRevisions, TLAPS

-----------------------------------------------------------------------------
(* What the definitions say, so that they need not be expanded again.      *)

\* A row exists when it has a status, and is editable when it is a draft or
\* superseded.
LEMMA RowKinds ==
    ASSUME TypeOK
    PROVE  /\ Existing \subseteq Numbers
           /\ Editable = {n \in Numbers : rows[n].status \in {"draft", "superseded"}}
           /\ Drafts \subseteq Editable
           /\ Published \subseteq Existing
  BY DEF TypeOK, Existing, Editable, Drafts, Published, RevisionRow

\* The types of what a request copies.
LEMMA Types ==
    ASSUME TypeOK
    PROVE  /\ \A r \in Requests : tx[r] \in RequestState
           /\ \A n \in Numbers :
                /\ rows[n] \in RevisionRow
                /\ rows[n].version \in Nat
                /\ rows[n].content \in Contents
                /\ n \in 0..MaxRevision
           /\ active \in 0..MaxRevision
           /\ Working \subseteq Phases /\ "done" \in Phases /\ "loaded" \in Phases
           /\ "ok" \in Answers /\ "conflict" \in Answers /\ "invalid" \in Answers
           /\ "error" \in Answers /\ "not_found" \in Answers
  BY DEF TypeOK, RevisionRow, Numbers, Phases, Answers, Working

\* The rows being untouched, so is everything defined from them.
LEMMA SameRows ==
    ASSUME rows' = rows
    PROVE  /\ Existing' = Existing /\ Drafts' = Drafts
           /\ Published' = Published /\ Editable' = Editable
           /\ \A n : IsNextNumber(n)' <=> IsNextNumber(n)
           /\ NumbersContiguous' <=> NumbersContiguous
           /\ NewestIsDraft' <=> NewestIsDraft
           /\ PublishedHashMatches' <=> PublishedHashMatches
  BY DEF Existing, Drafts, Published, Editable, IsNextNumber, NumbersContiguous,
         NewestIsDraft, PublishedHashMatches

\* Only one number is the next one, and it is beyond every row.
LEMMA NextIsUnique ==
    ASSUME TypeOK, NEW m \in Nat, NEW n \in Nat, IsNextNumber(m), IsNextNumber(n)
    PROVE  m = n
  <1>1. Existing \subseteq Nat
    BY RowKinds DEF Numbers
  <1>2. PICK j \in Existing : j + 1 = m
    BY DEF IsNextNumber
  <1>3. PICK k \in Existing : k + 1 = n
    BY DEF IsNextNumber
  <1>4. j < n /\ k < m
    BY DEF IsNextNumber
  <1> QED BY <1>1, <1>2, <1>3, <1>4

-----------------------------------------------------------------------------
(* The initial state.                                                      *)

LEMMA InitHolds == Init => IInv
  <1> SUFFICES ASSUME Init PROVE IInv
    OBVIOUS
  <1>0. Blank \in Contents /\ NoNumber \in 0..MaxRevision
    BY MaxRevisionAssumption DEF Blank, Contents, NoNumber
  <1>a. Absent \in RevisionRow
    BY <1>0 DEF Absent, RevisionRow, NoNumber
  <1>b. [Absent EXCEPT !.status = "draft", !.version = 1] \in RevisionRow
    BY <1>0 DEF Absent, RevisionRow, NoNumber
  <1>c. Idle \in RequestState
    BY <1>0 DEF Idle, RequestState, Phases, Answers
  <1>1. TypeOK
    BY <1>0, <1>a, <1>b, <1>c DEF Init, TypeOK
  <1>2. /\ Existing = {1} /\ Drafts = {1} /\ Published = {}
        /\ 1 \in Numbers /\ 1..1 = {1}
    BY MaxRevisionAssumption
    DEF Init, Existing, Drafts, Published, Absent, Numbers
  <1>3. NumbersContiguous /\ NewestIsDraft /\ PublishedHashMatches /\ ActiveIsNewest
    BY <1>2 DEF NumbersContiguous, NewestIsDraft, PublishedHashMatches,
                ActiveIsNewest, Init
  <1>4. OneInserter /\ \A r \in Requests : RequestHolds(r)
    BY DEF Init, Idle, OneInserter, RequestHolds, HoldsNext, OpFits, Working
  <1> QED BY <1>1, <1>3, <1>4 DEF IInv

-----------------------------------------------------------------------------
(* Steps that move one request and leave the rows alone.                   *)

LEMMA QuietStep ==
    ASSUME IInv, NEW r \in Requests, NEW t \in RequestState,
           rows' = rows, active' = active, archived' = archived,
           tx' = [tx EXCEPT ![r] = t],
           t.phase # "inserted",
           RequestHolds(r)'
    PROVE  IInv'
  <1> USE DEF IInv
  <1>1. TypeOK'
    BY DEF TypeOK
  <1>2. \A q \in Requests : tx'[q] = IF q = r THEN t ELSE tx[q]
    BY DEF TypeOK
  <1>3. NumbersContiguous' /\ NewestIsDraft' /\ PublishedHashMatches'
    BY SameRows
  <1>4. ActiveIsNewest'
    BY SameRows DEF ActiveIsNewest
  <1>5. OneInserter'
    BY <1>2 DEF OneInserter
  <1>6. ASSUME NEW q \in Requests PROVE RequestHolds(q)'
    <2>1. CASE q = r BY <2>1
    <2>2. CASE q # r
      <3>1. tx'[q] = tx[q]
        BY <1>2, <2>2
      <3>2. RequestHolds(q)
        OBVIOUS
      <3> HIDE DEF IInv
      <3> QED BY <3>1, <3>2, SameRows
              DEF RequestHolds, WorksOnDrafts, HoldsNext, OpFits
    <2> QED BY <2>1, <2>2
  <1> QED BY <1>1, <1>3, <1>4, <1>5, <1>6

\* A request that has ended holds nothing.
LEMMA EndedHolds ==
    ASSUME NEW r \in Requests, tx'[r].phase = "done"
    PROVE  RequestHolds(r)'
  BY DEF RequestHolds, HoldsNext, OpFits, Working

\* Refusing a request preserves the invariant.
LEMMA RefuseHolds ==
    ASSUME IInv, NEW r \in Requests, NEW a \in Answers, Refuse(r, a)
    PROVE  IInv'
  <1> DEFINE t == [tx[r] EXCEPT !.phase = "done", !.answer = a]
  <1>0. TypeOK
    BY DEF IInv
  <1>1. t \in RequestState /\ t.phase = "done"
    BY ZenonT(60), <1>0 DEF TypeOK, RequestState, Phases
  <1>2. tx' = [tx EXCEPT ![r] = t] /\ tx'[r] = t
    BY <1>0 DEF Refuse, Answer, TypeOK
  <1>3. RequestHolds(r)'
    BY <1>1, <1>2, EndedHolds
  <1>4. rows' = rows /\ active' = active /\ archived' = archived
    BY DEF Refuse
  <1> HIDE DEF t
  <1> QED BY <1>1, <1>2, <1>3, <1>4, QuietStep

\* Archiving touches neither the rows nor the requests.
LEMMA ArchiveHolds == ASSUME IInv, Archive PROVE IInv'
  <1> USE DEF IInv, Archive
  <1>1. TypeOK'
    BY DEF TypeOK
  <1>2. NumbersContiguous' /\ NewestIsDraft' /\ PublishedHashMatches'
    BY SameRows
  <1>3. ActiveIsNewest' /\ OneInserter'
    BY SameRows DEF ActiveIsNewest, OneInserter
  <1>4. ASSUME NEW q \in Requests PROVE RequestHolds(q)'
    <2>1. RequestHolds(q) /\ tx' = tx
      OBVIOUS
    <2> HIDE DEF IInv
    <2> QED BY <2>1, SameRows DEF RequestHolds, WorksOnDrafts, HoldsNext, OpFits
  <1> QED BY <1>1, <1>2, <1>3, <1>4

\* Nothing at all changes.
LEMMA StutterHolds == ASSUME IInv, UNCHANGED vars PROVE IInv'
  <1> USE DEF IInv, vars
  <1>1. TypeOK'
    BY DEF TypeOK
  <1>2. NumbersContiguous' /\ NewestIsDraft' /\ PublishedHashMatches'
    BY SameRows
  <1>3. ActiveIsNewest' /\ OneInserter'
    BY SameRows DEF ActiveIsNewest, OneInserter
  <1>4. ASSUME NEW q \in Requests PROVE RequestHolds(q)'
    <2>1. RequestHolds(q) /\ tx' = tx
      OBVIOUS
    <2> HIDE DEF IInv
    <2> QED BY <2>1, SameRows DEF RequestHolds, WorksOnDrafts, HoldsNext, OpFits
  <1> QED BY <1>1, <1>2, <1>3, <1>4

\* Load: the author sees the current draft.
LEMMA LoadHolds == ASSUME IInv, NEW r \in Requests, Load(r) PROVE IInv'
  <1>0. TypeOK
    BY DEF IInv
  <1>1. PICK d \in Drafts :
          tx' = [tx EXCEPT ![r] = [@ EXCEPT !.phase = "loaded", !.seen = d,
                             !.seenVersion = rows[d].version,
                             !.seenContent = rows[d].content,
                             !.seenActive = active]]
    BY DEF Load
  <1> DEFINE t == [tx[r] EXCEPT !.phase = "loaded", !.seen = d,
                             !.seenVersion = rows[d].version,
                             !.seenContent = rows[d].content,
                             !.seenActive = active]
  <1>2. d \in Numbers /\ d \in Existing
    BY <1>0, RowKinds DEF Editable
  <1>3. t \in RequestState /\ t.phase = "loaded" /\ t.seen = d
    BY <1>0, <1>2, Types DEF RequestState, Working
  <1>4. tx' = [tx EXCEPT ![r] = t] /\ tx'[r] = t
    BY <1>0, <1>1 DEF TypeOK
  <1>5. rows' = rows /\ active' = active /\ archived' = archived
    BY DEF Load
  <1> HIDE DEF t
  <1>6. RequestHolds(r)'
    BY <1>2, <1>3, <1>4, <1>5, SameRows
    DEF RequestHolds, HoldsNext, OpFits, Working
  <1> QED BY <1>3, <1>4, <1>5, <1>6, QuietStep

\* update_draft reads a draft, or refuses.
LEMMA ReadForUpdateHolds ==
    ASSUME IInv, NEW r \in Requests, ReadForUpdate(r) PROVE IInv'
  <1>0. TypeOK
    BY DEF IInv
  <1>1. rows' = rows /\ active' = active /\ archived' = archived
    BY DEF ReadForUpdate
  <1>2. PICK d \in Drafts :
          IF VersionMatches(r, d)
          THEN tx' = [tx EXCEPT ![r] = [@ EXCEPT !.phase = "writing", !.op = "update",
                                  !.row = d, !.copy = rows[d].content,
                                  !.version = rows[d].version]]
          ELSE tx' = [tx EXCEPT ![r] = [@ EXCEPT !.phase = "done", !.op = "update",
                                  !.answer = "conflict"]]
    BY DEF ReadForUpdate
  <1>3. d \in Numbers /\ d \in Editable
    BY <1>0, RowKinds DEF Editable
  <1>4. CASE VersionMatches(r, d)
    <2> DEFINE t == [tx[r] EXCEPT !.phase = "writing", !.op = "update",
                                  !.row = d, !.copy = rows[d].content,
                                  !.version = rows[d].version]
    <2>1. t \in RequestState /\ t.phase = "writing" /\ t.op = "update" /\ t.row = d
      BY <1>0, <1>3, Types DEF RequestState, Working
    <2>2. tx' = [tx EXCEPT ![r] = t] /\ tx'[r] = t
      BY <1>0, <1>2, <1>4 DEF TypeOK
    <2> HIDE DEF t
    <2>3. RequestHolds(r)'
      BY <1>1, <1>3, <2>1, <2>2, SameRows
      DEF RequestHolds, WorksOnDrafts, HoldsNext, OpFits, Working
    <2> QED BY <1>1, <2>1, <2>2, <2>3, QuietStep
  <1>5. CASE ~VersionMatches(r, d)
    <2> DEFINE t == [tx[r] EXCEPT !.phase = "done", !.op = "update",
                                  !.answer = "conflict"]
    <2>1. t \in RequestState /\ t.phase = "done"
      BY <1>0, Types DEF RequestState
    <2>2. tx' = [tx EXCEPT ![r] = t] /\ tx'[r] = t
      BY <1>0, <1>2, <1>5 DEF TypeOK
    <2> HIDE DEF t
    <2> QED BY <1>1, <2>1, <2>2, EndedHolds, QuietStep
  <1> QED BY <1>4, <1>5

\* publish_widget reads the draft its author loaded, or refuses.
LEMMA ReadForPublishHolds ==
    ASSUME IInv, NEW r \in Requests, ReadForPublish(r) PROVE IInv'
  <1>0. TypeOK
    BY DEF IInv
  <1>1. rows' = rows /\ active' = active /\ archived' = archived
    BY DEF ReadForPublish
  <1> DEFINE d == tx[r].seen
  <1>2. d \in Numbers
    BY <1>0, RowKinds DEF IInv, RequestHolds, OpFits, ReadForPublish
  <1>3. CASE rows[d].status = "draft"
    <2> DEFINE t == [tx[r] EXCEPT !.phase = "read", !.op = "publish",
                                 !.row = d, !.copy = rows[d].content,
                                 !.version = rows[d].version, !.draft = d]
    <2>0. d \in Editable
      BY <1>0, <1>2, <1>3, RowKinds
    <2>1. /\ t \in RequestState /\ t.phase = "read" /\ t.op = "publish"
          /\ t.row = d /\ t.draft = d
      BY <1>0, <1>2, Types DEF RequestState, Working
    <2>2. tx' = [tx EXCEPT ![r] = t] /\ tx'[r] = t
      BY <1>0, <1>3 DEF TypeOK, ReadForPublish
    <2> HIDE DEF t
    <2>3. RequestHolds(r)'
      BY <1>1, <2>0, <2>1, <2>2, SameRows
      DEF RequestHolds, WorksOnDrafts, HoldsNext, OpFits, Working
    <2> QED BY <1>1, <2>1, <2>2, <2>3, QuietStep
  <1>4. CASE rows[d].status # "draft"
    <2> DEFINE t == [tx[r] EXCEPT !.phase = "done", !.op = "publish",
                                  !.answer = "conflict"]
    <2>1. t \in RequestState /\ t.phase = "done"
      BY <1>0, Types DEF RequestState
    <2>2. tx' = [tx EXCEPT ![r] = t] /\ tx'[r] = t
      BY <1>0, <1>4 DEF TypeOK, ReadForPublish
    <2> HIDE DEF t
    <2> QED BY <1>1, <2>1, <2>2, EndedHolds, QuietStep
  <1> QED BY <1>3, <1>4

\* rollback_widget reads its target, or refuses.
LEMMA ReadForRollbackHolds ==
    ASSUME IInv, NEW r \in Requests, NEW target \in Numbers,
           ReadForRollback(r, target)
    PROVE  IInv'
  <1>0. TypeOK
    BY DEF IInv
  <1>1. rows' = rows /\ active' = active /\ archived' = archived
    BY DEF ReadForRollback
  <1> DEFINE go == ActiveAsSeen(r) /\ rows[target].status = "published"
  <1>2. CASE go
    <2> DEFINE t == [tx[r] EXCEPT !.phase = "read", !.op = "rollback",
                             !.row = target, !.copy = rows[target].content]
    <2>1. t \in RequestState /\ t.phase = "read" /\ t.op = "rollback"
      BY <1>0, Types DEF RequestState, Working
    <2>2. tx' = [tx EXCEPT ![r] = t] /\ tx'[r] = t
      BY <1>0, <1>2 DEF TypeOK, ReadForRollback
    <2> HIDE DEF t
    <2>3. RequestHolds(r)'
      BY <2>1, <2>2 DEF RequestHolds, WorksOnDrafts, HoldsNext, OpFits, Working
    <2> QED BY <1>1, <2>1, <2>2, <2>3, QuietStep
  <1>3. CASE ~go
    <2> DEFINE t == [tx[r] EXCEPT !.phase = "done", !.op = "rollback",
                             !.answer = IF ActiveAsSeen(r)
                                           THEN "invalid" ELSE "conflict"]
    <2>1. t \in RequestState /\ t.phase = "done"
      BY <1>0, Types DEF RequestState
    <2>2. tx' = [tx EXCEPT ![r] = t] /\ tx'[r] = t
      BY <1>0, <1>3 DEF TypeOK, ReadForRollback
    <2> HIDE DEF t
    <2> QED BY <1>1, <2>1, <2>2, EndedHolds, QuietStep
  <1> QED BY <1>2, <1>3

\* A step that changes only the phase of a request and keeps what it holds.
LEMMA GotoHolds ==
    ASSUME IInv, NEW r \in Requests, NEW phase \in Phases \ {"inserted"},
           Goto(r, phase), UNCHANGED <<rows, active, archived>>,
           \A t \in RequestState :
             (tx'[r] = t /\ t = [tx[r] EXCEPT !.phase = phase]) => RequestHolds(r)'
    PROVE  IInv'
  <1>0. TypeOK
    BY DEF IInv
  <1> DEFINE t == [tx[r] EXCEPT !.phase = phase]
  <1>1. t \in RequestState /\ t.phase # "inserted"
    BY <1>0, Types DEF RequestState
  <1>2. tx' = [tx EXCEPT ![r] = t] /\ tx'[r] = t
    BY <1>0 DEF Goto, TypeOK
  <1>3. RequestHolds(r)'
    BY <1>1, <1>2
  <1> HIDE DEF t
  <1> QED BY <1>1, <1>2, <1>3, QuietStep

\* publish_widget checks that the draft is current and as its author saw it.
LEMMA CheckDraftHolds ==
    ASSUME IInv, NEW r \in Requests, CheckDraft(r) PROVE IInv'
  <1>0. TypeOK /\ RequestHolds(r)
    BY DEF IInv
  <1>1. CASE Goto(r, "checked")
    <2>1. "checked" \in Phases \ {"inserted"}
      BY DEF Phases
    <2>2. rows' = rows /\ tx[r].phase = "read" /\ tx[r].op = "publish"
      BY DEF CheckDraft
    <2>3. ASSUME NEW t \in RequestState, tx'[r] = t,
                 t = [tx[r] EXCEPT !.phase = "checked"]
          PROVE  RequestHolds(r)'
      <3>1. /\ t.phase = "checked" /\ t.op = "publish"
            /\ t.row = tx[r].row /\ t.draft = tx[r].draft
        BY <1>0, <2>2, <2>3, Types DEF RequestState
      <3>2. WorksOnDrafts(r)
        BY <1>0, <2>2 DEF RequestHolds, Working
      <3> QED BY <2>2, <2>3, <3>1, <3>2, SameRows
              DEF RequestHolds, WorksOnDrafts, HoldsNext, OpFits
    <2> QED BY <1>1, <2>1, <2>3, GotoHolds DEF CheckDraft
  <1>2. CASE Answer(r, "conflict")
    <2>1. Refuse(r, "conflict") /\ "conflict" \in Answers
      BY <1>2 DEF CheckDraft, Refuse, Answers
    <2> QED BY <2>1, RefuseHolds
  <1> QED BY <1>1, <1>2 DEF CheckDraft

\* rollback_widget reads the draft it will supersede.
LEMMA ReadCurrentDraftHolds ==
    ASSUME IInv, NEW r \in Requests, ReadCurrentDraft(r) PROVE IInv'
  <1>0. TypeOK
    BY DEF IInv
  <1>1. rows' = rows /\ active' = active /\ archived' = archived
    BY DEF ReadCurrentDraft
  <1>2. PICK d \in Drafts :
          tx' = [tx EXCEPT ![r] = [@ EXCEPT !.phase = "checked", !.draft = d]]
    BY DEF ReadCurrentDraft
  <1>3. d \in Numbers /\ d \in Editable
    BY <1>0, RowKinds DEF Editable
  <1> DEFINE t == [tx[r] EXCEPT !.phase = "checked", !.draft = d]
  <1>4. /\ t \in RequestState /\ t.phase = "checked" /\ t.op = "rollback"
        /\ t.draft = d
    BY <1>0, <1>3, Types DEF RequestState, Working, ReadCurrentDraft
  <1>5. tx' = [tx EXCEPT ![r] = t] /\ tx'[r] = t
    BY <1>0, <1>2 DEF TypeOK
  <1> HIDE DEF t
  <1>6. RequestHolds(r)'
    BY <1>1, <1>3, <1>4, <1>5, SameRows
    DEF RequestHolds, WorksOnDrafts, HoldsNext, OpFits
  <1> QED BY <1>1, <1>4, <1>5, <1>6, QuietStep

\* _next_revision_number.
LEMMA ReadNumberHolds ==
    ASSUME IInv, NEW r \in Requests, ReadNumber(r) PROVE IInv'
  <1>0. TypeOK /\ RequestHolds(r)
    BY DEF IInv
  <1>1. rows' = rows /\ active' = active /\ archived' = archived
    BY DEF ReadNumber
  <1>2. PICK n \in Numbers :
          /\ IsNextNumber(n)
          /\ n < MaxRevision
          /\ tx' = [tx EXCEPT ![r] = [@ EXCEPT !.phase = "numbered", !.number = n]]
    BY DEF ReadNumber
  <1>3. n - 1 \in Existing
    <2>1. PICK k \in Existing : k + 1 = n
      BY <1>2 DEF IsNextNumber
    <2>2. k \in Nat
      BY <1>0, RowKinds DEF Numbers
    <2> QED BY <2>1, <2>2
  <1> DEFINE t == [tx[r] EXCEPT !.phase = "numbered", !.number = n]
  <1>4. /\ t \in RequestState /\ t.phase = "numbered" /\ t.op = tx[r].op
        /\ t.row = tx[r].row /\ t.draft = tx[r].draft /\ t.number = n
    BY <1>0, <1>2, Types DEF RequestState, Working
  <1>5. tx' = [tx EXCEPT ![r] = t] /\ tx'[r] = t
    BY <1>0, <1>2 DEF TypeOK
  <1> HIDE DEF t
  <1>6. tx[r].phase = "checked" /\ WorksOnDrafts(r) /\ OpFits(r)
    BY <1>0 DEF ReadNumber, RequestHolds, Working
  <1>7. RequestHolds(r)'
    BY <1>1, <1>2, <1>3, <1>4, <1>5, <1>6, SameRows
    DEF RequestHolds, WorksOnDrafts, HoldsNext, OpFits
  <1> QED BY <1>1, <1>4, <1>5, <1>7, QuietStep

\* A rollback locks the draft.
LEMMA LockDraftHolds ==
    ASSUME IInv, NEW r \in Requests, LockDraft(r) PROVE IInv'
  <1>0. TypeOK /\ RequestHolds(r)
    BY DEF IInv
  <1>1. "locked" \in Phases \ {"inserted"}
    BY DEF Phases
  <1>2. rows' = rows /\ tx[r].phase = "numbered" /\ tx[r].op = "rollback"
    BY DEF LockDraft
  <1>3. ASSUME NEW t \in RequestState, tx'[r] = t,
               t = [tx[r] EXCEPT !.phase = "locked"]
        PROVE  RequestHolds(r)'
    <2>1. /\ t.phase = "locked" /\ t.op = "rollback"
          /\ t.draft = tx[r].draft /\ t.number = tx[r].number
      BY <1>0, <1>2, <1>3, Types DEF RequestState
    <2>2. WorksOnDrafts(r) /\ HoldsNext(r)
      BY <1>0, <1>2 DEF RequestHolds, Working
    <2> QED BY <1>2, <1>3, <2>1, <2>2, SameRows
            DEF RequestHolds, WorksOnDrafts, HoldsNext, OpFits
  <1> QED BY <1>1, <1>3, GotoHolds DEF LockDraft

-----------------------------------------------------------------------------
(* The steps that matter: inserting under the unique number, editing a row *)
(* and publishing.                                                         *)

\* When rows have no gap, a number whose predecessor exists and which does
\* not exist itself is the next one.
LEMMA FreeIsNext ==
    ASSUME TypeOK, NumbersContiguous, NEW n \in Nat,
           n - 1 \in Existing, n \notin Existing
    PROVE  IsNextNumber(n)
  <1>1. PICK top \in Numbers : Existing = 1..top
    BY DEF NumbersContiguous
  <1>2. top \in Nat /\ n = top + 1
    BY <1>1 DEF Numbers
  <1> QED BY <1>1, <1>2 DEF IsNextNumber

\* The insert waits, fails, or holds the next number alone.
LEMMA InsertPublishedHolds ==
    ASSUME IInv, NEW r \in Requests, InsertPublished(r) PROVE IInv'
  <1>0. TypeOK /\ RequestHolds(r) /\ NumbersContiguous /\ OneInserter
    BY DEF IInv
  <1>1. rows' = rows /\ active' = active /\ archived' = archived
    BY DEF InsertPublished
  <1>2. CASE Answer(r, "error")
    <2>1. Refuse(r, "error") /\ "error" \in Answers
      BY <1>1, <1>2 DEF Refuse, Answers
    <2> QED BY <2>1, RefuseHolds
  <1>3. CASE ~NumberTaken(tx[r].number) /\ Goto(r, "inserted")
    <2> DEFINE n == tx[r].number
               t == [tx[r] EXCEPT !.phase = "inserted"]
    <2>1. tx[r].phase \in {"numbered", "locked"} /\ tx[r].op \in {"publish", "rollback"}
      BY DEF InsertPublished
    <2>2. n < MaxRevision /\ n - 1 \in Existing /\ n \notin Existing
      BY <1>0, <1>3, <2>1 DEF RequestHolds, HoldsNext, NumberTaken
    <2>3. n \in Nat
      BY <1>0, MaxRevisionAssumption DEF TypeOK, RequestState
    <2>4. IsNextNumber(n)
      BY <1>0, <2>2, <2>3, FreeIsNext
    <2>5. ASSUME NEW q \in Requests, tx[q].phase = "inserted" PROVE q = r
      <3>1. IsNextNumber(tx[q].number)
        BY <2>5 DEF IInv, RequestHolds, HoldsNext
      <3>2. tx[q].number \in Nat
        BY <1>0, MaxRevisionAssumption DEF TypeOK, RequestState
      <3>3. tx[q].number = n
        BY <1>0, <2>3, <2>4, <3>1, <3>2, NextIsUnique
      <3> QED BY <2>5, <3>3 DEF InsertPublished, NumberHeld, HoldsNumber
    <2>6. /\ t \in RequestState /\ t.phase = "inserted" /\ t.op = tx[r].op
          /\ t.row = tx[r].row /\ t.draft = tx[r].draft /\ t.number = n
      BY <1>0, Types DEF RequestState, Working
    <2>7. tx' = [tx EXCEPT ![r] = t]
      BY <1>0, <1>3 DEF TypeOK, Goto
    <2> HIDE DEF t
    <2>8. \A q \in Requests : tx'[q] = IF q = r THEN t ELSE tx[q]
      BY <1>0, <2>7 DEF TypeOK
    <2>9. TypeOK'
      BY <1>0, <1>1, <2>6, <2>7 DEF TypeOK
    <2>10. NumbersContiguous' /\ NewestIsDraft' /\ PublishedHashMatches'
      BY <1>1, SameRows DEF IInv
    <2>11. ActiveIsNewest'
      BY <1>1, SameRows DEF IInv, ActiveIsNewest
    <2>12. OneInserter'
      BY <2>5, <2>8 DEF OneInserter
    <2>13. ASSUME NEW q \in Requests PROVE RequestHolds(q)'
      <3>1. CASE q = r
        <4>1. WorksOnDrafts(r)
          BY <1>0, <2>1 DEF RequestHolds, Working
        <4>2. tx'[r] = t
          BY <2>8
        <4> QED BY <1>1, <2>1, <2>2, <2>4, <2>6, <3>1, <4>1, <4>2, SameRows
                DEF RequestHolds, WorksOnDrafts, HoldsNext, OpFits
      <3>2. CASE q # r
        <4>1. tx'[q] = tx[q] /\ RequestHolds(q)
          BY <2>8, <3>2 DEF IInv
        <4> QED BY <1>1, <4>1, SameRows
                DEF RequestHolds, WorksOnDrafts, HoldsNext, OpFits
      <3> QED BY <3>1, <3>2
    <2> QED BY <2>9, <2>10, <2>11, <2>12, <2>13 DEF IInv
  <1> QED BY <1>2, <1>3 DEF InsertPublished

\* An edit changes a row that is not published and leaves it that way.
LEMMA WriteUpdateHolds ==
    ASSUME IInv, NEW r \in Requests, NEW f \in Fields, WriteUpdate(r, f)
    PROVE  IInv'
  <1>0. TypeOK /\ RequestHolds(r)
    BY DEF IInv
  <1> DEFINE d == tx[r].row
             t == [tx[r] EXCEPT !.phase = "done", !.answer = "ok"]
             new == EditRow(rows[d], tx[r].copy, tx[r].version, f, r)
  <1>1. tx[r].phase = "writing" /\ d \in Editable /\ d \in Numbers
    BY <1>0, RowKinds
    DEF WriteUpdate, RequestHolds, WorksOnDrafts, OpFits, Working
  <1>2. new \in RevisionRow /\ new.status = rows[d].status
    <2> DEFINE c == [rows[d].content EXCEPT ![f] = r]
               h == [tx[r].copy EXCEPT ![f] = r]
               v == tx[r].version + 1
    <2>1. rows[d] \in RevisionRow /\ tx[r].copy \in Contents /\ tx[r].version \in Nat
      BY <1>0, <1>1, Types DEF RequestState
    <2>2. c \in Contents
      BY <2>1 DEF RevisionRow, Contents
    <2>3. h \in Contents /\ v \in Nat
      BY <2>1 DEF Contents
    <2>4. new = [rows[d] EXCEPT !.content = c, !.version = v, !.hash = h]
      BY DEF EditRow
    <2> HIDE DEF c, h, v, new
    <2> QED BY <2>1, <2>2, <2>3, <2>4 DEF RevisionRow
  <1>3. rows' = [rows EXCEPT ![d] = new] /\ active' = active /\ archived' = archived
    BY DEF WriteUpdate
  <1>4. t \in RequestState /\ t.phase = "done"
    BY <1>0, Types DEF RequestState
  <1>5. tx' = [tx EXCEPT ![r] = t]
    BY <1>0 DEF TypeOK, WriteUpdate, Answer
  <1> HIDE DEF t, new
  <1>6. \A q \in Requests : tx'[q] = IF q = r THEN t ELSE tx[q]
    BY <1>0, <1>5 DEF TypeOK
  <1>7. \A n \in Numbers : /\ rows'[n].status = rows[n].status
                           /\ n # d => rows'[n] = rows[n]
    BY <1>0, <1>1, <1>2, <1>3 DEF TypeOK
  <1>8. /\ Existing' = Existing /\ Drafts' = Drafts /\ Published' = Published
        /\ Editable' = Editable
    BY <1>7 DEF Existing, Drafts, Published, Editable
  <1>9. TypeOK'
    BY <1>0, <1>2, <1>3, <1>4, <1>5 DEF TypeOK
  <1>10. NumbersContiguous' /\ NewestIsDraft' /\ ActiveIsNewest'
    BY <1>3, <1>8 DEF IInv, NumbersContiguous, NewestIsDraft, ActiveIsNewest
  <1>11. PublishedHashMatches'
    <2>1. d \notin Published
      BY <1>1 DEF Editable
    <2> QED BY <1>7, <1>8, <2>1 DEF IInv, PublishedHashMatches, Published
  <1>12. OneInserter'
    BY <1>4, <1>6 DEF IInv, OneInserter
  <1>13. ASSUME NEW q \in Requests PROVE RequestHolds(q)'
    <2>1. CASE q = r
      BY <1>4, <1>6, <2>1, EndedHolds
    <2>2. CASE q # r
      <3>1. tx'[q] = tx[q] /\ RequestHolds(q)
        BY <1>6, <2>2 DEF IInv
      <3> QED BY <1>8, <3>1
              DEF RequestHolds, WorksOnDrafts, HoldsNext, OpFits, IsNextNumber
    <2> QED BY <2>1, <2>2
  <1> QED BY <1>9, <1>10, <1>11, <1>12, <1>13 DEF IInv

\* A publication or a rollback adds the published revision and its draft.
LEMMA Publication ==
    ASSUME IInv, NEW r \in Requests, Publish(r)
    PROVE  LET n == tx[r].number
           IN  /\ n \in Numbers /\ n + 1 \in Numbers /\ IsNextNumber(n)
               /\ tx[r].draft \in Editable /\ tx[r].copy \in Contents
               /\ tx[r].draft < n
               /\ rows' \in [Numbers -> RevisionRow]
               /\ rows'[n].status = "published"
               /\ rows'[n].content = tx[r].copy /\ rows'[n].hash = tx[r].copy
               /\ rows'[n + 1].status = "draft"
               /\ rows'[tx[r].draft].status = "superseded"
               /\ \A m \in Numbers \ {n, n + 1, tx[r].draft} : rows'[m] = rows[m]
               /\ active' = n
  <1> DEFINE n == tx[r].number
             d == tx[r].draft
  <1>0. TypeOK /\ RequestHolds(r) /\ tx[r].phase = "inserted"
    BY DEF IInv, Publish
  <1>1. n \in 0..MaxRevision /\ tx[r].copy \in Contents /\ tx[r].row \in 0..MaxRevision
    BY <1>0, Types DEF RequestState
  <1>2. n < MaxRevision /\ IsNextNumber(n)
    BY <1>0 DEF RequestHolds, HoldsNext
  <1>3. PICK k \in Existing : k + 1 = n
    BY <1>2 DEF IsNextNumber
  <1>4. n \in Numbers /\ n + 1 \in Numbers
    BY <1>0, <1>1, <1>2, <1>3, RowKinds, MaxRevisionAssumption DEF Numbers
  <1>5. d \in Editable
    BY <1>0 DEF RequestHolds, Working, WorksOnDrafts, OpFits
  <1>6. d \in Existing /\ d \in Numbers
    BY <1>0, <1>5, RowKinds DEF Editable
  <1>7. d < n
    BY <1>2, <1>6 DEF IsNextNumber
  <1>8. /\ Clone(r, "published", tx[r].row) \in RevisionRow
        /\ Clone(r, "draft", n) \in RevisionRow
    BY <1>1 DEF Clone, RevisionRow
  <1>9. [rows[d] EXCEPT !.status = "superseded"] \in RevisionRow
    BY <1>0, <1>6, Types DEF RevisionRow
  <1>10. rows' = [m \in Numbers |->
            IF m = n THEN Clone(r, "published", tx[r].row)
            ELSE IF m = n + 1 THEN Clone(r, "draft", n)
            ELSE IF m = d THEN [rows[d] EXCEPT !.status = "superseded"]
            ELSE rows[m]]
    <2>1. \A m \in Numbers : AfterPublication(r)[m] =
            IF m = n THEN Clone(r, "published", tx[r].row)
            ELSE IF m = n + 1 THEN Clone(r, "draft", n)
            ELSE IF m = d THEN [rows[d] EXCEPT !.status = "superseded"]
            ELSE rows[m]
      BY <1>1, <1>4, <1>6, <1>7 DEF AfterPublication, FreshDraft, Numbers
    <2> QED BY <2>1 DEF Publish, AfterPublication
  <1>11. rows' \in [Numbers -> RevisionRow]
    BY <1>0, <1>8, <1>9, <1>10, Types
  <1>12. rows'[n] = Clone(r, "published", tx[r].row) /\ rows'[n + 1] = Clone(r, "draft", n)
    BY <1>1, <1>4, <1>10
  <1>13. rows'[d] = [rows[d] EXCEPT !.status = "superseded"]
    BY <1>1, <1>6, <1>7, <1>10 DEF Numbers
  <1>14. rows'[d].status = "superseded"
    BY <1>0, <1>6, <1>13, Types DEF RevisionRow
  <1>15. \A m \in Numbers \ {n, n + 1, d} : rows'[m] = rows[m]
    BY <1>10
  <1>16. active' = n
    BY DEF Publish, PointTo
  <1> QED BY <1>1, <1>2, <1>4, <1>5, <1>7, <1>11, <1>12, <1>14, <1>15, <1>16 DEF Clone

\* Which rows exist, are drafts, published and editable afterwards.
LEMMA RowsAfter ==
    ASSUME IInv, NEW r \in Requests, Publish(r)
    PROVE  LET n == tx[r].number
           IN  /\ Existing' = Existing \union {n, n + 1}
               /\ Published' = Published \union {n}
               /\ Editable \subseteq Editable'
               /\ n + 1 \in Drafts'
  <1> DEFINE n == tx[r].number
             d == tx[r].draft
  <1>0. TypeOK
    BY DEF IInv
  <1>1. /\ n \in Numbers /\ n + 1 \in Numbers /\ d \in Editable
        /\ rows'[n].status = "published" /\ rows'[n + 1].status = "draft"
        /\ rows'[d].status = "superseded"
        /\ \A m \in Numbers \ {n, n + 1, d} : rows'[m] = rows[m]
        /\ rows' \in [Numbers -> RevisionRow]
        /\ \A m \in Existing : m < n
    BY Publication DEF IsNextNumber
  <1>2. n \notin Existing /\ n + 1 \notin Existing /\ n # n + 1
    BY <1>1 DEF Numbers
  <1>3. d \in Existing /\ d \notin Published /\ d # n /\ d # n + 1
    BY <1>0, <1>1, <1>2, RowKinds DEF Editable
  <1> HIDE DEF n, d
  <1>4. Existing' = Existing \union {n, n + 1}
    BY <1>1, <1>2, <1>3 DEF Existing
  <1>5. Published' = Published \union {n}
    BY <1>1, <1>2, <1>3 DEF Published, Existing
  <1>6. Editable \subseteq Editable'
    BY <1>2, <1>3, <1>4, <1>5 DEF Editable
  <1>7. n + 1 \in Drafts'
    BY <1>1 DEF Drafts
  <1> QED BY <1>4, <1>5, <1>6, <1>7 DEF n

LEMMA PublishHolds ==
    ASSUME IInv, NEW r \in Requests, Publish(r) PROVE IInv'
  <1> DEFINE n == tx[r].number
             t == [tx[r] EXCEPT !.phase = "done", !.answer = "ok"]
  <1>0. TypeOK /\ NumbersContiguous /\ PublishedHashMatches /\ OneInserter
    BY DEF IInv
  <1>1. /\ n \in Numbers /\ n + 1 \in Numbers /\ IsNextNumber(n)
        /\ rows' \in [Numbers -> RevisionRow]
        /\ rows'[n].content = rows'[n].hash /\ active' = n
        /\ \A m \in Published : rows'[m] = rows[m]
    <2>1. \A m \in Published : m \in Existing /\ m \in Numbers
      BY <1>0, RowKinds
    <2>2. \A m \in Published : m \notin {n, n + 1, tx[r].draft}
      BY <2>1, Publication DEF IsNextNumber, Editable, Numbers
    <2> QED BY <2>1, <2>2, Publication
  <1>2. /\ Existing' = Existing \union {n, n + 1}
        /\ Published' = Published \union {n}
        /\ Editable \subseteq Editable' /\ n + 1 \in Drafts'
    BY RowsAfter
  <1>3. \A m \in Existing : m \in Nat /\ m < n
    BY <1>0, <1>1, RowKinds DEF IsNextNumber, Numbers
  <1>4. t \in RequestState /\ t.phase = "done"
    BY <1>0, Types DEF RequestState
  <1>5. tx' = [tx EXCEPT ![r] = t] /\ archived' = archived
    BY <1>0 DEF TypeOK, Publish, Answer
  <1> HIDE DEF t
  <1>6. \A q \in Requests : tx'[q] = IF q = r THEN t ELSE tx[q]
    BY <1>0, <1>5 DEF TypeOK
  <1>7. TypeOK'
    BY <1>0, <1>1, <1>4, <1>5, Types DEF TypeOK, Numbers
  <1>8. NumbersContiguous'
    <2>1. PICK top \in Numbers : Existing = 1..top
      BY <1>0 DEF NumbersContiguous
    <2>2. top \in Nat /\ n = top + 1
      <3>1. top \in Existing /\ top + 1 \notin Existing /\ top \in Nat
        BY <2>1 DEF Numbers
      <3>2. PICK k \in Existing : k + 1 = n
        BY <1>1 DEF IsNextNumber
      <3> QED BY <1>3, <2>1, <3>1, <3>2 DEF Numbers
    <2>3. Existing' = 1..(n + 1)
      BY <1>2, <2>1, <2>2
    <2> QED BY <1>1, <2>3 DEF NumbersContiguous, Numbers
  <1>9. NewestIsDraft'
    BY <1>1, <1>2, <1>3 DEF NewestIsDraft, Numbers
  <1>10. PublishedHashMatches'
    BY <1>0, <1>1, <1>2 DEF PublishedHashMatches
  <1>11. ActiveIsNewest'
    <2>1. \A m \in Published : m < n /\ m \in Nat
      BY <1>0, <1>3, RowKinds
    <2> QED BY <1>1, <1>2, <2>1 DEF ActiveIsNewest, Numbers
  <1>12. OneInserter'
    BY <1>4, <1>6, <1>0 DEF OneInserter
  <1>13. ASSUME NEW q \in Requests PROVE RequestHolds(q)'
    <2>1. CASE q = r
      BY <1>4, <1>6, <2>1, EndedHolds
    <2>2. CASE q # r
      <3>1. tx'[q] = tx[q] /\ RequestHolds(q)
        BY <1>6, <2>2 DEF IInv
      <3>2. tx[q].phase # "inserted"
        BY <1>0, <2>2 DEF OneInserter, Publish
      <3> QED BY <1>2, <3>1, <3>2
              DEF RequestHolds, WorksOnDrafts, HoldsNext, OpFits
    <2> QED BY <2>1, <2>2
  <1> QED BY <1>7, <1>8, <1>9, <1>10, <1>11, <1>12, <1>13 DEF IInv

-----------------------------------------------------------------------------
(* The theorems.                                                           *)

LEMMA NextHolds == ASSUME IInv, [Next]_vars PROVE IInv'
  <1>1. CASE UNCHANGED vars
    BY <1>1, StutterHolds
  <1>2. CASE Archive
    BY <1>2, ArchiveHolds
  <1>3. CASE Finished
    BY <1>3, StutterHolds DEF Finished
  <1>4. ASSUME NEW r \in Requests, Load(r) \/ Start(r) \/ Step(r) \/ Crash(r)
        PROVE  IInv'
    <2>1. CASE Load(r)
      BY <2>1, LoadHolds
    <2>2. CASE Start(r)
      <3>1. CASE FindNothing(r)
        BY <3>1, RefuseHolds DEF FindNothing, Answers
      <3>2. CASE ReadForUpdate(r) \/ ReadForPublish(r)
        BY <3>2, ReadForUpdateHolds, ReadForPublishHolds
      <3>3. ASSUME NEW target \in Numbers, ReadForRollback(r, target) PROVE IInv'
        BY <3>3, ReadForRollbackHolds
      <3> QED BY <2>2, <3>1, <3>2, <3>3 DEF Start
    <2>3. CASE Step(r)
      <3>1. ASSUME NEW f \in Fields, WriteUpdate(r, f) PROVE IInv'
        BY <3>1, WriteUpdateHolds
      <3>2. CASE Invalid(r)
        BY <3>2, RefuseHolds DEF Invalid, Answers
      <3>3. CASE CheckDraft(r) \/ ReadCurrentDraft(r) \/ ReadNumber(r) \/ LockDraft(r)
        BY <3>3, CheckDraftHolds, ReadCurrentDraftHolds, ReadNumberHolds, LockDraftHolds
      <3>4. CASE InsertPublished(r)
        BY <3>4, InsertPublishedHolds
      <3>5. CASE Publish(r)
        BY <3>5, PublishHolds
      <3>6. CASE DeadlockVictim(r)
        BY <3>6, RefuseHolds DEF DeadlockVictim, Answers
      <3> QED BY <2>3, <3>1, <3>2, <3>3, <3>4, <3>5, <3>6 DEF Step
    <2>4. CASE Crash(r)
      BY <2>4, RefuseHolds DEF Crash, Answers
    <2> QED BY <1>4, <2>1, <2>2, <2>3, <2>4
  <1> QED BY <1>1, <1>2, <1>3, <1>4 DEF Next

\* The inductive invariant holds in every behaviour, for any number of
\* overlapping admin requests.
THEOREM Invariance == Spec => []IInv
  <1>1. Init => IInv
    BY InitHolds
  <1>2. IInv /\ [Next]_vars => IInv'
    BY NextHolds
  <1> QED BY <1>1, <1>2, PTL DEF Spec

\* Every variable keeps its type.
THEOREM TypeCorrect == Spec => []TypeOK
  BY Invariance, PTL DEF IInv

\* There is always a draft to edit, and it is newer than every publication.
THEOREM AlwaysADraft == Spec => []NewestIsDraft
  BY Invariance, PTL DEF IInv

\* Revision numbers have no gap, however many publications collide.
THEOREM Contiguity == Spec => []NumbersContiguous
  BY Invariance, PTL DEF IInv

\* publish_widget and rollback_widget: the revisions are 1..n, and the last is the
\* draft get_current_draft finds.
THEOREM DraftsInOrder == Spec => []DraftsWhole
<1>1. IInv => DraftsWhole
  BY DEF IInv, DraftsWhole
<1> QED BY <1>1, Invariance, PTL

\* A published revision carries the hash of its own content.
THEOREM HashesMatch == Spec => []PublishedHashMatches
  BY Invariance, PTL DEF IInv

\* The initial widget has published nothing.
LEMMA HistoryInit == Init => History!Init
  <1> SUFFICES ASSUME Init PROVE History!Init
    OBVIOUS
  <1>1. Published = {}
    BY MaxRevisionAssumption DEF Init, Published, Absent, Numbers
  <1> QED BY <1>1 DEF Init, History!Init, PublishedEntries, NoNumber

\* A step that keeps the published rows and the pointer stutters.
LEMMA HistoryStutters ==
    ASSUME Published' = Published, active' = active,
           \A n \in Published : rows'[n].content = rows[n].content
    PROVE  UNCHANGED History!vars
  BY DEF History!vars, PublishedEntries

\* An edit writes a row that is not published.
LEMMA HistoryUpdate ==
    ASSUME IInv, NEW r \in Requests, NEW f \in Fields, WriteUpdate(r, f)
    PROVE  UNCHANGED History!vars
  <1> DEFINE d == tx[r].row
  <1>0. TypeOK /\ RequestHolds(r)
    BY DEF IInv
  <1>1. d \in Editable /\ d \in Numbers
    BY <1>0, RowKinds
    DEF WriteUpdate, RequestHolds, WorksOnDrafts, OpFits, Working
  <1>2. \A n \in Numbers : n # d => rows'[n] = rows[n]
    BY <1>0, <1>1 DEF TypeOK, WriteUpdate
  <1>3. rows'[d].status = rows[d].status
    <2> DEFINE c == [rows[d].content EXCEPT ![f] = r]
               h == [tx[r].copy EXCEPT ![f] = r]
    <2>1. rows'[d] = [rows[d] EXCEPT !.content = c, !.version = tx[r].version + 1,
                                     !.hash = h]
      BY <1>0, <1>1 DEF TypeOK, WriteUpdate, EditRow
    <2>2. rows[d] \in RevisionRow
      BY <1>0, <1>1, Types
    <2> HIDE DEF c, h, d
    <2> QED BY <2>1, <2>2 DEF RevisionRow
  <1>4. Published' = Published /\ d \notin Published
    BY <1>1, <1>2, <1>3 DEF Published, Editable
  <1>5. \A n \in Published : rows'[n].content = rows[n].content
    BY <1>2, <1>4 DEF Published
  <1> QED BY <1>4, <1>5, HistoryStutters DEF WriteUpdate

\* A publication or a rollback appends its content and moves the pointer.
LEMMA HistoryPublish ==
    ASSUME IInv, NEW r \in Requests, Publish(r)
    PROVE  History!Next
  <1> DEFINE n == tx[r].number
             c == tx[r].copy
  <1>0. TypeOK
    BY DEF IInv
  <1>1. /\ n \in Numbers /\ IsNextNumber(n) /\ c \in Contents
        /\ rows'[n].content = c /\ active' = n
        /\ Published' = Published \union {n}
    BY Publication, RowsAfter
  <1>2. \A m \in Published : rows'[m] = rows[m]
    <2>1. \A m \in Published : m \in Existing /\ m \in Numbers
      BY <1>0, RowKinds
    <2>2. \A m \in Published : m \notin {n, n + 1, tx[r].draft}
      BY <2>1, Publication DEF IsNextNumber, Editable, Numbers
    <2> QED BY <2>1, <2>2, Publication
  <1>3. n > active
    <2>1. active = 0 \/ active \in Existing
      BY <1>0, RowKinds DEF IInv, ActiveIsNewest, NoNumber
    <2>2. \A m \in Existing : m < n /\ m \in Nat
      BY <1>0, <1>1, RowKinds DEF IsNextNumber, Numbers
    <2> QED BY <1>1, <2>1, <2>2 DEF Numbers
  <1>4. PublishedEntries' =
          PublishedEntries \union {[number |-> n, content |-> c]}
    BY <1>1, <1>2 DEF PublishedEntries
  <1>5. History!Publish(n, c)
    BY <1>1, <1>3, <1>4 DEF History!Publish
  <1> QED BY <1>1, <1>5 DEF History!Next

\* Every step appends one publication or changes nothing a reader sees.
LEMMA HistoryNext == ASSUME IInv, [Next]_vars PROVE [History!Next]_(History!vars)
  <1>1. CASE rows' = rows /\ active' = active
    BY <1>1, SameRows, HistoryStutters
  <1>2. ASSUME NEW r \in Requests, NEW f \in Fields, WriteUpdate(r, f)
        PROVE  UNCHANGED History!vars
    BY <1>2, HistoryUpdate
  <1>3. ASSUME NEW r \in Requests, Publish(r) PROVE History!Next
    BY <1>3, HistoryPublish
  <1>4. \/ rows' = rows /\ active' = active
        \/ \E r \in Requests, f \in Fields : WriteUpdate(r, f)
        \/ \E r \in Requests : Publish(r)
    BY DEF Next, vars, Archive, Finished, Load, Start, Step, Crash, FindNothing,
           ReadForUpdate, ReadForPublish, ReadForRollback, Invalid, CheckDraft,
           ReadCurrentDraft, ReadNumber, LockDraft, InsertPublished,
           DeadlockVictim, Refuse
  <1> QED BY <1>1, <1>2, <1>3, <1>4

\* Publishing implements the append-only history its readers rely on.
THEOREM Refinement == Spec => ImplementsHistory
  <1>1. Init => History!Init
    BY HistoryInit
  <1>2. IInv /\ [Next]_vars => [History!Next]_(History!vars)
    BY HistoryNext
  <1> QED BY <1>1, <1>2, Invariance, PTL DEF Spec, ImplementsHistory, History!Spec
=============================================================================
