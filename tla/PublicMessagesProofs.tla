------------------------ MODULE PublicMessagesProofs ------------------------
(***************************************************************************)
(* Theorems about PublicMessages, for every number of requests, sessions,  *)
(* keys, bodies and slots.                                                 *)
(*                                                                         *)
(* IInv is inductive.  Its core is the row lock: a request inside T1 holds *)
(* its session's row (LockHeld), so what it carries still agrees with that *)
(* row (TxAgrees) and the key it found free is still free (OwnsRecord).    *)
(* The frame lemmas say what the helpers of the model change; QuietStep    *)
(* covers the steps that leave the rows alone, CommitKeeps the commit of   *)
(* T1; one lemma per action follows, then the theorems.                    *)
(*                                                                         *)
(* RecordsAreTrue has an inductive invariant of its own (TruthInv): how    *)
(* far a request has got says what it has stored.  The last section maps   *)
(* every step to a step of MessageContract or to none.                     *)
(***************************************************************************)
EXTENDS PublicMessages, FiniteSetTheorems, TLAPS

\* What a change of step does to pc: only the moving request's entry changes.
LEMMA GotoFrame ==
  ASSUME pc \in [Requests -> Steps], NEW r \in Requests, NEW step \in Steps, Goto(r, step)
  PROVE  /\ pc' \in [Requests -> Steps]
         /\ pc'[r] = step
         /\ \A q \in Requests \ {r} : pc'[q] = pc[q]
  BY DEF Goto

\* What an answer does: the request is done, its reply is set, the others keep theirs.
LEMMA AnswerFrame ==
  ASSUME pc \in [Requests -> Steps], reply \in [Requests -> Response],
         NEW r \in Requests, NEW code \in Codes, NEW by \in Requests \cup {None},
         Answer(r, code, by)
  PROVE  /\ pc' \in [Requests -> Steps]
         /\ pc'[r] = "done"
         /\ \A q \in Requests \ {r} : pc'[q] = pc[q] /\ reply'[q] = reply[q]
         /\ reply' \in [Requests -> Response]
         /\ reply'[r].code = code
         /\ reply'[r].by = by
<1>1. Goto(r, "done") /\ "done" \in Steps
  BY DEF Answer, Steps
<1>2. reply' = [reply EXCEPT ![r] = [code |-> code, by |-> by]]
  BY DEF Answer
<1>3. [code |-> code, by |-> by] \in Response
  BY DEF Response
<1> QED BY <1>1, <1>2, <1>3, GotoFrame

\* What a write to the uncommitted state of one T1 does.
LEMMA HoldFrame ==
  ASSUME tx \in [Requests -> TxState], NEW r \in Requests,
         NEW conv \in Requests \cup {None}, NEW made \in BOOLEAN, NEW slot \in BOOLEAN,
         Hold(r, conv, made, slot)
  PROVE  /\ tx' \in [Requests -> TxState]
         /\ tx'[r].conv = conv
         /\ tx'[r].made = made
         /\ tx'[r].slot = slot
         /\ \A q \in Requests \ {r} : tx'[q] = tx[q]
<1>1. tx' = [tx EXCEPT ![r] = [conv |-> conv, made |-> made, slot |-> slot]]
  BY DEF Hold
<1>2. [conv |-> conv, made |-> made, slot |-> slot] \in TxState
  BY DEF TxState
<1> QED BY <1>1, <1>2

\* The types of the rows and fields a request reads, from the type invariant.
LEMMA RowTypes ==
  ASSUME TypeOK, NEW r \in Requests
  PROVE  /\ Sess(r) \in Sessions
         /\ Slot(r) \in Sessions \X Keys
         /\ session[Sess(r)] \in SessionRow
         /\ session[Sess(r)].conv \in Requests \cup {None}
         /\ session[Sess(r)].status \in Status
         /\ session[Sess(r)].count \in Nat
         /\ record[Slot(r)] \in RecordRow
         /\ record[Slot(r)].status \in {"absent", "processing", "completed", "failed"}
         /\ record[Slot(r)].owner \in Requests \cup {None}
         /\ tx[r].conv \in Requests \cup {None}
         /\ tx[r].made \in BOOLEAN
         /\ tx[r].slot \in BOOLEAN
<1>1. ask[r].session \in Sessions /\ ask[r].key \in Keys
  BY DEF TypeOK, Question
<1>2. Sess(r) \in Sessions /\ Slot(r) \in Sessions \X Keys
  BY <1>1 DEF Sess, Slot
<1>3. session[Sess(r)] \in SessionRow /\ record[Slot(r)] \in RecordRow /\ tx[r] \in TxState
  BY <1>2 DEF TypeOK
<1> QED BY <1>2, <1>3 DEF SessionRow, RecordRow, TxState

\* A step that leaves the rows alone keeps the invariant if what it changes of
\* the request that takes it does.
LEMMA QuietStep ==
  ASSUME IInv, NEW r \in Requests,
         UNCHANGED <<session, record, conversations, messages, ask>>,
         TypeOK', LockHeld', TxAgrees(r)', OwnsRecord(r)', NumberRead(r)',
         \A q \in Requests \ {r} :
           /\ pc'[q] = pc[q] /\ tx'[q] = tx[q]
           /\ seqno'[q] = seqno[q] /\ reply'[q] = reply[q],
         pc[r] \in Executing \cup {"done", "crashed"} => pc'[r] \in Executing \cup {"done", "crashed"},
         reply'[r].code # "ok" \/ reply'[r] = reply[r]
                               \/ /\ record[Slot(r)].status = "completed"
                                  /\ reply'[r].by = record[Slot(r)].owner
                                  /\ ask[reply'[r].by] = ask[r]
  PROVE  IInv'
<1>1. \A q \in Requests : TxAgrees(q)' /\ OwnsRecord(q)' /\ NumberRead(q)'
  <2> SUFFICES ASSUME NEW q \in Requests \ {r}
               PROVE  TxAgrees(q)' /\ OwnsRecord(q)' /\ NumberRead(q)'
    OBVIOUS
  <2>1. TxAgrees(q)' BY DEF IInv, TxAgrees, Sess
  <2>2. OwnsRecord(q)' BY DEF IInv, OwnsRecord, Slot
  <2>3. NumberRead(q)' BY DEF IInv, NumberRead
  <2> QED BY <2>1, <2>2, <2>3
<1>2. \A sk \in Sessions \X Keys : KeyOwned(sk)'
  BY DEF IInv, KeyOwned, Slot
<1>3. \A c \in Requests : IsFiniteSet(messages[c])'
  BY DEF IInv
<1>4. MessagesOwned'
  BY DEF IInv, MessagesOwned, Sess, Slot
<1>5. RepliesAgree'
  BY DEF IInv, RepliesAgree, Slot
<1>6. SequencesContiguous'
  BY DEF IInv, SequencesContiguous, Numbers
<1> QED BY <1>1, <1>2, <1>3, <1>4, <1>5, <1>6 DEF IInv

\* The lock is untouched and r stays on its side of the transaction.
LEMMA LockKept ==
  ASSUME LockHeld, NEW r \in Requests, UNCHANGED <<lock, ask>>,
         \A q \in Requests \ {r} : pc'[q] = pc[q],
         pc[r] \in Owned <=> pc'[r] \in Owned
  PROVE  LockHeld'
  BY DEF LockHeld, Sess

\* A request that ends its transaction frees its own session row and no other.
LEMMA LockReleased ==
  ASSUME TypeOK, LockHeld, NEW r \in Requests, Unlock(r), UNCHANGED ask,
         \A q \in Requests \ {r} : pc'[q] = pc[q],
         pc[r] \in Owned, pc'[r] \notin Owned
  PROVE  LockHeld' /\ lock' \in [Sessions -> Requests \cup {None}]
<1>1. lock' = [lock EXCEPT ![Sess(r)] = None] /\ Sess(r) \in Sessions
  BY RowTypes DEF Unlock
<1>2. \A q \in Requests : Sess(q)' = Sess(q) /\ Sess(q) \in Sessions
  BY RowTypes DEF Sess
<1>3. lock \in [Sessions -> Requests \cup {None}] /\ lock[Sess(r)] = r
  BY DEF TypeOK, LockHeld
<1>4. \A q \in Requests : pc'[q] \in Owned <=> lock'[Sess(q)] = q
  BY <1>1, <1>2, <1>3, MessagesAssumption DEF LockHeld
<1>5. \A s \in Sessions : lock'[s] # None => ask'[lock'[s]].session = s
  BY <1>1, <1>3 DEF LockHeld, Sess
<1> QED BY <1>1, <1>2, <1>3, <1>4, <1>5 DEF LockHeld, Sess

\* A refusal, or the replay of a stored answer, that writes nothing.
LEMMA QuietAnswer ==
  ASSUME IInv, NEW r \in Requests,
         NEW code \in Codes, NEW by \in Requests \cup {None}, Answer(r, code, by),
         UNCHANGED <<session, record, conversations, messages, ask, tx, seqno, outcome>>,
         \/ pc[r] \in Owned /\ Unlock(r)
         \/ pc[r] \notin Owned /\ UNCHANGED lock,
         code = "ok" => /\ record[Slot(r)].status = "completed"
                        /\ by = record[Slot(r)].owner
                        /\ ask[by] = ask[r]
  PROVE  IInv'
<1>1. TypeOK /\ LockHeld
  BY DEF IInv
<1>2. /\ pc' \in [Requests -> Steps] /\ pc'[r] = "done"
      /\ \A q \in Requests \ {r} : pc'[q] = pc[q] /\ reply'[q] = reply[q]
      /\ reply' \in [Requests -> Response]
      /\ reply'[r].code = code /\ reply'[r].by = by
  BY <1>1, AnswerFrame DEF TypeOK
<1>3. LockHeld' /\ lock' \in [Sessions -> Requests \cup {None}]
  BY <1>1, <1>2, LockKept, LockReleased DEF Owned, TypeOK
<1>4. TypeOK'
  BY <1>1, <1>2, <1>3 DEF TypeOK
<1>5. TxAgrees(r)' /\ OwnsRecord(r)' /\ NumberRead(r)'
  BY <1>2 DEF TxAgrees, OwnsRecord, NumberRead, Writing, Charged, Owned, Executing
<1> QED BY <1>2, <1>3, <1>4, <1>5, QuietStep DEF Executing

\* A step to another step, with the lock, the rows and the reply left alone.
LEMMA QuietGoto ==
  ASSUME IInv, NEW r \in Requests, NEW step \in Steps, Goto(r, step),
         UNCHANGED <<session, record, conversations, messages, lock, ask, reply>>,
         tx' \in [Requests -> TxState], seqno' \in [Requests -> Nat],
         outcome' \in [Requests -> {"none", "answered", "provider_failed"}],
         \A q \in Requests \ {r} : tx'[q] = tx[q] /\ seqno'[q] = seqno[q],
         pc[r] \in Owned <=> step \in Owned,
         pc[r] \in Executing \cup {"done", "crashed"} => step \in Executing \cup {"done", "crashed"},
         TxAgrees(r)', OwnsRecord(r)', NumberRead(r)'
  PROVE  IInv'
<1>1. TypeOK /\ LockHeld
  BY DEF IInv
<1>2. /\ pc' \in [Requests -> Steps] /\ pc'[r] = step
      /\ \A q \in Requests \ {r} : pc'[q] = pc[q]
  BY <1>1, GotoFrame DEF TypeOK
<1>3. LockHeld'
  BY <1>1, <1>2, LockKept
<1>4. TypeOK'
  BY <1>1, <1>2 DEF TypeOK
<1> QED BY <1>2, <1>3, <1>4, QuietStep

\* validate_session: refusals write nothing, admission carries the conversation read.
LEMMA ValidateStep == ASSUME IInv, NEW r \in Requests, Validate(r) PROVE IInv'
<1>a. TypeOK
  BY DEF IInv
<1>1. /\ UNCHANGED <<session, record, conversations, messages, lock, seqno, outcome, ask>>
      /\ pc[r] = "idle"
  BY DEF Validate, db
<1>2. CASE UNCHANGED tx /\ \E code \in {"closed", "denied", "limit"} : Answer(r, code, None)
  BY <1>1, <1>2, QuietAnswer DEF Codes, Owned
<1>3. CASE Goto(r, "expiring") /\ UNCHANGED <<reply, tx>>
  <2>1. pc'[r] = "expiring" /\ "expiring" \in Steps
    BY <1>a, <1>3, GotoFrame DEF TypeOK, Steps
  <2>2. TxAgrees(r)' /\ OwnsRecord(r)' /\ NumberRead(r)'
    BY <2>1 DEF TxAgrees, OwnsRecord, NumberRead, Writing, Charged, Owned, Executing
  <2> QED BY <1>a, <1>1, <1>3, <2>1, <2>2, QuietGoto DEF TypeOK, Owned, Executing
<1>4. CASE Follow(r, session[Sess(r)].conv) /\ Goto(r, "locking") /\ UNCHANGED reply
  <2>1. /\ tx' \in [Requests -> TxState]
        /\ tx'[r].conv = session[Sess(r)].conv /\ ~tx'[r].made /\ ~tx'[r].slot
        /\ \A q \in Requests \ {r} : tx'[q] = tx[q]
    BY <1>a, <1>4, RowTypes, HoldFrame DEF TypeOK, Follow
  <2>2. pc'[r] = "locking" /\ "locking" \in Steps
    BY <1>a, <1>4, GotoFrame DEF TypeOK, Steps
  <2>3. TxAgrees(r)' /\ OwnsRecord(r)' /\ NumberRead(r)'
    BY <1>1, <2>1, <2>2 DEF TxAgrees, OwnsRecord, NumberRead, Writing, Charged, Owned, Executing, Sess
  <2> QED BY <1>a, <1>1, <1>4, <2>1, <2>2, <2>3, QuietGoto DEF TypeOK, Owned, Executing
<1> QED BY <1>2, <1>3, <1>4 DEF Validate

\* update_valid_activity: the row lock passes to r only when nobody holds it.
LEMMA LockStep == ASSUME IInv, NEW r \in Requests, Lock(r) PROVE IInv'
<1>a. TypeOK /\ LockHeld /\ TxAgrees(r)
  BY DEF IInv
<1>1. /\ UNCHANGED <<session, record, conversations, messages, tx, seqno, outcome, reply, ask>>
      /\ pc[r] = "locking" /\ lock[Sess(r)] = None
      /\ lock' = [lock EXCEPT ![Sess(r)] = r]
  BY DEF Lock, db, locals
<1>2. /\ pc' \in [Requests -> Steps] /\ pc'[r] = "begin"
      /\ \A q \in Requests \ {r} : pc'[q] = pc[q]
  BY <1>a, GotoFrame DEF TypeOK, Steps, Owned, Lock
<1>3. \A q \in Requests : Sess(q)' = Sess(q) /\ Sess(q) \in Sessions
  BY <1>a, <1>1, RowTypes DEF Sess
<1>4. TypeOK'
  BY <1>a, <1>1, <1>2, <1>3 DEF TypeOK
<1>5. LockHeld'
  <2>1. \A q \in Requests : pc'[q] \in Owned <=> lock'[Sess(q)] = q
    BY <1>a, <1>1, <1>2, <1>3, MessagesAssumption DEF LockHeld, Owned, TypeOK
  <2>2. \A s \in Sessions : lock'[s] # None => ask'[lock'[s]].session = s
    BY <1>a, <1>1, <1>3 DEF LockHeld, Sess, TypeOK
  <2> QED BY <1>3, <2>1, <2>2 DEF LockHeld, Sess
<1>6. TxAgrees(r)' /\ OwnsRecord(r)' /\ NumberRead(r)'
  BY <1>a, <1>1, <1>2 DEF TxAgrees, OwnsRecord, NumberRead, Writing, Charged, Owned, Executing, Sess
<1> QED BY <1>1, <1>2, <1>4, <1>5, <1>6, QuietStep DEF Executing

\* begin_request: a duplicate is answered from the record, a new key goes on.
LEMMA BeginRequestStep == ASSUME IInv, NEW r \in Requests, BeginRequest(r) PROVE IInv'
<1>a. TypeOK /\ TxAgrees(r) /\ KeyOwned(Slot(r))
  BY RowTypes DEF IInv
<1>1. /\ UNCHANGED <<session, record, conversations, messages, tx, seqno, outcome, ask>>
      /\ pc[r] = "begin"
  BY DEF BeginRequest, db, locals
<1>2. CASE \E code \in {"conflict", "in_progress", "failed"} : Answer(r, code, None) /\ Unlock(r)
  <2>1. PICK code \in {"conflict", "in_progress", "failed"} : Answer(r, code, None) /\ Unlock(r)
    BY <1>2
  <2>2. code \in Codes /\ code # "ok" /\ pc[r] \in Owned
    BY <1>1 DEF Codes, Owned
  <2> QED BY <1>1, <2>1, <2>2, QuietAnswer
<1>3. CASE /\ record[Slot(r)].status = "completed" /\ SameBody(record[Slot(r)], r)
           /\ Answer(r, "ok", record[Slot(r)].owner) /\ Unlock(r)
  <2>1. record[Slot(r)].owner \in Requests /\ Slot(record[Slot(r)].owner) = Slot(r)
        /\ ask[record[Slot(r)].owner].body = ask[r].body
    BY <1>a, <1>3 DEF KeyOwned, SameBody, NoRecord
  <2> DEFINE o == record[Slot(r)].owner
  <2>2. ask[o] \in Question /\ ask[r] \in Question
    BY <1>a, <2>1 DEF TypeOK
  <2>3. ask[o].session = ask[r].session /\ ask[o].key = ask[r].key /\ ask[o].body = ask[r].body
    BY <2>1 DEF Slot
  <2>4. ask[o] = ask[r]
    <3> HIDE DEF o
    <3> QED BY <2>2, <2>3 DEF Question
  <2>5. "ok" \in Codes /\ pc[r] \in Owned
    BY <1>1 DEF Codes, Owned
  <2> QED BY <1>1, <1>3, <2>1, <2>4, <2>5, QuietAnswer
<1>4. CASE record[Slot(r)].status = "absent" /\ Goto(r, "resolve") /\ UNCHANGED <<lock, reply>>
  <2>1. pc'[r] = "resolve" /\ "resolve" \in Steps
    BY <1>a, <1>4, GotoFrame DEF TypeOK, Steps, Owned
  <2>2. record[Slot(r)] = NoRecord
    BY <1>a, <1>4 DEF KeyOwned
  <2>3. TxAgrees(r)' /\ OwnsRecord(r)' /\ NumberRead(r)'
    BY <1>a, <1>1, <2>1, <2>2 DEF TxAgrees, OwnsRecord, NumberRead, Writing, Charged, Owned, Executing, Sess, Slot
  <2> QED BY <1>a, <1>1, <1>4, <2>1, <2>3, QuietGoto DEF TypeOK, Owned, Executing
<1> QED BY <1>2, <1>3, <1>4 DEF BeginRequest, Lookup

\* The conditional increment that succeeds: the slot is held, not yet committed.
LEMMA ConsumeSlotQuiet ==
  ASSUME IInv, NEW r \in Requests, pc[r] = "slot", SlotLeft(session[Sess(r)]),
         Hold(r, tx[r].conv, tx[r].made, TRUE), Goto(r, "secure"),
         UNCHANGED <<session, record, conversations, messages, lock, seqno, outcome, reply, ask>>
  PROVE  IInv'
<1>a. TypeOK /\ TxAgrees(r) /\ OwnsRecord(r)
  BY DEF IInv
<1>1. /\ tx' \in [Requests -> TxState]
      /\ tx'[r].conv = tx[r].conv /\ tx'[r].made = tx[r].made /\ tx'[r].slot
      /\ \A q \in Requests \ {r} : tx'[q] = tx[q]
  <2>1. tx[r].conv \in Requests \cup {None} /\ tx[r].made \in BOOLEAN /\ TRUE \in BOOLEAN
    BY <1>a, RowTypes
  <2>2. tx \in [Requests -> TxState]
    BY <1>a DEF TypeOK
  <2> QED BY ZenonT(60), <2>1, <2>2, HoldFrame
<1>2. pc'[r] = "secure" /\ "secure" \in Steps
  BY <1>a, GotoFrame DEF TypeOK, Steps, Owned
<1>3. TxAgrees(r)'
  BY <1>a, <1>1, <1>2 DEF TxAgrees, SlotLeft, Writing, Charged, Executing, Sess
<1>4. OwnsRecord(r)' /\ NumberRead(r)'
  BY <1>a, <1>2 DEF OwnsRecord, NumberRead, Owned, Executing, Slot
<1> QED BY <1>a, <1>1, <1>2, <1>3, <1>4, QuietGoto DEF TypeOK, Owned, Executing

\* The conversation a preparation goes on with is the session's, or one of its own
\* for a session that has none.
LEMMA ResolveQuiet ==
  ASSUME IInv, NEW r \in Requests, pc[r] = "resolve", Goto(r, "slot"),
         UNCHANGED <<session, record, conversations, messages, lock, seqno, outcome, reply, ask>>,
         \/ tx[r].conv # None /\ UNCHANGED tx
         \/ session[Sess(r)].conv = None /\ Hold(r, r, TRUE, FALSE)
         \/ session[Sess(r)].conv # None /\ Follow(r, session[Sess(r)].conv)
  PROVE  IInv'
<1>a. TypeOK /\ TxAgrees(r) /\ OwnsRecord(r)
  BY DEF IInv
<1>1. /\ tx' \in [Requests -> TxState]
      /\ tx'[r].conv # None /\ ~tx'[r].slot
      /\ IF tx'[r].made THEN tx'[r].conv = r /\ session[Sess(r)].conv = None
                        ELSE tx'[r].conv = session[Sess(r)].conv
      /\ \A q \in Requests \ {r} : tx'[q] = tx[q]
  <2>1. CASE tx[r].conv # None /\ UNCHANGED tx
    BY <1>a, <2>1 DEF TxAgrees, TypeOK
  <2>2. CASE session[Sess(r)].conv = None /\ Hold(r, r, TRUE, FALSE)
    BY ZenonT(60), <1>a, <2>2, HoldFrame, MessagesAssumption DEF TypeOK
  <2>3. CASE session[Sess(r)].conv # None /\ Follow(r, session[Sess(r)].conv)
    <3>1. session[Sess(r)].conv \in Requests \cup {None} /\ FALSE \in BOOLEAN
      BY <1>a, RowTypes
    <3>2. /\ tx' \in [Requests -> TxState]
          /\ tx'[r].conv = session[Sess(r)].conv /\ ~tx'[r].made /\ ~tx'[r].slot
          /\ \A q \in Requests \ {r} : tx'[q] = tx[q]
      BY <1>a, <2>3, <3>1, HoldFrame DEF TypeOK, Follow
    <3> QED BY <2>3, <3>2
  <2> QED BY <2>1, <2>2, <2>3
<1>2. pc'[r] = "slot" /\ "slot" \in Steps
  BY <1>a, GotoFrame DEF TypeOK, Steps, Owned
<1>3. TxAgrees(r)'
  BY <1>a, <1>1, <1>2 DEF TxAgrees, Writing, Charged, Executing, Sess
<1>4. OwnsRecord(r)' /\ NumberRead(r)'
  BY <1>a, <1>2 DEF OwnsRecord, NumberRead, Owned, Executing, Slot
<1> QED BY <1>a, <1>1, <1>2, <1>3, <1>4, QuietGoto DEF TypeOK, Owned, Executing

\* max(sequence_number) + 1 over a conversation numbered 1..n is n + 1.
LEMMA NextSequenceIs ==
  ASSUME NEW c, NEW n \in Nat, Numbers(c) = 1..n
  PROVE  NextSequence(c) = n + 1
<1> DEFINE S == (1..n) \cup {0}
<1>1. n \in S /\ \A y \in S : n >= y
  OBVIOUS
<1>2. Max(S) \in S /\ \A y \in S : Max(S) >= y
  BY <1>1 DEF Max
<1>3. Max(S) = n
  <2> SUFFICES ASSUME NEW x \in S, n \in S, \A y \in S : n >= y, \A y \in S : x >= y
               PROVE  x = n
    BY <1>1, <1>2
  <2> QED OBVIOUS
<1> QED BY <1>3 DEF NextSequence

\* Reading the next sequence number, before the user's or the assistant's message.
LEMMA ReadSequenceStep ==
  ASSUME IInv, NEW r \in Requests,
         ReadUserSequence(r) \/ ReadAssistantSequence(r)
  PROVE  IInv'
<1>a. TypeOK /\ TxAgrees(r) /\ OwnsRecord(r) /\ SequencesContiguous
  BY DEF IInv
<1>1. /\ UNCHANGED <<session, record, conversations, messages, lock, tx, outcome, reply, ask>>
      /\ seqno' = [seqno EXCEPT ![r] = NextSequence(tx[r].conv)]
  BY DEF ReadUserSequence, ReadAssistantSequence, db
<1>2. tx[r].conv \in Requests
  BY <1>a, RowTypes DEF TxAgrees, ReadUserSequence, ReadAssistantSequence, Writing, Executing
<1>3. Cardinality(messages[tx[r].conv]) \in Nat
  <2>1. IsFiniteSet(messages[tx[r].conv])
    BY <1>2 DEF IInv
  <2> QED BY <2>1, FS_CardinalityType
<1>4. NextSequence(tx[r].conv) = Cardinality(messages[tx[r].conv]) + 1
  <2>1. Numbers(tx[r].conv) = 1..Cardinality(messages[tx[r].conv])
    BY <1>a, <1>2 DEF SequencesContiguous
  <2> QED BY <1>3, <2>1, NextSequenceIs
<1>5. /\ seqno' \in [Requests -> Nat]
      /\ seqno'[r] \in 1..(Cardinality(messages[tx[r].conv]) + 1)
      /\ \A q \in Requests \ {r} : seqno'[q] = seqno[q]
  BY <1>a, <1>1, <1>3, <1>4 DEF TypeOK
<1>6. CASE pc[r] = "userseq" /\ Goto(r, "user")
  <2>1. pc'[r] = "user" /\ "user" \in Steps
    BY <1>a, <1>6, GotoFrame DEF TypeOK, Steps, Owned
  <2>2. TxAgrees(r)' /\ OwnsRecord(r)' /\ NumberRead(r)'
    BY <1>a, <1>1, <1>5, <1>6, <2>1
    DEF TxAgrees, OwnsRecord, NumberRead, Writing, Charged, Owned, Executing, Sess, Slot
  <2> QED BY <1>a, <1>1, <1>5, <1>6, <2>1, <2>2, QuietGoto DEF TypeOK, Owned, Executing
<1>7. CASE pc[r] = "assistantseq" /\ Goto(r, "assistant")
  <2>1. pc'[r] = "assistant" /\ "assistant" \in Steps
    BY <1>a, <1>7, GotoFrame DEF TypeOK, Steps, Executing
  <2>2. TxAgrees(r)' /\ OwnsRecord(r)' /\ NumberRead(r)'
    BY <1>a, <1>1, <1>5, <1>7, <2>1
    DEF TxAgrees, OwnsRecord, NumberRead, Writing, Charged, Owned, Executing, Sess, Slot
  <2> QED BY <1>a, <1>1, <1>5, <1>7, <2>1, <2>2, QuietGoto DEF TypeOK, Owned, Executing
<1> QED BY <1>6, <1>7 DEF ReadUserSequence, ReadAssistantSequence

\* Moves that change nothing but the step, between steps with the same duties.
LEMMA MoveOn ==
  ASSUME IInv, NEW r \in Requests, NEW step,
         <<pc[r], step>> \in {<<"secure", "userseq">>, <<"generate", "assistantseq">>,
                              <<"cite", "finish">>},
         Goto(r, step), outcome' \in [Requests -> {"none", "answered", "provider_failed"}],
         UNCHANGED <<session, record, conversations, messages, lock, tx, seqno, reply, ask>>
  PROVE  IInv'
<1>a. TypeOK /\ TxAgrees(r) /\ OwnsRecord(r)
  BY DEF IInv
<1>1. step \in Steps
  BY DEF Steps, Owned, Executing
<1>2. pc'[r] = step
  BY <1>a, <1>1, GotoFrame DEF TypeOK
<1>3. TxAgrees(r)' /\ OwnsRecord(r)' /\ NumberRead(r)'
  BY <1>a, <1>2
  DEF TxAgrees, OwnsRecord, NumberRead, Writing, Charged, Owned, Executing, Sess, Slot
<1> QED BY <1>a, <1>1, <1>3, QuietGoto DEF TypeOK, Owned, Executing

\* Generation: an outcome to go on with, or an unexpected error that is answered.
LEMMA GenerateStep == ASSUME IInv, NEW r \in Requests, Generate(r) PROVE IInv'
<1>1. UNCHANGED <<session, record, conversations, messages, lock, tx, seqno, ask>> /\ pc[r] = "generate"
  BY DEF Generate, db
<1>2. CASE \E o \in {"answered", "provider_failed"} :
             outcome' = [outcome EXCEPT ![r] = o] /\ Goto(r, "assistantseq") /\ UNCHANGED reply
  <2>1. outcome' \in [Requests -> {"none", "answered", "provider_failed"}]
    BY <1>2 DEF IInv, TypeOK
  <2> QED BY <1>1, <1>2, <2>1, MoveOn
<1>3. CASE Answer(r, "internal", None) /\ UNCHANGED outcome
  BY <1>1, <1>3, QuietAnswer DEF Codes, Owned
<1> QED BY <1>2, <1>3 DEF Generate

\* attach_citations: on to the end, or a refusal that leaves the record alone.
LEMMA AttachCitationsStep == ASSUME IInv, NEW r \in Requests, AttachCitations(r) PROVE IInv'
<1>1. UNCHANGED <<session, record, conversations, messages, lock, tx, seqno, outcome, ask>> /\ pc[r] = "cite"
  BY DEF AttachCitations, db, locals
<1>2. CASE Goto(r, "finish") /\ UNCHANGED reply
  BY <1>1, <1>2, MoveOn DEF IInv, TypeOK
<1>3. CASE Answer(r, "unsafe", None)
  BY <1>1, <1>3, QuietAnswer DEF Codes, Owned
<1> QED BY <1>2, <1>3 DEF AttachCitations

\* A crash releases the row lock and leaves the committed rows alone.
LEMMA CrashStep == ASSUME IInv, NEW r \in Requests, Crash(r) PROVE IInv'
<1>a. TypeOK /\ LockHeld
  BY DEF IInv
<1>1. UNCHANGED <<session, record, conversations, messages, tx, seqno, outcome, reply, ask>>
  BY DEF Crash, db, locals
<1>2. /\ pc' \in [Requests -> Steps] /\ pc'[r] = "crashed"
      /\ \A q \in Requests \ {r} : pc'[q] = pc[q]
  BY <1>a, GotoFrame DEF Crash, TypeOK, Steps
<1>3. LockHeld' /\ lock' \in [Sessions -> Requests \cup {None}]
  <2>1. CASE pc[r] \in Owned
    BY <1>a, <1>1, <1>2, <2>1, LockReleased DEF Crash, Unlock, Owned
  <2>2. CASE pc[r] \notin Owned
    BY <1>a, <1>1, <1>2, <2>2, LockKept DEF Crash, Owned, TypeOK
  <2> QED BY <2>1, <2>2
<1>4. TypeOK'
  BY <1>a, <1>1, <1>2, <1>3 DEF TypeOK
<1>5. TxAgrees(r)' /\ OwnsRecord(r)' /\ NumberRead(r)'
  BY <1>2 DEF TxAgrees, OwnsRecord, NumberRead, Writing, Charged, Owned, Executing
<1> QED BY <1>1, <1>2, <1>3, <1>4, <1>5, QuietStep DEF Executing

-----------------------------------------------------------------------------
\* What the commit of T1 does to the rows.
LEMMA CommitFrame ==
  ASSUME TypeOK, NEW r \in Requests, NEW rs \in {"processing", "failed"}, NEW ss \in Status,
         CommitPreparation(r, rs, ss)
  PROVE  /\ session' \in [Sessions -> SessionRow]
         /\ session'[Sess(r)].conv = tx[r].conv
         /\ session'[Sess(r)].status = ss
         /\ session'[Sess(r)].count = session[Sess(r)].count + (IF tx[r].slot THEN 1 ELSE 0)
         /\ \A s \in Sessions \ {Sess(r)} : session'[s] = session[s]
         /\ record' \in [Sessions \X Keys -> RecordRow]
         /\ record'[Slot(r)].status = rs
         /\ record'[Slot(r)].body = ask[r].body
         /\ record'[Slot(r)].owner = r
         /\ record'[Slot(r)].slot = tx[r].slot
         /\ \A sk \in (Sessions \X Keys) \ {Slot(r)} : record'[sk] = record[sk]
         /\ conversations' \subseteq Requests
         /\ Unlock(r)
<1>1. /\ Sess(r) \in Sessions /\ Slot(r) \in Sessions \X Keys /\ session[Sess(r)].count \in Nat
      /\ tx[r].conv \in Requests \cup {None} /\ tx[r].slot \in BOOLEAN
      /\ ask[r].body \in Bodies
  BY RowTypes DEF TypeOK, Question
<1> DEFINE row == [status |-> ss, count |-> CountAfter(r), conv |-> tx[r].conv]
           rec == [status |-> rs, body |-> ask[r].body, owner |-> r, slot |-> tx[r].slot]
<1>2. CountAfter(r) = session[Sess(r)].count + (IF tx[r].slot THEN 1 ELSE 0) /\ CountAfter(r) \in Nat
  BY <1>1 DEF CountAfter
<1>3. row \in SessionRow /\ rec \in RecordRow
  BY <1>1, <1>2 DEF SessionRow, RecordRow
<1>4. session' = [session EXCEPT ![Sess(r)] = row] /\ record' = [record EXCEPT ![Slot(r)] = rec]
  BY DEF CommitPreparation
<1>5. /\ session' \in [Sessions -> SessionRow] /\ session'[Sess(r)] = row
      /\ \A s \in Sessions \ {Sess(r)} : session'[s] = session[s]
  BY <1>1, <1>3, <1>4 DEF TypeOK
<1>6. /\ record' \in [Sessions \X Keys -> RecordRow] /\ record'[Slot(r)] = rec
      /\ \A sk \in (Sessions \X Keys) \ {Slot(r)} : record'[sk] = record[sk]
  BY <1>1, <1>3, <1>4 DEF TypeOK
<1>7. conversations' \subseteq Requests /\ Unlock(r)
  BY DEF CommitPreparation, TypeOK
<1> QED BY <1>2, <1>5, <1>6, <1>7

\* The commit of T1 respects what every other request relies on.
LEMMA CommitKeeps ==
  ASSUME IInv, NEW r \in Requests, NEW rs \in {"processing", "failed"}, NEW ss \in Status,
         CommitPreparation(r, rs, ss), pc[r] \in Owned \ {"begin"},
         tx[r].conv = session[Sess(r)].conv \/ session[Sess(r)].conv = None,
         UNCHANGED <<ask, tx>>,
         \A q \in Requests \ {r} : pc'[q] = pc[q] /\ reply'[q] = reply[q],
         pc'[r] \in Executing \cup {"done"},
         reply'[r].code # "ok" \/ reply'[r] = reply[r]
  PROVE  /\ \A q \in Requests \ {r} : TxAgrees(q)' /\ OwnsRecord(q)'
         /\ \A sk \in Sessions \X Keys : KeyOwned(sk)'
         /\ \A c \in Requests : \A m \in messages[c] :
              /\ session'[Sess(m.by)].conv = c
              /\ record'[Slot(m.by)].status # "absent"
              /\ record'[Slot(m.by)].owner = m.by
         /\ RepliesAgree'
         /\ LockHeld'
         /\ lock' \in [Sessions -> Requests \cup {None}]
<1>a. TypeOK /\ LockHeld
  BY DEF IInv
<1>b. /\ \A q \in Requests : TxAgrees(q) /\ OwnsRecord(q)
      /\ \A sk \in Sessions \X Keys : KeyOwned(sk)
      /\ RepliesAgree /\ MessagesOwned
  BY DEF IInv
<1>c. \A q \in Requests : Sess(q) \in Sessions /\ Slot(q) \in Sessions \X Keys
                          /\ tx[q].conv \in Requests \cup {None}
  BY <1>a, RowTypes
<1>1. /\ session'[Sess(r)].conv = tx[r].conv
      /\ \A s \in Sessions \ {Sess(r)} : session'[s] = session[s]
      /\ record'[Slot(r)].status = rs
      /\ record'[Slot(r)].body = ask[r].body
      /\ record'[Slot(r)].owner = r
      /\ \A sk \in (Sessions \X Keys) \ {Slot(r)} : record'[sk] = record[sk]
      /\ Unlock(r)
  BY <1>a, RowTypes, CommitFrame
<1>2. record[Slot(r)] = NoRecord /\ record[Slot(r)].status = "absent"
  <2>1. OwnsRecord(r)
    BY <1>b
  <2> QED BY <2>1 DEF OwnsRecord, NoRecord
<1>3. \A q \in Requests \ {r} : pc[q] \in Owned => Sess(q) # Sess(r) /\ Slot(q) # Slot(r)
  <2>1. \A q \in Requests \ {r} : pc[q] \in Owned => Sess(q) # Sess(r)
    BY <1>a DEF LockHeld
  <2> QED BY <2>1 DEF Slot, Sess
<1>4. \A q \in Requests \ {r} : TxAgrees(q)'
  <2> SUFFICES ASSUME NEW q \in Requests \ {r} PROVE TxAgrees(q)'
    OBVIOUS
  <2>1. /\ pc'[q] = pc[q] /\ tx'[q] = tx[q] /\ Sess(q)' = Sess(q)
        /\ pc[q] \in Owned => session'[Sess(q)] = session[Sess(q)]
        /\ session[Sess(q)].conv # None => session'[Sess(q)].conv = session[Sess(q)].conv
    BY <1>1, <1>3, <1>c DEF Sess
  <2>2. TxAgrees(q)
    BY <1>b
  <2> QED BY <2>1, <2>2 DEF TxAgrees, Owned, Executing, Writing, Charged
<1>5. \A q \in Requests \ {r} : OwnsRecord(q)'
  <2> SUFFICES ASSUME NEW q \in Requests \ {r} PROVE OwnsRecord(q)'
    OBVIOUS
  <2>1. OwnsRecord(q) /\ Slot(q)' = Slot(q) /\ pc'[q] = pc[q]
    BY <1>b DEF Slot
  <2>2. pc[q] \in Owned \cup Executing => record'[Slot(q)] = record[Slot(q)] \/ pc[q] = "begin"
    BY <1>1, <1>2, <1>3, <1>c, <2>1 DEF OwnsRecord
  <2> QED BY <2>1, <2>2 DEF OwnsRecord, Owned, Executing
<1>6. \A sk \in Sessions \X Keys : KeyOwned(sk)'
  <2> SUFFICES ASSUME NEW sk \in Sessions \X Keys PROVE KeyOwned(sk)'
    OBVIOUS
  <2>1. CASE sk = Slot(r)
    BY <1>1, <2>1 DEF KeyOwned, Slot
  <2>2. CASE sk # Slot(r)
    <3>1. record'[sk] = record[sk] /\ KeyOwned(sk)
      BY <1>1, <1>b, <2>2
    <3>2. \A q \in Requests : pc[q] \in Executing \cup {"done", "crashed"}
                              => pc'[q] \in Executing \cup {"done", "crashed"}
      OBVIOUS
    <3>3. \A q : Slot(q)' = Slot(q) /\ ask'[q] = ask[q]
      BY DEF Slot
    <3> QED BY <3>1, <3>2, <3>3 DEF KeyOwned, NoRecord, Slot
  <2> QED BY <2>1, <2>2
<1>7. \A c \in Requests : \A m \in messages[c] :
         /\ session'[Sess(m.by)].conv = c
         /\ record'[Slot(m.by)].status # "absent"
         /\ record'[Slot(m.by)].owner = m.by
  <2> SUFFICES ASSUME NEW c \in Requests, NEW m \in messages[c]
               PROVE  /\ session'[Sess(m.by)].conv = c
                      /\ record'[Slot(m.by)].status # "absent"
                      /\ record'[Slot(m.by)].owner = m.by
    OBVIOUS
  <2>1. m.by \in Requests
    BY <1>a DEF TypeOK, MessageRow
  <2>2. /\ session[Sess(m.by)].conv = c
        /\ record[Slot(m.by)].status # "absent"
        /\ record[Slot(m.by)].owner = m.by
    BY <1>b DEF MessagesOwned
  <2>3. record'[Slot(m.by)] = record[Slot(m.by)]
    BY <1>1, <1>2, <1>c, <2>1, <2>2
  <2>4. session'[Sess(m.by)].conv = session[Sess(m.by)].conv
    BY <1>1, <1>c, <2>1, <2>2, MessagesAssumption
  <2> QED BY <2>2, <2>3, <2>4
<1>8. RepliesAgree'
  <2> SUFFICES ASSUME NEW q \in Requests, reply'[q].code = "ok"
               PROVE  /\ record'[Slot(q)].status = "completed"
                      /\ reply'[q].by = record'[Slot(q)].owner
                      /\ ask[reply'[q].by] = ask[q]
    BY DEF RepliesAgree, Slot
  <2>1. reply'[q] = reply[q]
    OBVIOUS
  <2>2. record[Slot(q)].status = "completed"
    BY <1>b, <2>1 DEF RepliesAgree
  <2>3. record'[Slot(q)] = record[Slot(q)]
    BY <1>1, <1>2, <1>c, <2>2
  <2> QED BY <1>b, <2>1, <2>3 DEF RepliesAgree
<1>9. LockHeld' /\ lock' \in [Sessions -> Requests \cup {None}]
  BY <1>a, <1>1, LockReleased DEF Owned, Executing
<1> QED BY <1>4, <1>5, <1>6, <1>7, <1>8, <1>9

\* A refusal inside T1: the record is committed as failed.
LEMMA RefuseStep ==
  ASSUME IInv, NEW r \in Requests, NEW code \in Codes \ {"ok"}, NEW ss \in Status,
         Refuse(r, code, ss), pc[r] \in Owned \ {"begin"},
         tx[r].conv = session[Sess(r)].conv \/ session[Sess(r)].conv = None
  PROVE  IInv'
<1>a. TypeOK
  BY DEF IInv
<1>1. /\ CommitPreparation(r, "failed", ss) /\ Answer(r, code, None)
      /\ UNCHANGED <<messages, tx, seqno, outcome, ask>>
  BY DEF Refuse, locals
<1>2. /\ pc' \in [Requests -> Steps] /\ pc'[r] = "done"
      /\ \A q \in Requests \ {r} : pc'[q] = pc[q] /\ reply'[q] = reply[q]
      /\ reply' \in [Requests -> Response]
      /\ reply'[r].code # "ok"
  BY <1>a, <1>1, AnswerFrame DEF TypeOK
<1>3. /\ session' \in [Sessions -> SessionRow]
      /\ record' \in [Sessions \X Keys -> RecordRow]
      /\ conversations' \subseteq Requests
  BY <1>a, <1>1, CommitFrame
<1>4. /\ \A q \in Requests \ {r} : TxAgrees(q)' /\ OwnsRecord(q)'
      /\ \A sk \in Sessions \X Keys : KeyOwned(sk)'
      /\ RepliesAgree' /\ LockHeld' /\ lock' \in [Sessions -> Requests \cup {None}]
  BY <1>1, <1>2, CommitKeeps
<1>5. MessagesOwned'
  <2>1. \A c \in Requests : \A m \in messages[c] :
          /\ session'[Sess(m.by)].conv = c
          /\ record'[Slot(m.by)].status # "absent"
          /\ record'[Slot(m.by)].owner = m.by
    BY <1>1, <1>2, CommitKeeps
  <2> QED BY <1>1, <2>1 DEF MessagesOwned, Sess, Slot
<1>6. TxAgrees(r)' /\ OwnsRecord(r)'
  BY <1>2 DEF TxAgrees, OwnsRecord, Writing, Charged, Owned, Executing
<1>7. \A q \in Requests : NumberRead(q)'
  BY <1>1, <1>2 DEF IInv, NumberRead
<1>8. TypeOK'
  BY <1>a, <1>1, <1>2, <1>3, <1>4 DEF TypeOK
<1>9. SequencesContiguous' /\ \A c \in Requests : IsFiniteSet(messages'[c])
  BY <1>1 DEF IInv, SequencesContiguous, Numbers
<1> QED BY <1>4, <1>5, <1>6, <1>7, <1>8, <1>9 DEF IInv

\* _resolve_or_create_conversation, with its refusal.
LEMMA ResolveConversationStep ==
  ASSUME IInv, NEW r \in Requests, ResolveConversation(r) PROVE IInv'
<1>1. pc[r] = "resolve"
  BY DEF ResolveConversation
<1>2. CASE /\ tx[r].conv = None /\ session[Sess(r)].conv = None
           /\ Refuse(r, "unavailable", session[Sess(r)].status)
  <2>1. session[Sess(r)].status \in Status /\ "unavailable" \in Codes \ {"ok"}
    BY RowTypes DEF IInv, Codes
  <2> QED BY <1>1, <1>2, <2>1, RefuseStep DEF Owned
<1>3. CASE /\ Goto(r, "slot")
           /\ UNCHANGED <<session, record, conversations, messages, lock, seqno, outcome, reply, ask>>
           /\ \/ tx[r].conv # None /\ UNCHANGED tx
              \/ session[Sess(r)].conv = None /\ Hold(r, r, TRUE, FALSE)
              \/ session[Sess(r)].conv # None /\ Follow(r, session[Sess(r)].conv)
  BY <1>1, <1>3, ResolveQuiet
<1> QED BY <1>2, <1>3 DEF ResolveConversation, db, locals

\* consume_message_slot, with its refusal.
LEMMA ConsumeSlotStep ==
  ASSUME IInv, NEW r \in Requests, ConsumeSlot(r) PROVE IInv'
<1>1. pc[r] = "slot" /\ TxAgrees(r)
  BY DEF ConsumeSlot, IInv
<1>2. CASE ConsumeSlot(r) /\ SlotLeft(session[Sess(r)])
  BY <1>1, <1>2, ConsumeSlotQuiet DEF ConsumeSlot, db
<1>3. CASE Refuse(r, "limit", session[Sess(r)].status)
  <2>1. session[Sess(r)].status \in Status /\ "limit" \in Codes \ {"ok"}
    BY RowTypes DEF IInv, Codes
  <2>2. tx[r].conv = session[Sess(r)].conv \/ session[Sess(r)].conv = None
    BY <1>1 DEF TxAgrees, Writing
  <2> QED BY <1>1, <1>3, <2>1, <2>2, RefuseStep DEF Owned
<1> QED BY <1>2, <1>3 DEF ConsumeSlot

\* The security and tenant checks, with their refusals.
LEMMA SecureStep ==
  ASSUME IInv, NEW r \in Requests, Secure(r) PROVE IInv'
<1>1. pc[r] = "secure" /\ TxAgrees(r)
  BY DEF Secure, IInv
<1>2. CASE Goto(r, "userseq") /\ UNCHANGED <<db, lock, locals, reply, ask>>
  BY <1>1, <1>2, MoveOn DEF db, locals, IInv, TypeOK
<1>3. CASE \E code \in {"unsafe", "unavailable"}, ss \in {"active", "blocked"} : Refuse(r, code, ss)
  <2>1. PICK code \in {"unsafe", "unavailable"}, ss \in {"active", "blocked"} : Refuse(r, code, ss)
    BY <1>3
  <2>2. ss \in Status /\ code \in Codes \ {"ok"}
    BY DEF Status, Codes
  <2>3. tx[r].conv = session[Sess(r)].conv \/ session[Sess(r)].conv = None
    BY <1>1 DEF TxAgrees, Writing
  <2> QED BY <1>1, <2>1, <2>2, <2>3, RefuseStep DEF Owned
<1> QED BY <1>2, <1>3 DEF Secure

\* mark_status(expired) on an active row nobody has locked.
LEMMA ExpireStep == ASSUME IInv, NEW r \in Requests, Expire(r) PROVE IInv'
<1>a. TypeOK /\ LockHeld
  BY DEF IInv
<1>b. \A q \in Requests : Sess(q) \in Sessions /\ Sess(q)' = Sess(q) /\ Slot(q)' = Slot(q)
  BY <1>a, RowTypes DEF Expire, Sess, Slot
<1> DEFINE row == [status |-> IF session[Sess(r)].status = "active" THEN "expired"
                              ELSE session[Sess(r)].status,
                   count |-> session[Sess(r)].count, conv |-> session[Sess(r)].conv]
<1>1. /\ UNCHANGED <<record, conversations, messages, lock, tx, seqno, outcome, ask>>
      /\ session' = [session EXCEPT ![Sess(r)] = row]
      /\ Answer(r, "closed", None)
      /\ pc[r] = "expiring" /\ lock[Sess(r)] = None
  BY DEF Expire, locals
<1>2. row \in SessionRow
  BY <1>a, RowTypes DEF SessionRow, Status
<1>3. /\ session' \in [Sessions -> SessionRow]
      /\ \A s \in Sessions : session'[s].conv = session[s].conv
      /\ \A s \in Sessions \ {Sess(r)} : session'[s] = session[s]
  BY <1>a, <1>b, <1>1, <1>2 DEF TypeOK
<1>4. /\ pc' \in [Requests -> Steps] /\ pc'[r] = "done"
      /\ \A q \in Requests \ {r} : pc'[q] = pc[q] /\ reply'[q] = reply[q]
      /\ reply' \in [Requests -> Response]
      /\ reply'[r].code # "ok"
  BY <1>a, <1>1, AnswerFrame DEF TypeOK, Codes
<1>5. TypeOK'
  BY <1>a, <1>1, <1>3, <1>4 DEF TypeOK
<1>6. LockHeld'
  BY <1>a, <1>1, <1>4, LockKept DEF Owned
<1>7. \A q \in Requests : TxAgrees(q)' /\ OwnsRecord(q)' /\ NumberRead(q)'
  <2> SUFFICES ASSUME NEW q \in Requests PROVE TxAgrees(q)' /\ OwnsRecord(q)' /\ NumberRead(q)'
    OBVIOUS
  <2>1. CASE q = r
    BY <1>4, <2>1 DEF TxAgrees, OwnsRecord, NumberRead, Writing, Charged, Owned, Executing
  <2>2. CASE q # r
    <3>1. pc[q] \in Owned => session'[Sess(q)] = session[Sess(q)]
      BY <1>a, <1>b, <1>1, <1>3, MessagesAssumption DEF LockHeld
    <3>2. TxAgrees(q)'
      BY <1>b, <1>1, <1>3, <1>4, <2>2, <3>1 DEF IInv, TxAgrees, Owned, Writing, Charged
    <3>3. OwnsRecord(q)' /\ NumberRead(q)'
      BY <1>b, <1>1, <1>4, <2>2 DEF IInv, OwnsRecord, NumberRead
    <3> QED BY <3>2, <3>3
  <2> QED BY <2>1, <2>2
<1>8. \A sk \in Sessions \X Keys : KeyOwned(sk)'
  BY <1>b, <1>1, <1>4 DEF IInv, KeyOwned, Slot, Executing
<1>9. MessagesOwned'
  <2>1. \A c \in Requests : \A m \in messages[c] : m.by \in Requests
    BY <1>a DEF TypeOK, MessageRow
  <2> QED BY <1>b, <1>1, <1>3, <2>1 DEF IInv, MessagesOwned
<1>10. RepliesAgree'
  BY <1>b, <1>1, <1>4 DEF IInv, RepliesAgree
<1>11. SequencesContiguous' /\ \A c \in Requests : IsFiniteSet(messages'[c])
  BY <1>1 DEF IInv, SequencesContiguous, Numbers
<1> QED BY <1>5, <1>6, <1>7, <1>8, <1>9, <1>10, <1>11 DEF IInv

-----------------------------------------------------------------------------
\* The number read for a message, if it is free, is the next one: the insertion
\* leaves no gap, however many requests read the same maximum.
LEMMA InsertFrame ==
  ASSUME IInv, NEW r \in Requests, NEW role \in {"user", "assistant"},
         NEW conv \in Requests, conv = tx[r].conv,
         pc[r] \in {"user", "assistant"}, SequenceFree(conv, seqno[r]),
         InsertMessage(r, conv, role)
  PROVE  /\ messages' \in [Requests -> SUBSET MessageRow]
         /\ \A c \in Requests \ {conv} : messages'[c] = messages[c]
         /\ \A m \in messages'[conv] : m \in messages[conv] \/ m.by = r
         /\ \A c \in Requests : IsFiniteSet(messages'[c])
         /\ \A c \in Requests : Cardinality(messages[c]) \in Nat
         /\ \A c \in Requests : Cardinality(messages'[c]) \in Nat
         /\ \A c \in Requests : Cardinality(messages'[c]) >= Cardinality(messages[c])
         /\ SequencesContiguous'
<1>a. TypeOK /\ SequencesContiguous /\ NumberRead(r)
  BY DEF IInv
<1>b. \A c \in Requests : IsFiniteSet(messages[c])
  BY DEF IInv
<1>c. \A c \in Requests : Cardinality(messages[c]) \in Nat
  BY <1>b, FS_CardinalityType
<1> DEFINE old == messages[conv]
           row == [seq |-> seqno[r], role |-> role, by |-> r]
           n == Cardinality(old)
<1>1. messages' = [messages EXCEPT ![conv] = old \cup {row}]
  BY DEF InsertMessage
<1>2. row \in MessageRow /\ row.by = r /\ row.seq = seqno[r]
  BY <1>a DEF TypeOK, MessageRow
<1>3. /\ messages'[conv] = old \cup {row}
      /\ \A c \in Requests \ {conv} : messages'[c] = messages[c]
      /\ messages' \in [Requests -> SUBSET MessageRow]
  BY <1>a, <1>1, <1>2 DEF TypeOK
<1>4. Numbers(conv) = 1..n
  BY <1>a DEF SequencesContiguous
<1>5. seqno[r] = n + 1
  <2>1. seqno[r] \notin Numbers(conv)
    BY DEF SequenceFree, Numbers
  <2>2. seqno[r] \in 1..(n + 1)
    BY <1>a DEF NumberRead
  <2> QED BY <1>4, <2>1, <2>2, <1>c
<1>6. row \notin old
  BY <1>2 DEF SequenceFree
<1>7. IsFiniteSet(messages'[conv]) /\ Cardinality(messages'[conv]) = n + 1
  <2>1. IsFiniteSet(old)
    BY <1>b
  <2>2. IsFiniteSet(old \cup {row}) /\ Cardinality(old \cup {row}) = n + 1
    BY <1>6, <2>1, FS_AddElement
  <2> QED BY <1>3, <2>2
<1>8. Numbers(conv)' = 1..(n + 1)
  <2>1. Numbers(conv)' = Numbers(conv) \cup {seqno[r]}
    <3>1. Numbers(conv)' = {m.seq : m \in messages'[conv]}
      BY DEF Numbers
    <3>2. {m.seq : m \in old \cup {row}} = {m.seq : m \in old} \cup {row.seq}
      OBVIOUS
    <3> QED BY <1>2, <1>3, <3>1, <3>2 DEF Numbers
  <2> QED BY <1>4, <1>5, <2>1, <1>c
<1>9. SequencesContiguous'
  <2> SUFFICES ASSUME NEW c \in Requests PROVE Numbers(c)' = 1..Cardinality(messages'[c])
    BY DEF SequencesContiguous
  <2>1. CASE c = conv
    BY <1>7, <1>8, <2>1
  <2>2. CASE c # conv
    BY <1>a, <1>3, <2>2 DEF SequencesContiguous, Numbers
  <2> QED BY <2>1, <2>2
<1>10. \A m \in messages'[conv] : m \in old \/ m.by = r
  BY <1>2, <1>3
<1>11. \A c \in Requests : /\ IsFiniteSet(messages'[c])
                           /\ Cardinality(messages'[c]) \in Nat
                           /\ Cardinality(messages'[c]) >= Cardinality(messages[c])
  <2> SUFFICES ASSUME NEW c \in Requests
               PROVE  /\ IsFiniteSet(messages'[c])
                      /\ Cardinality(messages'[c]) \in Nat
                      /\ Cardinality(messages'[c]) >= Cardinality(messages[c])
    OBVIOUS
  <2>1. CASE c = conv
    BY <1>c, <1>7, <2>1
  <2>2. CASE c # conv
    BY <1>b, <1>c, <1>3, <2>2
  <2> QED BY <2>1, <2>2
<1> QED BY <1>c, <1>3, <1>9, <1>10, <1>11

\* What the other requests read stays within reach of the next number.
LEMMA InsertKeepsNumbers ==
  ASSUME IInv, NEW r \in Requests, NEW role \in {"user", "assistant"},
         pc[r] \in {"user", "assistant"}, tx[r].conv \in Requests,
         SequenceFree(tx[r].conv, seqno[r]), InsertMessage(r, tx[r].conv, role),
         UNCHANGED <<tx, seqno>>, \A q \in Requests \ {r} : pc'[q] = pc[q],
         pc'[r] \notin {"user", "assistant"}
  PROVE  \A q \in Requests : NumberRead(q)'
<1> SUFFICES ASSUME NEW q \in Requests, pc'[q] \in {"user", "assistant"}
             PROVE  seqno'[q] \in 1..(Cardinality(messages'[tx'[q].conv]) + 1)
  BY DEF NumberRead
<1>1. q # r /\ pc[q] = pc'[q] /\ NumberRead(q) /\ TxAgrees(q)
  BY DEF IInv
<1>2. tx[q].conv \in Requests
  BY <1>1, RowTypes DEF IInv, TxAgrees, Writing, Executing
<1>3. /\ Cardinality(messages[tx[q].conv]) \in Nat /\ Cardinality(messages'[tx[q].conv]) \in Nat
      /\ Cardinality(messages'[tx[q].conv]) >= Cardinality(messages[tx[q].conv])
  BY <1>2, InsertFrame
<1> QED BY <1>1, <1>3 DEF NumberRead

\* append_user_message: T1 commits with the message, or rolls back.
LEMMA AppendUserMessageStep ==
  ASSUME IInv, NEW r \in Requests, AppendUserMessage(r) PROVE IInv'
<1>a. TypeOK /\ TxAgrees(r) /\ OwnsRecord(r) /\ pc[r] = "user"
  BY DEF IInv, AppendUserMessage
<1>b. tx[r].conv \in Requests /\ "user" \in {"user", "assistant"}
  BY <1>a, RowTypes DEF TxAgrees, Writing
<1>1. CASE ~SequenceFree(tx[r].conv, seqno[r])
  BY <1>a, <1>1, QuietAnswer DEF AppendUserMessage, Codes, Owned, db, locals
<1>2. CASE SequenceFree(tx[r].conv, seqno[r])
  <2>1. /\ InsertMessage(r, tx[r].conv, "user") /\ CommitPreparation(r, "processing", "active")
        /\ Goto(r, "generate") /\ UNCHANGED <<tx, seqno, outcome, reply, ask>>
    BY <1>2 DEF AppendUserMessage, locals
  <2>2. /\ pc' \in [Requests -> Steps] /\ pc'[r] = "generate"
        /\ \A q \in Requests \ {r} : pc'[q] = pc[q]
    BY <1>a, <2>1, GotoFrame DEF TypeOK, Steps, Executing
  <2>3. /\ session' \in [Sessions -> SessionRow]
        /\ session'[Sess(r)].conv = tx[r].conv
        /\ record' \in [Sessions \X Keys -> RecordRow]
        /\ record'[Slot(r)].status = "processing" /\ record'[Slot(r)].owner = r
        /\ conversations' \subseteq Requests
    BY <1>a, <2>1, CommitFrame DEF Status
  <2>4. tx[r].conv = session[Sess(r)].conv \/ session[Sess(r)].conv = None
    BY <1>a DEF TxAgrees, Writing
  <2>5. /\ \A q \in Requests \ {r} : TxAgrees(q)' /\ OwnsRecord(q)'
        /\ \A sk \in Sessions \X Keys : KeyOwned(sk)'
        /\ \A c \in Requests : \A m \in messages[c] :
             /\ session'[Sess(m.by)].conv = c
             /\ record'[Slot(m.by)].status # "absent"
             /\ record'[Slot(m.by)].owner = m.by
        /\ RepliesAgree' /\ LockHeld' /\ lock' \in [Sessions -> Requests \cup {None}]
    <3>1. "processing" \in {"processing", "failed"} /\ "active" \in Status
          /\ pc[r] \in Owned \ {"begin"} /\ pc'[r] \in Executing \cup {"done"}
      BY <1>a, <2>2 DEF Status, Owned, Executing
    <3> QED BY <2>1, <2>2, <2>4, <3>1, CommitKeeps
  <2>6. /\ messages' \in [Requests -> SUBSET MessageRow]
        /\ \A c \in Requests \ {tx[r].conv} : messages'[c] = messages[c]
        /\ \A m \in messages'[tx[r].conv] : m \in messages[tx[r].conv] \/ m.by = r
        /\ \A c \in Requests : IsFiniteSet(messages'[c])
        /\ SequencesContiguous'
    BY <1>a, <1>b, <1>2, <2>1, InsertFrame
  <2>7. MessagesOwned'
    <3> SUFFICES ASSUME NEW c \in Requests, NEW m \in messages'[c]
                 PROVE  /\ session'[Sess(m.by)].conv = c
                        /\ record'[Slot(m.by)].status # "absent"
                        /\ record'[Slot(m.by)].owner = m.by
      BY <2>1 DEF MessagesOwned, Sess, Slot
    <3>1. CASE m \in messages[c]
      BY <2>5, <3>1
    <3>2. CASE m \notin messages[c]
      <4>1. c = tx[r].conv /\ m.by = r
        BY <2>6, <3>2
      <4> QED BY <2>3, <4>1
    <3> QED BY <3>1, <3>2
  <2>8. TxAgrees(r)' /\ OwnsRecord(r)'
    BY <1>b, <2>1, <2>2, <2>3, MessagesAssumption
    DEF TxAgrees, OwnsRecord, Writing, Charged, Owned, Executing, Sess, Slot
  <2>9. \A q \in Requests : NumberRead(q)'
    BY <1>a, <1>b, <1>2, <2>1, <2>2, InsertKeepsNumbers
  <2>10. TypeOK'
    BY <1>a, <2>1, <2>2, <2>3, <2>5, <2>6 DEF TypeOK
  <2> QED BY <2>5, <2>6, <2>7, <2>8, <2>9, <2>10 DEF IInv
<1> QED BY <1>1, <1>2

\* append_assistant_message: stored in the owner's conversation, or refused.
LEMMA AppendAssistantMessageStep ==
  ASSUME IInv, NEW r \in Requests, AppendAssistantMessage(r) PROVE IInv'
<1>a. TypeOK /\ LockHeld /\ TxAgrees(r) /\ OwnsRecord(r) /\ pc[r] = "assistant"
  BY DEF IInv, AppendAssistantMessage
<1>b. tx[r].conv \in Requests /\ "assistant" \in {"user", "assistant"}
  BY <1>a, RowTypes DEF TxAgrees, Executing
<1>1. CASE ~SequenceFree(tx[r].conv, seqno[r])
  BY <1>a, <1>1, QuietAnswer DEF AppendAssistantMessage, Codes, Owned, locals
<1>2. CASE SequenceFree(tx[r].conv, seqno[r])
  <2>1. /\ InsertMessage(r, tx[r].conv, "assistant")
        /\ UNCHANGED <<session, record, conversations, lock, tx, seqno, outcome, reply, ask>>
    BY <1>2 DEF AppendAssistantMessage, locals
  <2>2. /\ pc' \in [Requests -> Steps] /\ pc'[r] \in {"cite", "fail"}
        /\ \A q \in Requests \ {r} : pc'[q] = pc[q]
    BY <1>a, <1>2, GotoFrame DEF AppendAssistantMessage, TypeOK, Steps, Executing
  <2>3. /\ messages' \in [Requests -> SUBSET MessageRow]
        /\ \A c \in Requests \ {tx[r].conv} : messages'[c] = messages[c]
        /\ \A m \in messages'[tx[r].conv] : m \in messages[tx[r].conv] \/ m.by = r
        /\ \A c \in Requests : IsFiniteSet(messages'[c])
        /\ SequencesContiguous'
    BY <1>a, <1>b, <1>2, <2>1, InsertFrame
  <2>4. TypeOK'
    BY <1>a, <2>1, <2>2, <2>3 DEF TypeOK
  <2>5. LockHeld'
    BY <1>a, <2>1, <2>2, LockKept DEF Owned
  <2>6. \A q \in Requests : TxAgrees(q)' /\ OwnsRecord(q)'
    <3> SUFFICES ASSUME NEW q \in Requests PROVE TxAgrees(q)' /\ OwnsRecord(q)'
      OBVIOUS
    <3>1. CASE q = r
      BY <1>a, <2>1, <2>2, <3>1
      DEF TxAgrees, OwnsRecord, Writing, Charged, Owned, Executing, Sess, Slot
    <3>2. CASE q # r
      BY <2>1, <2>2, <3>2 DEF IInv, TxAgrees, OwnsRecord, Sess, Slot
    <3> QED BY <3>1, <3>2
  <2>7. \A q \in Requests : NumberRead(q)'
    BY <1>a, <1>b, <1>2, <2>1, <2>2, InsertKeepsNumbers
  <2>8. \A sk \in Sessions \X Keys : KeyOwned(sk)'
    BY <1>a, <2>1, <2>2 DEF IInv, KeyOwned, Slot, Executing
  <2>9. MessagesOwned'
    <3> SUFFICES ASSUME NEW c \in Requests, NEW m \in messages'[c]
                 PROVE  /\ session[Sess(m.by)].conv = c
                        /\ record[Slot(m.by)].status # "absent"
                        /\ record[Slot(m.by)].owner = m.by
      BY <2>1 DEF MessagesOwned, Sess, Slot
    <3>1. CASE m \in messages[c]
      BY <3>1 DEF IInv, MessagesOwned
    <3>2. CASE m \notin messages[c]
      <4>1. c = tx[r].conv /\ m.by = r
        BY <2>3, <3>2
      <4> QED BY <1>a, <4>1 DEF TxAgrees, OwnsRecord, Executing
    <3> QED BY <3>1, <3>2
  <2>10. RepliesAgree'
    BY <2>1 DEF IInv, RepliesAgree, Slot
  <2> QED BY <2>3, <2>4, <2>5, <2>6, <2>7, <2>8, <2>9, <2>10 DEF IInv
<1> QED BY <1>1, <1>2

-----------------------------------------------------------------------------
\* What settling a record does: its status alone changes.
LEMMA SettleFrame ==
  ASSUME TypeOK, NEW r \in Requests, NEW st \in {"completed", "failed"}, SettleRecord(r, st)
  PROVE  /\ record' \in [Sessions \X Keys -> RecordRow]
         /\ record'[Slot(r)].status = st
         /\ record'[Slot(r)].body = record[Slot(r)].body
         /\ record'[Slot(r)].owner = record[Slot(r)].owner
         /\ record'[Slot(r)].slot = record[Slot(r)].slot
         /\ \A sk \in (Sessions \X Keys) \ {Slot(r)} : record'[sk] = record[sk]
<1> DEFINE old == record[Slot(r)]
           new == [status |-> st, body |-> old.body, owner |-> old.owner, slot |-> old.slot]
<1>1. Slot(r) \in Sessions \X Keys /\ old \in RecordRow
  BY RowTypes
<1>2. new \in RecordRow
  BY <1>1 DEF RecordRow
<1>3. record' = [record EXCEPT ![Slot(r)] = new]
  BY DEF SettleRecord
<1>4. /\ record' \in [Sessions \X Keys -> RecordRow] /\ record'[Slot(r)] = new
      /\ \A sk \in (Sessions \X Keys) \ {Slot(r)} : record'[sk] = record[sk]
  BY <1>1, <1>2, <1>3 DEF TypeOK
<1> QED BY <1>4

\* The owner settles its record and answers.
LEMMA SettleStep ==
  ASSUME IInv, NEW r \in Requests, pc[r] \in {"fail", "finish"},
         NEW st \in {"completed", "failed"}, SettleRecord(r, st),
         NEW code \in Codes, NEW by \in Requests \cup {None}, Answer(r, code, by),
         code = "ok" => st = "completed" /\ by = r,
         UNCHANGED <<session, conversations, messages, lock, tx, seqno, outcome, ask>>
  PROVE  IInv'
<1>a. TypeOK /\ LockHeld /\ OwnsRecord(r)
  BY DEF IInv
<1>b. \A q \in Requests : Slot(q) \in Sessions \X Keys /\ Slot(q)' = Slot(q) /\ Sess(q)' = Sess(q)
  BY <1>a, RowTypes DEF Slot, Sess
<1>1. /\ record' \in [Sessions \X Keys -> RecordRow]
      /\ record'[Slot(r)].status = st
      /\ record'[Slot(r)].body = record[Slot(r)].body
      /\ record'[Slot(r)].owner = record[Slot(r)].owner
      /\ \A sk \in (Sessions \X Keys) \ {Slot(r)} : record'[sk] = record[sk]
  BY <1>a, SettleFrame
<1>2. /\ pc' \in [Requests -> Steps] /\ pc'[r] = "done"
      /\ \A q \in Requests \ {r} : pc'[q] = pc[q] /\ reply'[q] = reply[q]
      /\ reply' \in [Requests -> Response]
      /\ reply'[r].code = code /\ reply'[r].by = by
  BY <1>a, AnswerFrame DEF TypeOK
<1>3. record[Slot(r)].status = "processing" /\ record[Slot(r)].owner = r
  BY <1>a DEF OwnsRecord, Executing
<1>4. TypeOK'
  BY <1>a, <1>1, <1>2 DEF TypeOK
<1>5. LockHeld'
  BY <1>a, <1>2, LockKept DEF Owned
<1>6. \A q \in Requests : TxAgrees(q)' /\ OwnsRecord(q)' /\ NumberRead(q)'
  <2> SUFFICES ASSUME NEW q \in Requests PROVE TxAgrees(q)' /\ OwnsRecord(q)' /\ NumberRead(q)'
    OBVIOUS
  <2>1. CASE q = r
    BY <1>2, <2>1 DEF TxAgrees, OwnsRecord, NumberRead, Writing, Charged, Owned, Executing
  <2>2. CASE q # r
    <3>1. pc'[q] = pc[q] /\ TxAgrees(q) /\ OwnsRecord(q) /\ NumberRead(q)
      BY <1>2, <2>2 DEF IInv
    <3>2. TxAgrees(q)' /\ NumberRead(q)'
      BY <1>b, <3>1 DEF TxAgrees, NumberRead
    <3>3. OwnsRecord(q)'
      BY <1>b, <1>1, <1>3, <2>2, <3>1 DEF OwnsRecord, NoRecord
    <3> QED BY <3>2, <3>3
  <2> QED BY <2>1, <2>2
<1>7. \A sk \in Sessions \X Keys : KeyOwned(sk)'
  <2> SUFFICES ASSUME NEW sk \in Sessions \X Keys PROVE KeyOwned(sk)'
    OBVIOUS
  <2>1. KeyOwned(sk)
    BY DEF IInv
  <2>2. CASE sk = Slot(r)
    <3>1. /\ record[sk].body = ask[r].body /\ Slot(r) = sk
          /\ record[sk].owner = r
      BY <1>3, <2>1, <2>2 DEF KeyOwned, NoRecord
    <3> QED BY <1>b, <1>1, <1>2, <2>2, <3>1 DEF KeyOwned
  <2>3. CASE sk # Slot(r)
    BY <1>b, <1>1, <1>2, <2>1, <2>3 DEF KeyOwned
  <2> QED BY <2>2, <2>3
<1>8. MessagesOwned'
  <2>1. \A c \in Requests : \A m \in messages[c] : m.by \in Requests
    BY <1>a DEF TypeOK, MessageRow
  <2> QED BY <1>b, <1>1, <2>1 DEF IInv, MessagesOwned
<1>9. RepliesAgree'
  <2> SUFFICES ASSUME NEW q \in Requests, reply'[q].code = "ok"
               PROVE  /\ record'[Slot(q)].status = "completed"
                      /\ reply'[q].by = record'[Slot(q)].owner
                      /\ ask[reply'[q].by] = ask[q]
    BY <1>b DEF RepliesAgree
  <2>1. CASE q = r
    BY <1>1, <1>2, <1>3, <2>1
  <2>2. CASE q # r
    BY <1>b, <1>1, <1>2, <1>3, <2>2 DEF IInv, RepliesAgree
  <2> QED BY <2>1, <2>2
<1>10. SequencesContiguous' /\ \A c \in Requests : IsFiniteSet(messages'[c])
  BY DEF IInv, SequencesContiguous, Numbers
<1> QED BY <1>4, <1>5, <1>6, <1>7, <1>8, <1>9, <1>10 DEF IInv

\* transition_processing_to_failed by the owner of the record.
LEMMA MarkFailedStep == ASSUME IInv, NEW r \in Requests, MarkFailed(r) PROVE IInv'
<1>1. pc[r] = "fail" /\ OwnsRecord(r)
  BY DEF MarkFailed, IInv
<1>2. SettleRecord(r, "failed")
  BY <1>1 DEF MarkFailed, OwnsRecord, Executing
<1> QED BY <1>1, <1>2, SettleStep DEF MarkFailed, Codes, locals

\* transition_processing_to_completed by the owner of the record, and its refusals.
LEMMA CompleteStep == ASSUME IInv, NEW r \in Requests, Complete(r) PROVE IInv'
<1>1. pc[r] = "finish" /\ UNCHANGED <<session, conversations, messages, lock, tx, seqno, outcome, ask>>
  BY DEF Complete, locals
<1>2. CASE SettleRecord(r, "completed") /\ Answer(r, "ok", r)
  BY <1>1, <1>2, SettleStep DEF Codes
<1>3. CASE \E code \in {"unavailable", "internal"} : Answer(r, code, None) /\ UNCHANGED record
  <2>1. PICK code \in {"unavailable", "internal"} : Answer(r, code, None) /\ UNCHANGED record
    BY <1>3
  <2>2. code \in Codes /\ code # "ok" /\ pc[r] \notin Owned
    BY <1>1 DEF Codes, Owned
  <2> QED BY <1>1, <2>1, <2>2, QuietAnswer
<1> QED BY <1>2, <1>3 DEF Complete

-----------------------------------------------------------------------------
\* The empty database satisfies the invariant.
LEMMA InitIInv == Init => IInv
<1> SUFFICES ASSUME Init PROVE IInv
  OBVIOUS
<1>1. TypeOK
  <2>1. [status |-> "active", count |-> 0, conv |-> None] \in SessionRow
    BY DEF SessionRow, Status
  <2>2. NoRecord \in RecordRow
    BY DEF NoRecord, RecordRow
  <2>3. NoTx \in TxState /\ [code |-> "none", by |-> None] \in Response /\ "idle" \in Steps
    BY DEF NoTx, TxState, Response, Codes, Steps
  <2> QED BY <2>1, <2>2, <2>3 DEF Init, TypeOK
<1>2. \A q \in Requests : ask[q].session \in Sessions /\ ask[q].key \in Keys
  BY <1>1 DEF TypeOK, Question
<1>3. LockHeld
  BY <1>2, MessagesAssumption DEF Init, LockHeld, Owned, Sess
<1>4. \A q \in Requests : TxAgrees(q) /\ OwnsRecord(q) /\ NumberRead(q)
  BY DEF Init, TxAgrees, OwnsRecord, NumberRead, Writing, Charged, Owned, Executing
<1>5. \A sk \in Sessions \X Keys : KeyOwned(sk)
  BY DEF Init, KeyOwned
<1>6. MessagesOwned /\ RepliesAgree
  BY DEF Init, MessagesOwned, RepliesAgree
<1>7. SequencesContiguous /\ \A c \in Requests : IsFiniteSet(messages[c])
  <2> SUFFICES ASSUME NEW c \in Requests
               PROVE  Numbers(c) = 1..Cardinality(messages[c]) /\ IsFiniteSet(messages[c])
    BY DEF SequencesContiguous
  <2>1. messages[c] = {} /\ Cardinality({}) = 0 /\ IsFiniteSet({})
    BY FS_EmptySet DEF Init
  <2> QED BY <2>1 DEF Numbers
<1> QED BY <1>1, <1>3, <1>4, <1>5, <1>6, <1>7 DEF IInv

\* A step that changes nothing keeps the invariant.
LEMMA StutterIInv == ASSUME IInv, UNCHANGED vars PROVE IInv'
<1>1. UNCHANGED <<session, record, conversations, messages, lock, pc, tx, seqno, outcome, reply, ask>>
  BY DEF vars, db, locals
<1>2. TypeOK' /\ LockHeld'
  BY <1>1 DEF IInv, TypeOK, LockHeld, Sess
<1>3. \A q \in Requests : TxAgrees(q)' /\ OwnsRecord(q)' /\ NumberRead(q)'
  BY <1>1 DEF IInv, TxAgrees, OwnsRecord, NumberRead, Sess, Slot
<1>4. \A sk \in Sessions \X Keys : KeyOwned(sk)'
  BY <1>1 DEF IInv, KeyOwned, Slot
<1>5. MessagesOwned' /\ RepliesAgree'
  BY <1>1 DEF IInv, MessagesOwned, RepliesAgree, Sess, Slot
<1>6. SequencesContiguous' /\ \A c \in Requests : IsFiniteSet(messages'[c])
  BY <1>1 DEF IInv, SequencesContiguous, Numbers
<1> QED BY <1>2, <1>3, <1>4, <1>5, <1>6 DEF IInv

\* Every step keeps the invariant.
LEMMA NextIInv == ASSUME IInv, [Next]_vars PROVE IInv'
<1>1. ASSUME NEW r \in Requests, Step(r) PROVE IInv'
  BY <1>1, ExpireStep, LockStep, BeginRequestStep, ResolveConversationStep, ConsumeSlotStep,
     SecureStep, ReadSequenceStep, AppendUserMessageStep, GenerateStep,
     AppendAssistantMessageStep, MarkFailedStep, AttachCitationsStep, CompleteStep DEF Step
<1> QED BY <1>1, ValidateStep, CrashStep, StutterIInv DEF Next, Finished

\* The inductive invariant holds in every reachable state.
THEOREM Invariance == Spec => []IInv
<1>1. Init => IInv
  BY InitIInv
<1>2. IInv /\ [Next]_vars => IInv'
  BY NextIInv
<1> QED BY <1>1, <1>2, PTL DEF Spec

\* The rows and local states keep their shapes in every reachable state.
THEOREM TypeCorrect == Spec => []TypeOK
<1>1. IInv => TypeOK
  BY DEF IInv
<1> QED BY <1>1, Invariance, PTL

\* Of all the requests that carry one key of one session, one at most stores a user
\* message: the idempotency promise of begin_request, for any number of requests,
\* sessions, keys and bodies.
THEOREM AtMostOnce == Spec => []AtMostOncePerKey
<1>1. IInv => AtMostOncePerKey
  BY DEF IInv, MessagesOwned, AtMostOncePerKey, Admitted
<1> QED BY <1>1, Invariance, PTL

\* Every 200 for a key carries the answer of the key's owner, generated for the same
\* body: what resolve_duplicate replays.
THEOREM Agreement == Spec => []RepliesAgree
<1>1. IInv => RepliesAgree
  BY DEF IInv
<1> QED BY <1>1, Invariance, PTL

\* Concurrent appends with next_sequence_number leave neither gap nor repetition.
THEOREM Contiguity == Spec => []SequencesContiguous
<1>1. IInv => SequencesContiguous
  BY DEF IInv
<1> QED BY <1>1, Invariance, PTL

-----------------------------------------------------------------------------
\* Rows change in four ways only: T1 of a request commits, its owner settles a
\* record, a session expires, a message is inserted.
LEMMA RowsStep ==
  ASSUME IInv, [Next]_vars
  PROVE  \/ UNCHANGED <<session, record, conversations>>
         \/ \E r \in Requests :
              /\ UNCHANGED <<tx, ask>> /\ pc[r] \in Owned \ {"begin"} /\ record[Slot(r)] = NoRecord
              /\ \/ tx[r].conv = session[Sess(r)].conv /\ ~tx[r].made
                 \/ session[Sess(r)].conv = None /\ tx[r].conv = r /\ tx[r].made
              /\ \E rs \in {"processing", "failed"}, ss \in Status : CommitPreparation(r, rs, ss)
         \/ \E r \in Requests :
              /\ UNCHANGED <<session, conversations>> /\ record[Slot(r)].status = "processing"
              /\ SettleRecord(r, "completed") \/ SettleRecord(r, "failed")
         \/ /\ UNCHANGED <<record, conversations>>
            /\ \A s \in Sessions : /\ session'[s].conv = session[s].conv
                                   /\ session'[s].count = session[s].count
<1>a. TypeOK /\ \A r \in Requests : TxAgrees(r) /\ OwnsRecord(r)
  BY DEF IInv
<1> DEFINE Commits(r) ==
      /\ UNCHANGED <<tx, ask>> /\ pc[r] \in Owned \ {"begin"} /\ record[Slot(r)] = NoRecord
      /\ \/ tx[r].conv = session[Sess(r)].conv /\ ~tx[r].made
         \/ session[Sess(r)].conv = None /\ tx[r].conv = r /\ tx[r].made
      /\ \E rs \in {"processing", "failed"}, ss \in Status : CommitPreparation(r, rs, ss)
<1>1. ASSUME NEW r \in Requests, pc[r] \in Writing \cup {"resolve"},
             pc[r] = "resolve" => tx[r].conv = session[Sess(r)].conv,
             NEW code, NEW ss \in Status, Refuse(r, code, ss)
      PROVE  Commits(r)
  <2>1. TxAgrees(r) /\ OwnsRecord(r) /\ pc[r] \in Owned \ {"begin"}
    BY <1>a, <1>1 DEF Writing, Owned
  <2>2. record[Slot(r)] = NoRecord
    BY <2>1 DEF OwnsRecord
  <2>3. \/ tx[r].conv = session[Sess(r)].conv /\ ~tx[r].made
        \/ session[Sess(r)].conv = None /\ tx[r].conv = r /\ tx[r].made
    BY <1>a, <1>1, <2>1, RowTypes DEF TxAgrees
  <2> QED BY <1>1, <2>1, <2>2, <2>3 DEF Refuse, locals
<1>2. ASSUME NEW r \in Requests, ResolveConversation(r)
      PROVE  UNCHANGED <<session, record, conversations>> \/ Commits(r)
  <2>1. session[Sess(r)].status \in Status /\ pc[r] = "resolve"
    BY <1>a, <1>2, RowTypes DEF ResolveConversation
  <2> QED BY <1>1, <1>2, <2>1 DEF ResolveConversation, db
<1>3. ASSUME NEW r \in Requests, ConsumeSlot(r)
      PROVE  UNCHANGED <<session, record, conversations>> \/ Commits(r)
  <2>1. session[Sess(r)].status \in Status /\ pc[r] = "slot"
    BY <1>a, <1>3, RowTypes DEF ConsumeSlot
  <2> QED BY <1>1, <1>3, <2>1 DEF ConsumeSlot, db, Writing
<1>4. ASSUME NEW r \in Requests, Secure(r)
      PROVE  UNCHANGED <<session, record, conversations>> \/ Commits(r)
  <2>1. pc[r] = "secure" /\ "active" \in Status /\ "blocked" \in Status
    BY <1>4 DEF Secure, Status
  <2> QED BY <1>1, <1>4, <2>1 DEF Secure, db, Writing
<1>5. ASSUME NEW r \in Requests, AppendUserMessage(r)
      PROVE  UNCHANGED <<session, record, conversations>> \/ Commits(r)
  <2>1. TxAgrees(r) /\ OwnsRecord(r) /\ pc[r] = "user"
    BY <1>a, <1>5 DEF AppendUserMessage
  <2>2. record[Slot(r)] = NoRecord /\ pc[r] \in Owned \ {"begin"}
    BY <2>1 DEF OwnsRecord, Owned
  <2>3. \/ tx[r].conv = session[Sess(r)].conv /\ ~tx[r].made
        \/ session[Sess(r)].conv = None /\ tx[r].conv = r /\ tx[r].made
    BY <1>a, <2>1, RowTypes DEF TxAgrees, Writing
  <2> QED BY <1>5, <2>2, <2>3 DEF AppendUserMessage, db, locals, Status
<1>6. ASSUME NEW r \in Requests, Expire(r)
      PROVE  /\ UNCHANGED <<record, conversations>>
             /\ \A s \in Sessions : /\ session'[s].conv = session[s].conv
                                    /\ session'[s].count = session[s].count
  <2>1. Sess(r) \in Sessions /\ session \in [Sessions -> SessionRow]
    BY <1>a, RowTypes DEF TypeOK
  <2> QED BY <1>6, <2>1 DEF Expire
<1>7. ASSUME NEW r \in Requests, Complete(r)
      PROVE  \/ UNCHANGED <<session, record, conversations>>
             \/ /\ UNCHANGED <<session, conversations>> /\ record[Slot(r)].status = "processing"
                /\ SettleRecord(r, "completed")
  BY <1>7 DEF Complete
<1>8. ASSUME NEW r \in Requests, MarkFailed(r)
      PROVE  \/ UNCHANGED <<session, record, conversations>>
             \/ /\ UNCHANGED <<session, conversations>> /\ record[Slot(r)].status = "processing"
                /\ SettleRecord(r, "failed")
  BY <1>8 DEF MarkFailed
<1>9. ASSUME NEW r \in Requests,
             \/ Validate(r) \/ Lock(r) \/ BeginRequest(r) \/ ReadUserSequence(r) \/ Generate(r)
             \/ ReadAssistantSequence(r) \/ AppendAssistantMessage(r) \/ AttachCitations(r) \/ Crash(r)
      PROVE  UNCHANGED <<session, record, conversations>>
  BY <1>9 DEF Validate, Lock, BeginRequest, ReadUserSequence, Generate, ReadAssistantSequence,
              AppendAssistantMessage, AttachCitations, Crash, db
<1>10. CASE UNCHANGED vars \/ Finished
  BY <1>10 DEF vars, db, Finished
<1> QED BY <1>2, <1>3, <1>4, <1>5, <1>6, <1>7, <1>8, <1>9, <1>10 DEF Next, Step

\* A record is claimed once and settles once, keeping its owner, body and charge:
\* the WHERE clauses of the record transitions.
THEOREM Lifecycle == Spec => [][SettlesOnce]_vars
<1>1. ASSUME IInv, [Next]_vars, NEW s \in Sessions, NEW k \in Keys, record[<<s, k>>] # record'[<<s, k>>]
      PROVE  \/ record[<<s, k>>].status = "absent" /\ record'[<<s, k>>].status \in {"processing", "failed"}
             \/ /\ record[<<s, k>>].status = "processing"
                /\ record'[<<s, k>>].status \in {"completed", "failed"}
                /\ record'[<<s, k>>] = [record[<<s, k>>] EXCEPT !.status = record'[<<s, k>>].status]
  <2> DEFINE sk == <<s, k>>
  <2>a. TypeOK
    BY <1>1 DEF IInv
  <2>b. sk \in Sessions \X Keys /\ record[sk] # record'[sk]
    BY <1>1
  <2>1. CASE \E r \in Requests : record[Slot(r)] = NoRecord
               /\ \E rs \in {"processing", "failed"}, ss \in Status : CommitPreparation(r, rs, ss)
    <3>1. PICK r \in Requests, rs \in {"processing", "failed"}, ss \in Status :
               record[Slot(r)] = NoRecord /\ CommitPreparation(r, rs, ss)
      BY <2>1
    <3>2. /\ record'[Slot(r)].status = rs
          /\ \A x \in (Sessions \X Keys) \ {Slot(r)} : record'[x] = record[x]
      BY <2>a, <3>1, CommitFrame
    <3>3. sk = Slot(r)
      BY <2>b, <3>2
    <3> QED BY <3>1, <3>2, <3>3 DEF NoRecord
  <2>2. CASE \E r \in Requests : record[Slot(r)].status = "processing"
               /\ (SettleRecord(r, "completed") \/ SettleRecord(r, "failed"))
    <3>1. PICK r \in Requests, st \in {"completed", "failed"} :
               record[Slot(r)].status = "processing" /\ SettleRecord(r, st)
      BY <2>2
    <3>2. /\ record' \in [Sessions \X Keys -> RecordRow]
          /\ record'[Slot(r)].status = st
          /\ record'[Slot(r)].body = record[Slot(r)].body
          /\ record'[Slot(r)].owner = record[Slot(r)].owner
          /\ record'[Slot(r)].slot = record[Slot(r)].slot
          /\ \A x \in (Sessions \X Keys) \ {Slot(r)} : record'[x] = record[x]
      BY <2>a, <3>1, SettleFrame
    <3>3. sk = Slot(r)
      BY <2>b, <3>2
    <3>4. record[sk] \in RecordRow /\ record'[sk] \in RecordRow
      BY <2>a, <2>b, <3>2 DEF TypeOK
    <3>5. record'[sk] = [record[sk] EXCEPT !.status = st]
      BY <3>2, <3>3, <3>4 DEF RecordRow
    <3> QED BY <3>1, <3>2, <3>3, <3>5
  <2>3. CASE UNCHANGED record
    BY <2>b, <2>3
  <2> QED BY <1>1, <2>1, <2>2, <2>3, RowsStep
<1>2. IInv /\ [Next]_vars => [SettlesOnce]_vars
  BY <1>1 DEF SettlesOnce
<1> QED BY <1>2, Invariance, PTL DEF Spec

\* A T1 that holds a slot holds the lock of an active session with a slot left.
LEMMA CommitCharges ==
  ASSUME IInv, NEW r \in Requests, pc[r] \in Owned \ {"begin"}, tx[r].slot
  PROVE  session[Sess(r)].status = "active" /\ session[Sess(r)].count < MaxMessages
<1>1. TxAgrees(r)
  BY DEF IInv
<1> QED BY <1>1 DEF TxAgrees, Owned, Writing, Charged

\* atomically_increment_message_count never charges a session that is not active,
\* and charges one slot at a time.
THEOREM ChargesOnlyActive == Spec => [][ChargesWhileActive]_vars
<1>1. ASSUME IInv, [Next]_vars, NEW s \in Sessions, session[s].count # session'[s].count
      PROVE  session[s].status = "active" /\ session'[s].count = session[s].count + 1
  <2>a. TypeOK
    BY <1>1 DEF IInv
  <2>1. CASE \E r \in Requests : pc[r] \in Owned \ {"begin"}
               /\ \E rs \in {"processing", "failed"}, ss \in Status : CommitPreparation(r, rs, ss)
    <3>1. PICK r \in Requests, rs \in {"processing", "failed"}, ss \in Status :
               pc[r] \in Owned \ {"begin"} /\ CommitPreparation(r, rs, ss)
      BY <2>1
    <3>2. /\ session'[Sess(r)].count = session[Sess(r)].count + (IF tx[r].slot THEN 1 ELSE 0)
          /\ \A x \in Sessions \ {Sess(r)} : session'[x] = session[x]
          /\ session[Sess(r)].count \in Nat
      BY <2>a, <3>1, CommitFrame, RowTypes
    <3>3. s = Sess(r) /\ tx[r].slot
      BY <1>1, <3>2
    <3> QED BY <1>1, <3>1, <3>2, <3>3, CommitCharges
  <2>2. CASE UNCHANGED session \/ \A x \in Sessions : session'[x].count = session[x].count
    BY <1>1, <2>2
  <2> QED BY <1>1, <2>1, <2>2, RowsStep
<1>2. IInv /\ [Next]_vars => [ChargesWhileActive]_vars
  BY <1>1 DEF ChargesWhileActive
<1> QED BY <1>2, Invariance, PTL DEF Spec

\* No conversation row is orphaned.
ConversationsAttached == \A c \in conversations : \E s \in Sessions : session[s].conv = c

\* attach_conversation_once: all messages of a session are in its conversation and no
\* conversation row is left without a session.
THEOREM Conversation == Spec => []OneConversation
<1>1. Init => ConversationsAttached
  BY DEF Init, ConversationsAttached
<1>2. IInv /\ ConversationsAttached /\ [Next]_vars => ConversationsAttached'
  <2> SUFFICES ASSUME IInv, ConversationsAttached, [Next]_vars PROVE ConversationsAttached'
    OBVIOUS
  <2>a. TypeOK
    BY DEF IInv
  <2>1. CASE \E r \in Requests :
               /\ \/ tx[r].conv = session[Sess(r)].conv /\ ~tx[r].made
                  \/ session[Sess(r)].conv = None /\ tx[r].conv = r /\ tx[r].made
               /\ \E rs \in {"processing", "failed"}, ss \in Status : CommitPreparation(r, rs, ss)
    <3>1. PICK r \in Requests, rs \in {"processing", "failed"}, ss \in Status :
            /\ \/ tx[r].conv = session[Sess(r)].conv /\ ~tx[r].made
               \/ session[Sess(r)].conv = None /\ tx[r].conv = r /\ tx[r].made
            /\ CommitPreparation(r, rs, ss)
      BY <2>1
    <3>2. /\ session'[Sess(r)].conv = tx[r].conv /\ Sess(r) \in Sessions
          /\ \A x \in Sessions \ {Sess(r)} : session'[x] = session[x]
      BY <2>a, <3>1, CommitFrame, RowTypes
    <3>3. conversations' = IF tx[r].made THEN conversations \cup {r} ELSE conversations
      BY <3>1 DEF CommitPreparation
    <3>4. \A c \in conversations : c # None
      BY <2>a, MessagesAssumption DEF TypeOK
    <3> QED BY <3>1, <3>2, <3>3, <3>4 DEF ConversationsAttached
  <2>2. CASE UNCHANGED conversations /\ \A s \in Sessions : session'[s].conv = session[s].conv
    BY <2>2 DEF ConversationsAttached
  <2> QED BY <2>1, <2>2, RowsStep
<1>3. IInv /\ ConversationsAttached => OneConversation
  BY DEF IInv, MessagesOwned, ConversationsAttached, OneConversation
<1> QED BY <1>1, <1>2, <1>3, Invariance, PTL DEF Spec

\* create_message, next_sequence_number and attach_conversation_once together: a
\* session has one conversation, numbered 1..n.
THEOREM Wholeness == Spec => []ConversationWhole
<1>1. OneConversation /\ SequencesContiguous => ConversationWhole
  BY DEF ConversationWhole
<1> QED BY <1>1, Conversation, Contiguity, PTL

\* atomically_increment_message_count and the record's transitions: no step of any
\* request charges a session that is not active or takes a record backwards.
THEOREM Advance == Spec => ChargesAndRecordsAdvance
<1>1. [ChargesWhileActive]_vars /\ [SettlesOnce]_vars => [ChargesWhileActive /\ SettlesOnce]_vars
  OBVIOUS
<1> QED BY <1>1, ChargesOnlyActive, Lifecycle, PTL DEF ChargesAndRecordsAdvance

-----------------------------------------------------------------------------
ChargedKeys(s) == {k \in Keys : record[<<s, k>>].slot}

Slots ==
  \A s \in Sessions :
    /\ IsFiniteSet(ChargedKeys(s))
    /\ session[s].count = Cardinality(ChargedKeys(s))
    /\ session[s].count <= MaxMessages

\* message_count is the number of charged keys and never passes the maximum.
THEOREM Accounting == Spec => []SlotsAccounted
<1>1. Init => Slots
  <2> SUFFICES ASSUME Init, NEW s \in Sessions
               PROVE  /\ IsFiniteSet(ChargedKeys(s))
                      /\ session[s].count = Cardinality(ChargedKeys(s))
                      /\ session[s].count <= MaxMessages
    BY DEF Slots
  <2>1. ChargedKeys(s) = {}
    BY DEF Init, ChargedKeys, NoRecord
  <2>2. session[s].count = 0
    BY DEF Init
  <2> QED BY <2>1, <2>2, FS_EmptySet, MessagesAssumption
<1>2. IInv /\ Slots /\ [Next]_vars => Slots'
  <2> SUFFICES ASSUME IInv, Slots, [Next]_vars PROVE Slots'
    OBVIOUS
  <2>a. TypeOK
    BY DEF IInv
  <2>1. CASE \E r \in Requests : /\ pc[r] \in Owned \ {"begin"} /\ record[Slot(r)] = NoRecord
               /\ \E rs \in {"processing", "failed"}, ss \in Status : CommitPreparation(r, rs, ss)
    <3>1. PICK r \in Requests, rs \in {"processing", "failed"}, ss \in Status :
            pc[r] \in Owned \ {"begin"} /\ record[Slot(r)] = NoRecord /\ CommitPreparation(r, rs, ss)
      BY <2>1
    <3>2. /\ session'[Sess(r)].count = session[Sess(r)].count + (IF tx[r].slot THEN 1 ELSE 0)
          /\ \A x \in Sessions \ {Sess(r)} : session'[x] = session[x]
          /\ record'[Slot(r)].slot = tx[r].slot
          /\ \A sk \in (Sessions \X Keys) \ {Slot(r)} : record'[sk] = record[sk]
      BY <2>a, <3>1, CommitFrame
    <3>3. /\ Sess(r) \in Sessions /\ ask[r].key \in Keys /\ Slot(r) = <<Sess(r), ask[r].key>>
          /\ session[Sess(r)].count \in Nat /\ tx[r].slot \in BOOLEAN
      BY <2>a, RowTypes DEF TypeOK, Question, Slot, Sess
    <3>4. ask[r].key \notin ChargedKeys(Sess(r))
      BY <3>1, <3>3 DEF ChargedKeys, NoRecord
    <3> SUFFICES ASSUME NEW s \in Sessions
                 PROVE  /\ IsFiniteSet(ChargedKeys(s)')
                        /\ session'[s].count = Cardinality(ChargedKeys(s)')
                        /\ session'[s].count <= MaxMessages
      BY DEF Slots
    <3>5. /\ IsFiniteSet(ChargedKeys(s)) /\ session[s].count = Cardinality(ChargedKeys(s))
          /\ session[s].count <= MaxMessages
      BY DEF Slots
    <3>6. CASE s = Sess(r) /\ tx[r].slot
      <4>1. ChargedKeys(s)' = ChargedKeys(s) \cup {ask[r].key}
        <5>1. \A k \in Keys : k # ask[r].key => record'[<<s, k>>] = record[<<s, k>>]
          BY <3>2, <3>3
        <5>2. record'[<<s, ask[r].key>>].slot
          BY <3>2, <3>3, <3>6
        <5> QED BY <3>3, <5>1, <5>2 DEF ChargedKeys
      <4>2. IsFiniteSet(ChargedKeys(s)') /\ Cardinality(ChargedKeys(s)') = Cardinality(ChargedKeys(s)) + 1
        <5>1. ask[r].key \notin ChargedKeys(s)
          BY <3>4, <3>6
        <5>2. /\ IsFiniteSet(ChargedKeys(s) \cup {ask[r].key})
              /\ Cardinality(ChargedKeys(s) \cup {ask[r].key}) = Cardinality(ChargedKeys(s)) + 1
          BY <3>5, <5>1, FS_AddElement
        <5> QED BY <4>1, <5>2
      <4>3. session[s].count < MaxMessages
        BY <3>1, <3>6, CommitCharges
      <4> QED BY <3>2, <3>3, <3>5, <3>6, <4>2, <4>3, MessagesAssumption
    <3>7. CASE s # Sess(r) \/ ~tx[r].slot
      <4>1. ChargedKeys(s)' = ChargedKeys(s)
        <5>1. \A k \in Keys : <<s, k>> # Slot(r) => record'[<<s, k>>] = record[<<s, k>>]
          BY <3>2
        <5>2. \A k \in Keys : <<s, k>> = Slot(r) => ~record'[<<s, k>>].slot /\ ~record[<<s, k>>].slot
          BY <3>1, <3>2, <3>3, <3>7 DEF NoRecord
        <5> QED BY <5>1, <5>2 DEF ChargedKeys
      <4>2. session'[s].count = session[s].count
        BY <3>2, <3>3, <3>7
      <4> QED BY <3>5, <4>1, <4>2
    <3> QED BY <3>6, <3>7
  <2>2. CASE \E r \in Requests :
               UNCHANGED session /\ (SettleRecord(r, "completed") \/ SettleRecord(r, "failed"))
    <3>1. PICK r \in Requests, st \in {"completed", "failed"} : UNCHANGED session /\ SettleRecord(r, st)
      BY <2>2
    <3>2. /\ record'[Slot(r)].slot = record[Slot(r)].slot
          /\ \A sk \in (Sessions \X Keys) \ {Slot(r)} : record'[sk] = record[sk]
      BY <2>a, <3>1, SettleFrame
    <3>3. \A s \in Sessions : ChargedKeys(s)' = ChargedKeys(s)
      BY <3>2 DEF ChargedKeys
    <3> QED BY <3>1, <3>3 DEF Slots
  <2>3. CASE UNCHANGED record /\ \A s \in Sessions : session'[s].count = session[s].count
    BY <2>3 DEF Slots, ChargedKeys
  <2> QED BY <2>1, <2>2, <2>3, RowsStep
<1>3. Slots => SlotsAccounted
  BY DEF Slots, SlotsAccounted, ChargedKeys
<1> QED BY <1>1, <1>2, <1>3, Invariance, PTL DEF Spec

-----------------------------------------------------------------------------
(* What the records promise of the stored messages.                        *)

\* The questions of r among the messages of a conversation.
Asked(c, r) == {m \in messages[c] : m.role = "user" /\ m.by = r}

\* The question of r is stored, and numbered below what r is about to insert.
QuestionStored(r) ==
  \E c \in Requests :
    /\ session[Sess(r)].conv = c
    /\ \E q \in Asked(c, r) : pc[r] = "assistant" => q.seq < seqno[r]

\* The question and, after it, the answer of r are stored.
PairStored(r) ==
  \E c \in Requests :
    /\ session[Sess(r)].conv = c
    /\ \E q \in Asked(c, r) : \E a \in messages[c] :
         a.role = "assistant" /\ a.by = r /\ q.seq < a.seq

\* What a request that executes has stored so far.
Stores(r) ==
  /\ pc[r] \in {"generate", "assistantseq", "assistant"} => QuestionStored(r)
  /\ pc[r] \in {"cite", "finish"} => PairStored(r)

\* A request that left its record in processing was cut off or met an error that
\* skips mark_failed.
CutOff(r) ==
  \/ pc[r] \in Executing \cup {"crashed"}
  \/ pc[r] = "done" /\ reply[r].code \in {"internal", "unsafe"}

RecordHolds(sk) ==
  /\ record[sk].status = "completed" => PairStored(record[sk].owner)
  /\ record[sk].status = "processing" => CutOff(record[sk].owner)

\* The inductive invariant behind RecordsAreTrue, next to IInv.
TruthInv ==
  /\ \A r \in Requests : Stores(r)
  /\ \A sk \in Sessions \X Keys : RecordHolds(sk)

\* The only step a request takes alone: nobody else's progress changes, messages
\* are added, and a session that has a conversation keeps it.
Alone(r) ==
  /\ UNCHANGED ask
  /\ \A q \in Requests \ {r} : pc'[q] = pc[q] /\ seqno'[q] = seqno[q] /\ reply'[q] = reply[q]
  /\ \A c \in Requests : messages[c] \subseteq messages'[c]
  /\ \A s \in Sessions : session[s].conv \in Requests => session'[s].conv = session[s].conv

\* A row inserted into one conversation leaves the others and its own rows.
LEMMA InsertAdds ==
  ASSUME TypeOK, NEW r \in Requests, NEW conv \in Requests, NEW role,
         InsertMessage(r, conv, role)
  PROVE  /\ \A c \in Requests : messages[c] \subseteq messages'[c]
         /\ [seq |-> seqno[r], role |-> role, by |-> r] \in messages'[conv]
<1>1. /\ messages'[conv] = messages[conv] \cup {[seq |-> seqno[r], role |-> role, by |-> r]}
      /\ \A c \in Requests \ {conv} : messages'[c] = messages[c]
  BY DEF InsertMessage, TypeOK
<1> QED BY <1>1

LEMMA RequestAlone ==
  ASSUME IInv, NEW r \in Requests, Validate(r) \/ Step(r) \/ Crash(r)
  PROVE  Alone(r)
<1>a. TypeOK
  BY DEF IInv
<1>1. UNCHANGED ask
  BY DEF Validate, Step, Crash, Expire, Lock, BeginRequest, ResolveConversation, ConsumeSlot,
     Secure, ReadUserSequence, AppendUserMessage, Generate, ReadAssistantSequence,
     AppendAssistantMessage, MarkFailed, AttachCitations, Complete, Refuse
<1>2. \A q \in Requests \ {r} : pc'[q] = pc[q]
  BY <1>a DEF TypeOK, Goto, Answer,
     Validate, Step, Crash, Expire, Lock, BeginRequest, ResolveConversation, ConsumeSlot,
     Secure, ReadUserSequence, AppendUserMessage, Generate, ReadAssistantSequence,
     AppendAssistantMessage, MarkFailed, AttachCitations, Complete, Refuse
<1>3. \A q \in Requests \ {r} : reply'[q] = reply[q]
  BY <1>a DEF TypeOK, Answer,
     Validate, Step, Crash, Expire, Lock, BeginRequest, ResolveConversation, ConsumeSlot,
     Secure, ReadUserSequence, AppendUserMessage, Generate, ReadAssistantSequence,
     AppendAssistantMessage, MarkFailed, AttachCitations, Complete, Refuse
<1>4. \A q \in Requests \ {r} : seqno'[q] = seqno[q]
  BY <1>a DEF TypeOK, locals,
     Validate, Step, Crash, Expire, Lock, BeginRequest, ResolveConversation, ConsumeSlot,
     Secure, ReadUserSequence, AppendUserMessage, Generate, ReadAssistantSequence,
     AppendAssistantMessage, MarkFailed, AttachCitations, Complete, Refuse
<1>5. \A c \in Requests : messages[c] \subseteq messages'[c]
  <2>1. CASE AppendUserMessage(r) \/ AppendAssistantMessage(r)
    <3>1. tx[r].conv \in Requests
      BY <1>a, <2>1, RowTypes DEF IInv, TxAgrees, AppendUserMessage, AppendAssistantMessage,
         Writing, Executing
    <3> QED BY <1>a, <2>1, <3>1, InsertAdds DEF AppendUserMessage, AppendAssistantMessage, db
  <2>2. CASE ~(AppendUserMessage(r) \/ AppendAssistantMessage(r))
    <3>1. UNCHANGED messages
      BY <2>2 DEF db, Refuse,
         Validate, Step, Crash, Expire, Lock, BeginRequest, ResolveConversation, ConsumeSlot,
         Secure, ReadUserSequence, Generate, ReadAssistantSequence, MarkFailed,
         AttachCitations, Complete
    <3> QED BY <3>1
  <2> QED BY <2>1, <2>2
<1>6. ASSUME NEW s \in Sessions, session[s].conv \in Requests
      PROVE  session'[s].conv = session[s].conv
  <2>1. [Next]_vars
    BY DEF Next
  <2>2. ASSUME NEW q \in Requests, NEW rs \in {"processing", "failed"}, NEW ss \in Status,
               tx[q].conv = session[Sess(q)].conv \/ session[Sess(q)].conv = None,
               CommitPreparation(q, rs, ss)
        PROVE  session'[s].conv = session[s].conv
    BY <1>a, <1>6, <2>2, CommitFrame, MessagesAssumption
  <2> QED BY <2>1, <2>2, RowsStep
<1> QED BY <1>1, <1>2, <1>3, <1>4, <1>5, <1>6 DEF Alone

\* What was stored stays stored.
LEMMA PairStays ==
  ASSUME TypeOK, NEW r \in Requests, Alone(r), NEW q \in Requests, PairStored(q)
  PROVE  PairStored(q)'
<1>1. Sess(q) \in Sessions /\ Sess(q)' = Sess(q)
  BY RowTypes DEF Alone, Sess
<1>2. PICK c \in Requests :
        /\ session[Sess(q)].conv = c
        /\ \E m \in Asked(c, q) : \E a \in messages[c] :
             a.role = "assistant" /\ a.by = q /\ m.seq < a.seq
  BY DEF PairStored
<1>3. PICK m, a : /\ m \in messages[c] /\ m.role = "user" /\ m.by = q
                  /\ a \in messages[c] /\ a.role = "assistant" /\ a.by = q /\ m.seq < a.seq
  BY <1>2 DEF Asked
<1>4. m \in messages'[c] /\ a \in messages'[c] /\ session'[Sess(q)].conv = c
  BY <1>1, <1>2, <1>3 DEF Alone
<1> QED BY <1>1, <1>3, <1>4 DEF PairStored, Asked

\* A stored question stays below the number its request inserts next.
LEMMA QuestionStays ==
  ASSUME TypeOK, NEW r \in Requests, Alone(r), NEW q \in Requests, QuestionStored(q),
         pc'[q] = "assistant" => pc[q] = "assistant" /\ seqno'[q] = seqno[q]
  PROVE  QuestionStored(q)'
<1>1. Sess(q) \in Sessions /\ Sess(q)' = Sess(q)
  BY RowTypes DEF Alone, Sess
<1>2. PICK c \in Requests :
        /\ session[Sess(q)].conv = c
        /\ \E m \in Asked(c, q) : pc[q] = "assistant" => m.seq < seqno[q]
  BY DEF QuestionStored
<1>3. PICK m : /\ m \in messages[c] /\ m.role = "user" /\ m.by = q
               /\ pc[q] = "assistant" => m.seq < seqno[q]
  BY <1>2 DEF Asked
<1>4. m \in messages'[c] /\ session'[Sess(q)].conv = c
  BY <1>1, <1>2, <1>3 DEF Alone
<1> QED BY <1>1, <1>3, <1>4 DEF QuestionStored, Asked

\* TruthInv holds after a step of r if what the step changes of r and of the
\* records keeps it.
LEMMA TruthMoves ==
  ASSUME IInv, TruthInv, NEW r \in Requests, Alone(r), Stores(r)',
         \A sk \in Sessions \X Keys :
           \/ /\ record'[sk] = record[sk]
              /\ record[sk].status = "processing" /\ record[sk].owner = r => CutOff(r)'
           \/ record'[sk].status = "failed"
           \/ /\ record'[sk].status = "completed" /\ record'[sk].owner = r
              /\ PairStored(r)'
           \/ /\ record'[sk].status = "processing" /\ record'[sk].owner = r
              /\ CutOff(r)'
  PROVE  TruthInv'
<1>a. TypeOK
  BY DEF IInv
<1>1. ASSUME NEW q \in Requests PROVE Stores(q)'
  <2>1. CASE q = r
    BY <2>1
  <2>2. CASE q # r
    <3>1. Stores(q) /\ pc'[q] = pc[q] /\ seqno'[q] = seqno[q]
      BY <2>2 DEF TruthInv, Alone
    <3>2. QuestionStored(q) => QuestionStored(q)'
      BY <1>a, <3>1, QuestionStays
    <3>3. PairStored(q) => PairStored(q)'
      BY <1>a, PairStays
    <3> QED BY <3>1, <3>2, <3>3 DEF Stores
  <2> QED BY <2>1, <2>2
<1>2. ASSUME NEW sk \in Sessions \X Keys PROVE RecordHolds(sk)'
  <2>1. CASE /\ record'[sk] = record[sk]
             /\ record[sk].status = "processing" /\ record[sk].owner = r => CutOff(r)'
    <3> DEFINE o == record[sk].owner
    <3>1. RecordHolds(sk) /\ KeyOwned(sk)
      BY DEF TruthInv, IInv
    <3>2. CASE record[sk].status = "completed"
      <4>1. o \in Requests /\ PairStored(o)
        BY <3>1, <3>2 DEF KeyOwned, NoRecord, RecordHolds
      <4>2. PairStored(o)'
        <5> HIDE DEF o
        <5>1. \A q \in Requests : PairStored(q) => PairStored(q)'
          BY <1>a, PairStays
        <5>2. o' = o
          BY <2>1 DEF o
        <5> QED BY <4>1, <5>1, <5>2 DEF PairStored, Sess, Asked
      <4> QED BY <2>1, <3>2, <4>2 DEF RecordHolds
    <3>3. CASE record[sk].status = "processing"
      <4>1. o \in Requests /\ CutOff(o)
        BY <3>1, <3>3 DEF KeyOwned, NoRecord, RecordHolds
      <4>2. CutOff(o)'
        BY <2>1, <3>3, <4>1 DEF CutOff, Alone
      <4> QED BY <2>1, <3>3, <4>2 DEF RecordHolds
    <3>4. CASE record[sk].status \notin {"completed", "processing"}
      BY <2>1, <3>4 DEF RecordHolds
    <3> QED BY <3>2, <3>3, <3>4
  <2>2. CASE record'[sk].status = "failed"
    BY <2>2 DEF RecordHolds
  <2>3. CASE record'[sk].status = "completed" /\ record'[sk].owner = r /\ PairStored(r)'
    BY <2>3 DEF RecordHolds, PairStored, Sess, Asked
  <2>4. CASE record'[sk].status = "processing" /\ record'[sk].owner = r /\ CutOff(r)'
    BY <2>4 DEF RecordHolds, CutOff
  <2> QED BY <2>1, <2>2, <2>3, <2>4
<1> QED BY <1>1, <1>2 DEF TruthInv

\* Steps outside the execution: r owns no record yet and leaves none in processing.
LEMMA TruthOutside ==
  ASSUME IInv, TruthInv, NEW r \in Requests, Alone(r),
         pc[r] \notin Executing \cup {"done", "crashed"}, pc'[r] \notin Executing,
         \A sk \in Sessions \X Keys : record'[sk] = record[sk] \/ record'[sk].status = "failed"
  PROVE  TruthInv'
<1>1. Stores(r)'
  BY DEF Stores, Executing
<1>2. \A sk \in Sessions \X Keys : record[sk].status = "processing" => record[sk].owner # r
  BY DEF IInv, KeyOwned, NoRecord
<1> QED BY <1>1, <1>2, TruthMoves

\* A request that stops while it executes is cut off.
LEMMA TruthCutOff ==
  ASSUME IInv, TruthInv, NEW r \in Requests, Alone(r), UNCHANGED record, CutOff(r)', Stores(r)'
  PROVE  TruthInv'
  BY TruthMoves

\* The steps of the preparation.
LEMMA TruthPreparation ==
  ASSUME IInv, TruthInv, NEW r \in Requests,
         \/ Validate(r) \/ Expire(r) \/ Lock(r) \/ BeginRequest(r) \/ ResolveConversation(r)
         \/ ConsumeSlot(r) \/ Secure(r) \/ ReadUserSequence(r)
  PROVE  TruthInv'
<1>a. TypeOK /\ Alone(r)
  BY RequestAlone DEF IInv, Step
<1>1. pc[r] \notin Executing \cup {"done", "crashed"}
  BY DEF Validate, Expire, Lock, BeginRequest, ResolveConversation, ConsumeSlot, Secure,
     ReadUserSequence, Executing
<1>2. pc'[r] \notin Executing
  BY <1>a DEF TypeOK, Goto, Answer, Refuse, Executing,
     Validate, Expire, Lock, BeginRequest, ResolveConversation, ConsumeSlot, Secure,
     ReadUserSequence
<1>3. ASSUME NEW code, NEW ss \in Status, Refuse(r, code, ss), NEW sk \in Sessions \X Keys
      PROVE  record'[sk] = record[sk] \/ record'[sk].status = "failed"
  BY <1>a, <1>3, CommitFrame DEF Refuse
<1>4. session[Sess(r)].status \in Status /\ "active" \in Status /\ "blocked" \in Status
  BY <1>a, RowTypes DEF Status
<1>5. UNCHANGED record \/ \E code : \E ss \in Status : Refuse(r, code, ss)
  BY <1>4 DEF db, Validate, Expire, Lock, BeginRequest, ResolveConversation, ConsumeSlot, Secure,
     ReadUserSequence
<1> QED BY <1>a, <1>1, <1>2, <1>3, <1>5, TruthOutside

\* append_user_message: the question is stored in the session's conversation.
LEMMA TruthQuestion ==
  ASSUME IInv, TruthInv, NEW r \in Requests, AppendUserMessage(r)
  PROVE  TruthInv'
<1>a. TypeOK /\ TxAgrees(r) /\ Alone(r) /\ pc[r] = "user"
  BY RequestAlone DEF IInv, Step, AppendUserMessage
<1>b. tx[r].conv \in Requests
  BY <1>a, RowTypes DEF TxAgrees, Writing
<1>1. CASE ~SequenceFree(tx[r].conv, seqno[r])
  <2>1. UNCHANGED record /\ pc'[r] \notin Executing
    BY <1>a, <1>1 DEF AppendUserMessage, db, Answer, Goto, TypeOK, Executing
  <2> QED BY <1>a, <2>1, TruthOutside DEF Executing
<1>2. CASE SequenceFree(tx[r].conv, seqno[r])
  <2> DEFINE row == [seq |-> seqno[r], role |-> "user", by |-> r]
  <2>1. /\ InsertMessage(r, tx[r].conv, "user") /\ CommitPreparation(r, "processing", "active")
        /\ Goto(r, "generate")
    BY <1>2 DEF AppendUserMessage
  <2>2. pc'[r] = "generate"
    BY <1>a, <2>1, GotoFrame DEF TypeOK, Steps, Executing
  <2>3. row \in messages'[tx[r].conv]
    BY <1>a, <1>b, <2>1, InsertAdds
  <2>4. /\ session'[Sess(r)].conv = tx[r].conv
        /\ record'[Slot(r)].status = "processing" /\ record'[Slot(r)].owner = r
        /\ \A sk \in (Sessions \X Keys) \ {Slot(r)} : record'[sk] = record[sk]
    BY <1>a, <2>1, CommitFrame DEF Status
  <2>5. QuestionStored(r)'
    <3>1. Sess(r)' = Sess(r) /\ row.role = "user" /\ row.by = r
      BY <1>a DEF Alone, Sess
    <3> QED BY <1>b, <2>2, <2>3, <2>4, <3>1 DEF QuestionStored, Asked
  <2>6. Stores(r)' /\ CutOff(r)'
    BY <2>2, <2>5 DEF Stores, CutOff, Executing
  <2> QED BY <1>a, <2>4, <2>6, TruthMoves
<1> QED BY <1>1, <1>2

\* Reading the answer's number: every stored number is below it.
LEMMA TruthNumber ==
  ASSUME IInv, TruthInv, NEW r \in Requests, ReadAssistantSequence(r)
  PROVE  TruthInv'
<1>a. TypeOK /\ TxAgrees(r) /\ SequencesContiguous /\ Alone(r) /\ pc[r] = "assistantseq"
  BY RequestAlone DEF IInv, Step, ReadAssistantSequence
<1>b. tx[r].conv \in Requests /\ session[Sess(r)].conv = tx[r].conv
  BY <1>a, RowTypes DEF TxAgrees, Executing
<1> DEFINE c == tx[r].conv
           n == Cardinality(messages[c])
<1>1. n \in Nat /\ Numbers(c) = 1..n
  <2>1. IsFiniteSet(messages[c])
    BY <1>b DEF IInv
  <2> QED BY <1>a, <1>b, <2>1, FS_CardinalityType DEF SequencesContiguous
<1>2. seqno'[r] = n + 1
  <2>1. NextSequence(c) = n + 1
    <3> HIDE DEF n
    <3> QED BY <1>1, NextSequenceIs
  <2> QED BY <1>a, <2>1 DEF ReadAssistantSequence, TypeOK
<1>3. UNCHANGED <<session, record, messages, ask>> /\ pc'[r] = "assistant"
  BY <1>a DEF ReadAssistantSequence, db, Goto, TypeOK
<1>4. PICK m : m \in messages[c] /\ m.role = "user" /\ m.by = r
  <2>1. QuestionStored(r)
    BY <1>a DEF TruthInv, Stores
  <2> QED BY <1>b, <2>1 DEF QuestionStored, Asked
<1>5. m.seq < seqno'[r]
  <2>1. m.seq \in Numbers(c)
    BY <1>4 DEF Numbers
  <2> HIDE DEF n
  <2> QED BY <1>1, <1>2, <2>1
<1>6. QuestionStored(r)'
  <2>1. Sess(r)' = Sess(r)
    BY <1>3 DEF Sess
  <2> QED BY <1>b, <1>3, <1>4, <1>5, <2>1 DEF QuestionStored, Asked
<1>7. Stores(r)' /\ CutOff(r)'
  BY <1>3, <1>6 DEF Stores, CutOff, Executing
<1> QED BY <1>a, <1>3, <1>7, TruthCutOff

\* append_assistant_message: the answer is stored after the question.
LEMMA TruthAnswer ==
  ASSUME IInv, TruthInv, NEW r \in Requests, AppendAssistantMessage(r)
  PROVE  TruthInv'
<1>a. TypeOK /\ TxAgrees(r) /\ Alone(r) /\ pc[r] = "assistant"
  BY RequestAlone DEF IInv, Step, AppendAssistantMessage
<1>b. tx[r].conv \in Requests /\ session[Sess(r)].conv = tx[r].conv /\ UNCHANGED record
  BY <1>a, RowTypes DEF TxAgrees, Executing, AppendAssistantMessage
<1>1. CASE ~SequenceFree(tx[r].conv, seqno[r])
  <2>1. pc'[r] = "done" /\ reply'[r].code = "internal"
    BY <1>a, <1>1, AnswerFrame DEF AppendAssistantMessage, TypeOK, Codes
  <2>2. Stores(r)' /\ CutOff(r)'
    BY <2>1 DEF Stores, CutOff
  <2> QED BY <1>a, <1>b, <2>2, TruthCutOff
<1>2. CASE SequenceFree(tx[r].conv, seqno[r])
  <2> DEFINE row == [seq |-> seqno[r], role |-> "assistant", by |-> r]
  <2>1. InsertMessage(r, tx[r].conv, "assistant") /\ UNCHANGED session
    BY <1>2 DEF AppendAssistantMessage
  <2>2. pc'[r] \in {"cite", "fail"}
    BY <1>a, <1>2 DEF AppendAssistantMessage, Goto, TypeOK
  <2>3. row \in messages'[tx[r].conv]
    BY <1>a, <1>b, <2>1, InsertAdds
  <2>4. PICK m : /\ m \in messages[tx[r].conv] /\ m.role = "user" /\ m.by = r
                 /\ m.seq < seqno[r]
    <3>1. QuestionStored(r)
      BY <1>a DEF TruthInv, Stores
    <3> QED BY <1>a, <1>b, <3>1 DEF QuestionStored, Asked
  <2>5. m \in messages'[tx[r].conv]
    BY <1>a, <1>b, <2>4 DEF Alone
  <2>6. PairStored(r)'
    <3>1. /\ Sess(r)' = Sess(r) /\ session' = session
          /\ row.role = "assistant" /\ row.by = r /\ m.seq < row.seq
      BY <1>a, <2>1, <2>4 DEF Alone, Sess
    <3> QED BY <1>b, <2>3, <2>4, <2>5, <3>1 DEF PairStored, Asked
  <2>7. Stores(r)' /\ CutOff(r)'
    BY <2>2, <2>6 DEF Stores, CutOff, Executing
  <2> QED BY <1>a, <1>b, <2>7, TruthCutOff
<1> QED BY <1>1, <1>2

\* Generation, citations and a crash: on, or cut off with the record as it is.
LEMMA TruthOn ==
  ASSUME IInv, TruthInv, NEW r \in Requests, Generate(r) \/ AttachCitations(r) \/ Crash(r)
  PROVE  TruthInv'
<1>a. TypeOK /\ Alone(r) /\ Stores(r) /\ UNCHANGED record
  BY RequestAlone DEF IInv, Step, TruthInv, Generate, AttachCitations, Crash, db
<1>1. CASE /\ pc[r] = "generate"
           /\ pc'[r] = "assistantseq"
  <2>1. QuestionStored(r)'
    BY <1>a, <1>1, QuestionStays DEF Stores
  <2>2. Stores(r)' /\ CutOff(r)'
    BY <1>1, <2>1 DEF Stores, CutOff, Executing
  <2> QED BY <1>a, <2>2, TruthCutOff
<1>2. CASE /\ pc[r] = "cite"
           /\ pc'[r] = "finish"
  <2>1. PairStored(r)'
    BY <1>a, <1>2, PairStays DEF Stores
  <2>2. Stores(r)' /\ CutOff(r)'
    BY <1>2, <2>1 DEF Stores, CutOff, Executing
  <2> QED BY <1>a, <2>2, TruthCutOff
<1>3. CASE pc'[r] = "crashed" \/ (pc'[r] = "done" /\ reply'[r].code \in {"internal", "unsafe"})
  <2>1. Stores(r)' /\ CutOff(r)'
    BY <1>3 DEF Stores, CutOff
  <2> QED BY <1>a, <2>1, TruthCutOff
<1>4. pc \in [Requests -> Steps] /\ reply \in [Requests -> Response]
  BY <1>a DEF TypeOK
<1>5. CASE Generate(r)
  BY <1>1, <1>3, <1>4, <1>5 DEF Generate, Goto, Answer
<1>6. CASE AttachCitations(r)
  BY <1>2, <1>3, <1>4, <1>6 DEF AttachCitations, Goto, Answer
<1>7. CASE Crash(r)
  BY <1>3, <1>4, <1>7 DEF Crash, Goto
<1> QED BY <1>5, <1>6, <1>7

\* mark_failed and mark_completed settle the record of the request that owns it.
LEMMA TruthSettles ==
  ASSUME IInv, TruthInv, NEW r \in Requests, MarkFailed(r) \/ Complete(r)
  PROVE  TruthInv'
<1>a. TypeOK /\ Alone(r) /\ Stores(r) /\ OwnsRecord(r)
  BY RequestAlone DEF IInv, Step, TruthInv
<1>b. record[Slot(r)].status = "processing" /\ record[Slot(r)].owner = r
  BY <1>a DEF OwnsRecord, MarkFailed, Complete, Executing
<1>c. pc \in [Requests -> Steps] /\ reply \in [Requests -> Response]
  BY <1>a DEF TypeOK
<1>1. CASE MarkFailed(r)
  <2>1. SettleRecord(r, "failed") /\ pc'[r] = "done"
    BY <1>b, <1>c, <1>1 DEF MarkFailed, Answer, Goto
  <2>2. /\ record'[Slot(r)].status = "failed"
        /\ \A sk \in (Sessions \X Keys) \ {Slot(r)} : record'[sk] = record[sk]
    BY <1>a, <2>1, SettleFrame
  <2>3. \A sk \in Sessions \X Keys : record[sk].owner = r /\ record[sk].status = "processing" => sk = Slot(r)
    BY DEF IInv, KeyOwned, NoRecord
  <2>4. Stores(r)'
    BY <2>1 DEF Stores
  <2> QED BY <1>a, <2>2, <2>3, <2>4, TruthMoves
<1>2. CASE Complete(r) /\ SettleRecord(r, "completed")
  <2>1. pc[r] = "finish" /\ pc'[r] = "done"
    BY <1>c, <1>2 DEF Complete, Answer, Goto
  <2>2. PairStored(r)'
    BY <1>a, <2>1, PairStays DEF Stores
  <2>3. /\ record'[Slot(r)].status = "completed" /\ record'[Slot(r)].owner = r
        /\ \A sk \in (Sessions \X Keys) \ {Slot(r)} : record'[sk] = record[sk]
    BY <1>a, <1>b, <1>2, SettleFrame
  <2>4. \A sk \in Sessions \X Keys : record[sk].owner = r /\ record[sk].status = "processing" => sk = Slot(r)
    BY DEF IInv, KeyOwned, NoRecord
  <2>5. Stores(r)'
    BY <2>1 DEF Stores
  <2> QED BY <1>a, <2>2, <2>3, <2>4, <2>5, TruthMoves
<1>3. CASE Complete(r) /\ Answer(r, "internal", None) /\ UNCHANGED record
  <2>1. pc'[r] = "done" /\ reply'[r].code = "internal"
    BY <1>c, <1>3 DEF Answer, Goto
  <2>2. Stores(r)' /\ CutOff(r)'
    BY <2>1 DEF Stores, CutOff
  <2> QED BY <1>a, <1>3, <2>2, TruthCutOff
<1> QED BY <1>b, <1>1, <1>2, <1>3 DEF Complete

\* The stored messages and the answers agree with the records in every state.
LEMMA TruthInvariance == Spec => [](IInv /\ TruthInv)
<1>1. Init => TruthInv
  BY DEF Init, TruthInv, Stores, RecordHolds, NoRecord
<1>2. ASSUME IInv, TruthInv, [Next]_vars PROVE TruthInv'
  <2>1. CASE UNCHANGED vars
    BY <1>2, <2>1 DEF TruthInv, Stores, QuestionStored, PairStored, RecordHolds, CutOff, Asked,
       Sess, vars, db, locals
  <2>2. CASE Finished
    BY <2>1, <2>2 DEF Finished
  <2>3. ASSUME NEW r \in Requests, Validate(r) \/ Step(r) \/ Crash(r) PROVE TruthInv'
    BY <1>2, <2>3, TruthPreparation, TruthQuestion, TruthNumber, TruthAnswer, TruthOn, TruthSettles
    DEF Step
  <2> QED BY <1>2, <2>1, <2>2, <2>3 DEF Next
<1> QED BY <1>1, <1>2, InitIInv, NextIInv, PTL DEF Spec

\* Idempotency records tell the truth about the conversation at every crash: the
\* pair behind a completed record, and the reason of one left in processing.
THEOREM Truth == Spec => []RecordsAreTrue
<1>1. ASSUME IInv, TruthInv, NEW s \in Sessions, NEW k \in Keys, record[<<s, k>>].status = "completed"
      PROVE  \E q, a \in messages[session[s].conv] :
               /\ q.role = "user" /\ q.by = record[<<s, k>>].owner
               /\ a.role = "assistant" /\ a.by = record[<<s, k>>].owner
               /\ q.seq < a.seq
  <2> DEFINE o == record[<<s, k>>].owner
  <2>1. KeyOwned(<<s, k>>) /\ RecordHolds(<<s, k>>)
    BY <1>1 DEF IInv, TruthInv
  <2>2. o \in Requests /\ Slot(o) = <<s, k>> /\ PairStored(o)
    BY <1>1, <2>1 DEF KeyOwned, NoRecord, RecordHolds
  <2>3. Sess(o) = s
    BY <2>2 DEF Slot, Sess
  <2> HIDE DEF o
  <2> QED BY <2>2, <2>3 DEF PairStored, Asked, o
<1>2. ASSUME IInv, TruthInv, NEW s \in Sessions, NEW k \in Keys, record[<<s, k>>].status = "processing"
      PROVE  CutOff(record[<<s, k>>].owner)
  BY <1>2 DEF TruthInv, RecordHolds
<1>3. IInv /\ TruthInv => CompletedIsPersisted
  BY <1>1 DEF CompletedIsPersisted
<1>4. IInv /\ TruthInv => StrandedExplained
  BY <1>2 DEF StrandedExplained, CutOff
<1> QED BY <1>3, <1>4, TruthInvariance, PTL DEF RecordsAreTrue

-----------------------------------------------------------------------------
(* The pipeline implements MessageContract.  T1's commit is Open or        *)
(* Refuse, mark_failed is Fail, mark_completed is Settle, the answer to a  *)
(* duplicate of a completed key is Replay; every other step leaves what    *)
(* the contract shows unchanged.                                           *)

\* A request that is still being served has not answered 200.
Unanswered == \A r \in Requests : pc[r] # "done" => reply[r].code # "ok"

\* Answers are final: no step serves a request again once it is done.
LEMMA UnansweredInvariance == Spec => []Unanswered
<1>1. Init => Unanswered
  BY DEF Init, Unanswered
<1>2. IInv /\ Unanswered /\ [Next]_vars => Unanswered'
  <2> SUFFICES ASSUME IInv, Unanswered, [Next]_vars PROVE Unanswered'
    OBVIOUS
  <2>a. pc \in [Requests -> Steps] /\ reply \in [Requests -> Response]
    BY DEF IInv, TypeOK
  <2>1. ASSUME NEW r \in Requests, NEW step, Goto(r, step), pc[r] # "done", UNCHANGED reply
        PROVE  Unanswered'
    BY <2>a, <2>1 DEF Unanswered, Goto
  <2>2. ASSUME NEW r \in Requests, NEW code, NEW by, Answer(r, code, by)
        PROVE  Unanswered'
    BY <2>a, <2>2 DEF Unanswered, Answer, Goto
  <2>3. ASSUME NEW r \in Requests, Validate(r) PROVE Unanswered'
    BY <2>1, <2>2, <2>3 DEF Validate
  <2>4. ASSUME NEW r \in Requests, Expire(r) \/ Lock(r) \/ BeginRequest(r) PROVE Unanswered'
    BY <2>1, <2>2, <2>4 DEF Expire, Lock, BeginRequest
  <2>5. ASSUME NEW r \in Requests, ResolveConversation(r) \/ ConsumeSlot(r) \/ Secure(r) PROVE Unanswered'
    BY <2>1, <2>2, <2>5 DEF ResolveConversation, ConsumeSlot, Secure, Refuse
  <2>6. ASSUME NEW r \in Requests, ReadUserSequence(r) \/ AppendUserMessage(r) \/ Generate(r)
        PROVE  Unanswered'
    BY <2>1, <2>2, <2>6 DEF ReadUserSequence, AppendUserMessage, Generate
  <2>7. ASSUME NEW r \in Requests, ReadAssistantSequence(r) \/ AppendAssistantMessage(r)
        PROVE  Unanswered'
    BY <2>1, <2>2, <2>7 DEF ReadAssistantSequence, AppendAssistantMessage
  <2>8. ASSUME NEW r \in Requests, MarkFailed(r) \/ AttachCitations(r) \/ Complete(r) \/ Crash(r)
        PROVE  Unanswered'
    BY <2>1, <2>2, <2>8 DEF MarkFailed, AttachCitations, Complete, Crash
  <2>9. CASE UNCHANGED vars
    BY <2>9 DEF vars, Unanswered
  <2> QED BY <2>3, <2>4, <2>5, <2>6, <2>7, <2>8, <2>9 DEF Next, Step, Finished
<1> QED BY <1>1, <1>2, Invariance, PTL DEF Spec

-----------------------------------------------------------------------------
\* Replies other than a first 200 do not change what clients were told.
LEMMA ToldSame ==
  ASSUME UNCHANGED ask,
         \A q \in Requests : \/ reply'[q] = reply[q]
                             \/ reply'[q].code # "ok" /\ reply[q].code # "ok"
  PROVE  Told' = Told
  BY DEF Told, Sess

\* A first 200 adds its answer.
LEMMA ToldGrows ==
  ASSUME UNCHANGED ask, NEW r \in Requests, reply[r].code # "ok", reply'[r].code = "ok",
         \A q \in Requests \ {r} : reply'[q] = reply[q]
  PROVE  Told' = Told \cup {<<Sess(r), ask[r].key, <<ask[r].body, reply'[r].by>>>>}
<1> DEFINE F(q) == <<Sess(q), ask[q].key, <<ask[q].body, reply[q].by>>>>
           G(q) == <<Sess(q), ask[q].key, <<ask[q].body, reply'[q].by>>>>
           A == {q \in Requests : reply[q].code = "ok"}
           B == {q \in Requests : reply'[q].code = "ok"}
<1>1. Told = {F(q) : q \in A} /\ Told' = {G(q) : q \in B}
  BY DEF Told, Sess
<1>2. B = A \cup {r} /\ \A q \in A : G(q) = F(q)
  OBVIOUS
<1>3. {G(q) : q \in B} = {F(q) : q \in A} \cup {G(r)}
  <2> HIDE DEF A, B, F, G
  <2> QED BY <1>2
<1> QED BY <1>1, <1>3

\* A write to one record changes the contract's view of that key only.
LEMMA RecordSeen ==
  ASSUME NEW sk \in Sessions \X Keys,
         \A x \in (Sessions \X Keys) \ {sk} : record'[x] = record[x]
  PROVE  /\ Fate' = [Fate EXCEPT ![sk] = FateOf(record'[sk].status)]
         /\ Stored' = [Stored EXCEPT ![sk] =
              IF record'[sk].status = "completed" THEN <<record'[sk].body, record'[sk].owner>> ELSE None]
<1>1. Fate' = [x \in Sessions \X Keys |-> FateOf(record'[x].status)]
  BY DEF Fate, FateOf
<1>2. Stored' = [x \in Sessions \X Keys |->
                   IF record'[x].status = "completed" THEN <<record'[x].body, record'[x].owner>> ELSE None]
  BY DEF Stored
<1> QED BY <1>1, <1>2 DEF Fate, Stored

LEMMA UsedSeen ==
  ASSUME NEW s \in Sessions, \A x \in Sessions \ {s} : session'[x].count = session[x].count
  PROVE  Used' = [Used EXCEPT ![s] = session'[s].count]
  BY DEF Used

\* T1's commit takes the key up, or refuses it for good.
LEMMA CommitRefines ==
  ASSUME IInv, NEW r \in Requests, NEW rs \in {"processing", "failed"}, NEW ss \in Status,
         CommitPreparation(r, rs, ss), pc[r] \in Owned \ {"begin"}, record[Slot(r)] = NoRecord,
         rs = "processing" => tx[r].slot,
         Told' = Told
  PROVE  Contract!Next
<1> DEFINE s == ask[r].session
           k == ask[r].key
<1>a. TypeOK
  BY DEF IInv
<1>1. s \in Sessions /\ k \in Keys /\ Slot(r) = <<s, k>> /\ Sess(r) = s /\ Slot(r) \in Sessions \X Keys
  BY <1>a DEF TypeOK, Question, Slot, Sess
<1>2. /\ session'[s].count = session[s].count + (IF tx[r].slot THEN 1 ELSE 0)
      /\ \A x \in Sessions \ {s} : session'[x] = session[x]
      /\ record'[Slot(r)].status = rs
      /\ \A sk \in (Sessions \X Keys) \ {Slot(r)} : record'[sk] = record[sk]
      /\ session[s].count \in Nat
  BY <1>a, <1>1, CommitFrame, RowTypes
<1>3. /\ Fate' = [Fate EXCEPT ![<<s, k>>] = FateOf(rs)]
      /\ Stored' = [Stored EXCEPT ![<<s, k>>] = None]
  BY <1>1, <1>2, RecordSeen
<1>4. Fate[<<s, k>>] = "free" /\ Stored[<<s, k>>] = None /\ Used[s] = session[s].count
  BY <1>1 DEF Fate, Stored, Used, FateOf, NoRecord
<1>5. Stored' = Stored
  BY <1>3, <1>4 DEF Stored
<1>6. Used' = [Used EXCEPT ![s] = session'[s].count]
  BY <1>1, <1>2, UsedSeen
<1>7. tx[r].slot => Contract!Charge(s)
  <2> SUFFICES ASSUME tx[r].slot PROVE Contract!Charge(s)
    OBVIOUS
  <2>1. session[s].count < MaxMessages
    BY <1>1, CommitCharges
  <2> QED BY <1>2, <1>4, <1>6, <2>1 DEF Contract!Charge
<1>8. ~tx[r].slot => Used' = Used
  BY <1>2, <1>6 DEF Used
<1>9. CASE rs = "processing"
  <2>1. Contract!Open(s, k)
    BY <1>3, <1>4, <1>5, <1>7, <1>9 DEF Contract!Open, FateOf
  <2> QED BY <1>1, <2>1 DEF Contract!Next
<1>10. CASE rs = "failed"
  <2>1. Contract!Refuse(s, k)
    BY <1>3, <1>4, <1>5, <1>7, <1>8, <1>10 DEF Contract!Refuse, FateOf
  <2> QED BY <1>1, <2>1 DEF Contract!Next
<1> QED BY <1>9, <1>10

\* The owner's last write settles the key, or fails it.
LEMMA SettleRefines ==
  ASSUME IInv, Unanswered, NEW r \in Requests, MarkFailed(r) \/ Complete(r)
  PROVE  Contract!Next \/ UNCHANGED <<Fate, Used, Stored, Told>>
<1> DEFINE s == ask[r].session
           k == ask[r].key
<1>a. TypeOK /\ OwnsRecord(r)
  BY DEF IInv
<1>1. s \in Sessions /\ k \in Keys /\ Slot(r) = <<s, k>> /\ Sess(r) = s /\ Slot(r) \in Sessions \X Keys
      /\ ask[r].body \in Bodies
  BY <1>a DEF TypeOK, Question, Slot, Sess
<1>2. UNCHANGED <<session, ask>> /\ pc[r] \in {"fail", "finish"}
  BY DEF MarkFailed, Complete
<1>3. Used' = Used
  BY <1>2 DEF Used
<1>4. record[Slot(r)].status = "processing" /\ record[Slot(r)].owner = r
  BY <1>a, <1>2 DEF OwnsRecord, Executing
<1>5. record[Slot(r)].body = ask[r].body
  <2>1. KeyOwned(Slot(r))
    BY <1>1 DEF IInv
  <2> QED BY <1>4, <2>1 DEF KeyOwned, NoRecord
<1>6. Fate[<<s, k>>] = "open" /\ Stored[<<s, k>>] = None
  BY <1>1, <1>4 DEF Fate, Stored, FateOf
<1>7. reply[r].code # "ok"
  BY <1>2 DEF Unanswered
<1>8. CASE SettleRecord(r, "failed") /\ Answer(r, "unavailable", None)
  <2>1. /\ record'[Slot(r)].status = "failed"
        /\ \A sk \in (Sessions \X Keys) \ {Slot(r)} : record'[sk] = record[sk]
    BY <1>a, <1>8, SettleFrame
  <2>2. Fate' = [Fate EXCEPT ![<<s, k>>] = "refused"] /\ Stored' = [Stored EXCEPT ![<<s, k>>] = None]
    BY <1>1, <2>1, RecordSeen DEF FateOf
  <2>3. Stored' = Stored
    BY <1>6, <2>2 DEF Stored
  <2>4. /\ reply'[r].code = "unavailable"
        /\ \A q \in Requests \ {r} : reply'[q] = reply[q]
    BY <1>a, <1>8, AnswerFrame DEF TypeOK, Codes
  <2>5. Told' = Told
    BY <1>2, <1>7, <2>4, ToldSame
  <2>6. Contract!Fail(s, k)
    BY <1>3, <1>6, <2>2, <2>3, <2>5 DEF Contract!Fail
  <2> QED BY <1>1, <2>6 DEF Contract!Next
<1>9. CASE SettleRecord(r, "completed") /\ Answer(r, "ok", r)
  <2>1. /\ record'[Slot(r)].status = "completed"
        /\ record'[Slot(r)].body = ask[r].body /\ record'[Slot(r)].owner = r
        /\ \A sk \in (Sessions \X Keys) \ {Slot(r)} : record'[sk] = record[sk]
    BY <1>a, <1>4, <1>5, <1>9, SettleFrame
  <2>2. /\ Fate' = [Fate EXCEPT ![<<s, k>>] = "answered"]
        /\ Stored' = [Stored EXCEPT ![<<s, k>>] = <<ask[r].body, r>>]
    BY <1>1, <2>1, RecordSeen DEF FateOf
  <2>3. /\ reply'[r].code = "ok" /\ reply'[r].by = r
        /\ \A q \in Requests \ {r} : reply'[q] = reply[q]
    BY <1>a, <1>9, AnswerFrame DEF TypeOK, Codes
  <2>4. Told' = Told \cup {<<s, k, <<ask[r].body, r>>>>}
    BY <1>1, <1>2, <1>7, <2>3, ToldGrows
  <2>5. Contract!Settle(s, k, ask[r].body, r)
    BY <1>3, <1>6, <2>2, <2>4 DEF Contract!Settle
  <2> QED BY <1>1, <2>5 DEF Contract!Next
<1>10. CASE UNCHANGED record /\ \E code \in {"unavailable", "internal"} : Answer(r, code, None)
  <2>1. /\ reply'[r].code # "ok"
        /\ \A q \in Requests \ {r} : reply'[q] = reply[q]
    <3>1. PICK code \in {"unavailable", "internal"} : Answer(r, code, None)
      BY <1>10
    <3> QED BY <1>a, <3>1, AnswerFrame DEF TypeOK, Codes
  <2>2. Told' = Told
    BY <1>2, <1>7, <2>1, ToldSame
  <2> QED BY <1>3, <1>10, <2>2 DEF Fate, Stored
<1> QED BY <1>4, <1>8, <1>9, <1>10 DEF MarkFailed, Complete

\* A duplicate of a completed key is told the stored answer once more.
LEMMA BeginRequestRefines ==
  ASSUME IInv, Unanswered, NEW r \in Requests, BeginRequest(r)
  PROVE  Contract!Next \/ UNCHANGED <<Fate, Used, Stored, Told>>
<1> DEFINE s == ask[r].session
           k == ask[r].key
<1>a. TypeOK
  BY DEF IInv
<1>1. s \in Sessions /\ k \in Keys /\ Slot(r) = <<s, k>> /\ Sess(r) = s /\ Slot(r) \in Sessions \X Keys
  BY <1>a DEF TypeOK, Question, Slot, Sess
<1>2. UNCHANGED <<session, record, ask>> /\ pc[r] = "begin"
  BY DEF BeginRequest, db
<1>3. UNCHANGED <<Fate, Used, Stored>>
  BY <1>2 DEF Fate, Used, Stored
<1>4. reply[r].code # "ok"
  BY <1>2 DEF Unanswered
<1>5. CASE /\ record[Slot(r)].status = "completed" /\ SameBody(record[Slot(r)], r)
           /\ Answer(r, "ok", record[Slot(r)].owner)
  <2>1. record[Slot(r)].owner \in Requests /\ record[Slot(r)].body = ask[r].body
    <3>1. KeyOwned(Slot(r))
      BY <1>1 DEF IInv
    <3> QED BY <1>5, <3>1 DEF KeyOwned, NoRecord, SameBody
  <2>2. /\ reply'[r].code = "ok" /\ reply'[r].by = record[Slot(r)].owner
        /\ \A q \in Requests \ {r} : reply'[q] = reply[q]
    BY <1>a, <1>5, <2>1, AnswerFrame DEF TypeOK, Codes
  <2>3. Told' = Told \cup {<<s, k, <<ask[r].body, record[Slot(r)].owner>>>>}
    BY <1>1, <1>2, <1>4, <2>2, ToldGrows
  <2>4. Fate[<<s, k>>] = "answered" /\ Stored[<<s, k>>] = <<ask[r].body, record[Slot(r)].owner>>
    BY <1>1, <1>5, <2>1 DEF Fate, Stored, FateOf
  <2>5. Contract!Replay(s, k)
    BY <1>3, <2>3, <2>4 DEF Contract!Replay
  <2> QED BY <1>1, <2>5 DEF Contract!Next
<1>6. CASE \E code \in {"conflict", "in_progress", "failed"} : Answer(r, code, None)
  <2>1. /\ reply'[r].code # "ok"
        /\ \A q \in Requests \ {r} : reply'[q] = reply[q]
    <3>1. PICK code \in {"conflict", "in_progress", "failed"} : Answer(r, code, None)
      BY <1>6
    <3> QED BY <1>a, <3>1, AnswerFrame DEF TypeOK, Codes
  <2>2. Told' = Told
    BY <1>2, <1>4, <2>1, ToldSame
  <2> QED BY <1>3, <2>2
<1>7. CASE UNCHANGED reply
  BY <1>2, <1>3, <1>7, ToldSame
<1> QED BY <1>5, <1>6, <1>7 DEF BeginRequest, Lookup

\* T1 ends with its commit, or goes on, or is rolled back with an error.
LEMMA PreparationRefines ==
  ASSUME IInv, Unanswered, NEW r \in Requests,
         ResolveConversation(r) \/ ConsumeSlot(r) \/ Secure(r) \/ AppendUserMessage(r)
  PROVE  Contract!Next \/ UNCHANGED <<Fate, Used, Stored, Told>>
<1>a. TypeOK /\ OwnsRecord(r) /\ TxAgrees(r)
  BY DEF IInv
<1>1. /\ pc[r] \in Owned \ {"begin"} /\ record[Slot(r)] = NoRecord
      /\ session[Sess(r)].status \in Status /\ {"active", "blocked"} \subseteq Status
  BY <1>a, RowTypes
  DEF ResolveConversation, ConsumeSlot, Secure, AppendUserMessage, Owned, OwnsRecord, Status
<1>2. reply[r].code # "ok" /\ UNCHANGED ask
  BY <1>1 DEF Unanswered, Owned, ResolveConversation, ConsumeSlot, Secure, AppendUserMessage, Refuse
<1>3. ASSUME NEW code \in Codes \ {"ok"}, Answer(r, code, None) PROVE Told' = Told
  <2>1. reply'[r].code # "ok" /\ \A q \in Requests \ {r} : reply'[q] = reply[q]
    BY <1>a, <1>3, AnswerFrame DEF TypeOK
  <2> QED BY <1>2, <2>1, ToldSame
<1>4. CASE \E code \in {"unavailable", "limit", "unsafe"}, ss \in Status : Refuse(r, code, ss)
  <2>1. PICK code \in {"unavailable", "limit", "unsafe"}, ss \in Status : Refuse(r, code, ss)
    BY <1>4
  <2>2. CommitPreparation(r, "failed", ss) /\ Answer(r, code, None) /\ code \in Codes \ {"ok"}
    BY <2>1 DEF Refuse, Codes
  <2>3. Told' = Told
    BY <1>3, <2>2
  <2> QED BY <1>1, <2>2, <2>3, CommitRefines
<1>5. CASE CommitPreparation(r, "processing", "active") /\ UNCHANGED reply /\ pc[r] = "user"
  <2>1. Told' = Told
    BY <1>2, <1>5, ToldSame
  <2>2. tx[r].slot
    BY <1>a, <1>5 DEF TxAgrees, Writing, Charged
  <2> QED BY <1>1, <1>5, <2>1, <2>2, CommitRefines
<1>6. CASE UNCHANGED <<session, record>> /\ (UNCHANGED reply \/ Answer(r, "internal", None))
  <2>1. Told' = Told
    <3>1. CASE UNCHANGED reply
      BY <1>2, <3>1, ToldSame
    <3>2. CASE Answer(r, "internal", None)
      BY <1>3, <3>2 DEF Codes
    <3> QED BY <1>6, <3>1, <3>2
  <2> QED BY <1>6, <2>1 DEF Fate, Used, Stored
<1> QED BY <1>1, <1>4, <1>5, <1>6
        DEF ResolveConversation, ConsumeSlot, Secure, AppendUserMessage, db

\* The other steps, which write no record and charge nothing, show nothing.
LEMMA OtherStepsStutter ==
  ASSUME IInv, Unanswered, NEW r \in Requests,
         \/ Validate(r) \/ Expire(r) \/ Lock(r) \/ ReadUserSequence(r) \/ Generate(r)
         \/ ReadAssistantSequence(r) \/ AppendAssistantMessage(r) \/ AttachCitations(r) \/ Crash(r)
  PROVE  UNCHANGED <<Fate, Used, Stored, Told>>
<1>a. TypeOK
  BY DEF IInv
<1>1. UNCHANGED <<record, ask>> /\ pc[r] # "done"
  BY DEF Validate, Expire, Lock, ReadUserSequence, Generate, ReadAssistantSequence,
         AppendAssistantMessage, AttachCitations, Crash, db
<1>2. \A s \in Sessions : session'[s].count = session[s].count
  <2>1. CASE Expire(r)
    <3>1. Sess(r) \in Sessions /\ session \in [Sessions -> SessionRow]
      BY <1>a, RowTypes DEF TypeOK
    <3> QED BY <2>1, <3>1 DEF Expire
  <2>2. CASE UNCHANGED session
    BY <2>2
  <2> QED BY <2>1, <2>2
      DEF Validate, Lock, ReadUserSequence, Generate, ReadAssistantSequence,
          AppendAssistantMessage, AttachCitations, Crash, db
<1>3. \/ UNCHANGED reply
      \/ \E code \in {"closed", "denied", "limit", "internal", "unsafe"} : Answer(r, code, None)
  BY DEF Validate, Expire, Lock, ReadUserSequence, Generate, ReadAssistantSequence,
         AppendAssistantMessage, AttachCitations, Crash
<1>4. Told' = Told
  <2>1. CASE UNCHANGED reply
    BY <1>1, <2>1, ToldSame
  <2>2. CASE \E code \in {"closed", "denied", "limit", "internal", "unsafe"} : Answer(r, code, None)
    <3>1. PICK code \in {"closed", "denied", "limit", "internal", "unsafe"} : Answer(r, code, None)
      BY <2>2
    <3>2. reply'[r].code # "ok" /\ \A q \in Requests \ {r} : reply'[q] = reply[q]
      BY <1>a, <3>1, AnswerFrame DEF TypeOK, Codes
    <3> QED BY <1>1, <3>2, ToldSame DEF Unanswered
  <2> QED BY <1>3, <2>1, <2>2
<1> QED BY <1>1, <1>2, <1>4 DEF Fate, Used, Stored

\* The two-transaction pipeline implements the contract of an idempotent,
\* slot-limited send: what the database shows of keys and slots and what clients
\* are told only ever changes by a step of MessageContract.
THEOREM Refinement == Spec => ImplementsContract
<1>1. Init => Contract!Init
  <2> SUFFICES ASSUME Init PROVE Contract!Init
    OBVIOUS
  <2>1. Fate = [sk \in Sessions \X Keys |-> "free"] /\ Stored = [sk \in Sessions \X Keys |-> None]
    BY DEF Init, Fate, Stored, FateOf, NoRecord
  <2>2. Used = [s \in Sessions |-> 0]
    BY DEF Init, Used
  <2>3. Told = {}
    BY DEF Init, Told
  <2> QED BY <2>1, <2>2, <2>3 DEF Contract!Init
<1>2. IInv /\ Unanswered /\ [Next]_vars => [Contract!Next]_(Contract!contract)
  <2> SUFFICES ASSUME IInv, Unanswered, [Next]_vars
               PROVE  Contract!Next \/ UNCHANGED <<Fate, Used, Stored, Told>>
    BY DEF Contract!contract
  <2>1. CASE UNCHANGED vars
    BY <2>1 DEF vars, db, Fate, Used, Stored, Told, Sess
  <2> QED BY <2>1, BeginRequestRefines, PreparationRefines, SettleRefines, OtherStepsStutter
      DEF Next, Step, Finished
<1> QED BY <1>1, <1>2, Invariance, UnansweredInvariance, PTL DEF Spec, ImplementsContract, Contract!Spec

====
