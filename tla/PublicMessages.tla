--------------------------- MODULE PublicMessages ---------------------------
(***************************************************************************)
(* The public widget message pipeline: POST /widget/{key}/messages.        *)
(*                                                                         *)
(* Every request runs in an API replica of its own and talks to one        *)
(* PostgreSQL database at READ COMMITTED.  A request is two transactions.  *)
(*                                                                         *)
(* T1, preparation: read the session row (no lock), then update it, which  *)
(* takes its row lock until T1 ends; look the idempotency key up, insert   *)
(* the record, attach a conversation, consume a message slot, pass the     *)
(* security checks, insert the user message.  Inserting the user message   *)
(* commits, so T1 ends there; any refusal before that commits the record   *)
(* as "failed", any unexpected error rolls all of T1 back.                 *)
(*                                                                         *)
(* T2, execution, without the lock: call the provider, insert the          *)
(* assistant message (commit), attach citations (commit), sanitise, mark   *)
(* the record completed (commit), reply.                                   *)
(*                                                                         *)
(* session, record, conversations and messages are committed rows; what a  *)
(* running T1 has written but not committed is in tx.                      *)
(***************************************************************************)
EXTENDS Integers, FiniteSets, FiniteSetsExt

CONSTANTS
  Requests,     \* HTTP requests, each served once by some replica
  Sessions,     \* public sessions
  Keys,         \* idempotency keys (their keyed hashes)
  Bodies,       \* canonical request bodies (their request hashes)
  MaxMessages,  \* policy.max_messages_per_session
  None          \* no lock holder, no conversation

ASSUME MessagesAssumption ==
  /\ MaxMessages \in Nat \ {0}
  /\ None \notin Requests

VARIABLES
  session,        \* public_sessions: status, message_count, conversation_id
  record,         \* public_message_requests, by session and key hash
  conversations,  \* chat_sessions rows, named by the request that created them
  messages,       \* chat_messages rows of each conversation
  lock,           \* holder of the row lock of each session row
  pc,             \* next step of each request
  tx,             \* uncommitted writes of each request's T1
  seqno,          \* sequence number a request read and is about to insert
  outcome,        \* how the generation of a request ended
  reply,          \* what the request answered
  ask             \* session, key and body each request carries

db     == <<session, record, conversations, messages>>
locals == <<tx, seqno, outcome>>
vars   == <<db, lock, pc, locals, reply, ask>>

Status    == {"active", "blocked", "expired"}
Owned     == {"begin", "resolve", "slot", "secure", "userseq", "user"}
Executing == {"generate", "assistantseq", "assistant", "cite", "fail", "finish"}
Steps     == {"idle", "expiring", "locking", "done", "crashed"} \cup Owned \cup Executing
Codes     == {"none", "ok", "in_progress", "conflict", "failed", "limit",
              "closed", "denied", "unavailable", "unsafe", "internal"}

Sess(r)  == ask[r].session
Slot(r)  == <<ask[r].session, ask[r].key>>

SessionRow == [status : Status, count : Nat, conv : Requests \cup {None}]
RecordRow  == [status : {"absent", "processing", "completed", "failed"},
               body : Bodies \cup {None}, owner : Requests \cup {None}, slot : BOOLEAN]
MessageRow == [seq : Nat, role : {"user", "assistant"}, by : Requests]
TxState    == [conv : Requests \cup {None}, made : BOOLEAN, slot : BOOLEAN]
Response   == [code : Codes, by : Requests \cup {None}]
Question   == [session : Sessions, key : Keys, body : Bodies]

NoRecord == [status |-> "absent", body |-> None, owner |-> None, slot |-> FALSE]
NoTx     == [conv |-> None, made |-> FALSE, slot |-> FALSE]

Goto(r, step) == pc' = [pc EXCEPT ![r] = step]

\* The handler answers the client and the request is over.
Answer(r, code, by) ==
  /\ Goto(r, "done")
  /\ reply' = [reply EXCEPT ![r] = [code |-> code, by |-> by]]

\* The uncommitted writes of r's T1: the conversation it uses, whether it has
\* inserted that conversation, whether it has consumed a slot.
Hold(r, conv, made, slot) ==
  tx' = [tx EXCEPT ![r] = [conv |-> conv, made |-> made, slot |-> slot]]

\* UPDATE public_message_requests SET status WHERE status = 'processing'.
SettleRecord(r, status) ==
  record' = [record EXCEPT ![Slot(r)] =
               [status |-> status, body |-> @.body, owner |-> @.owner, slot |-> @.slot]]

\* COMMIT or ROLLBACK ends the transaction and frees the session row.
Unlock(r) == lock' = [lock EXCEPT ![Sess(r)] = None]

\* Variants: an in-progress key is taken for abandoned; a failed key may be
\* sent again.
LookupSkippingProcessing(r) ==
  IF record[Slot(r)].status = "processing" THEN NoRecord ELSE record[Slot(r)]
LookupSkippingFailed(r) ==
  IF record[Slot(r)].status = "failed" THEN NoRecord ELSE record[Slot(r)]

\* get_by_session_and_key_hash: expires_at is not consulted.
Lookup(r) == record[Slot(r)]

\* Variant: the request hash is not compared.
AnyBody(known, r) == TRUE

SameBody(known, r) == known.body = ask[r].body

\* Variants: a session may be charged once more than its maximum; or though it
\* is no longer active.
SlotLeftOffByOne(row) == row.status = "active" /\ row.count <= MaxMessages

\* The WHERE clause of atomically_increment_message_count.
SlotLeft(row) == row.status = "active" /\ row.count < MaxMessages

\* Variant: the request that lost the race keeps the row it created.
FollowKeepingOwnRow(r, c) == Hold(r, c, TRUE, FALSE)

\* Another request attached a conversation first: delete ours, take theirs.
Follow(r, c) == Hold(r, c, FALSE, FALSE)

\* max(sequence_number) + 1 over the committed rows.
Numbers(c) == {m.seq : m \in messages[c]}
NextSequence(c) == Max(Numbers(c) \cup {0}) + 1

\* Unique (conversation_id, sequence_number): a number already taken is refused.
SequenceFree(c, n) == \A m \in messages[c] : m.seq # n

\* Variant: the row goes to the request's own conversation, not the attached one.
InsertMessageInOwn(r, c, role) ==
  messages' = [messages EXCEPT ![r] = @ \cup {[seq |-> seqno[r], role |-> role, by |-> r]}]

InsertMessage(r, c, role) ==
  messages' = [messages EXCEPT ![c] = @ \cup {[seq |-> seqno[r], role |-> role, by |-> r]}]

CountAfter(r) == session[Sess(r)].count + (IF tx[r].slot THEN 1 ELSE 0)

\* COMMIT of T1: the record with the given status, the slot, the conversation.
CommitPreparation(r, recordStatus, sessionStatus) ==
  /\ session' = [session EXCEPT ![Sess(r)] =
                   [status |-> sessionStatus,
                    count  |-> CountAfter(r),
                    conv   |-> tx[r].conv]]
  /\ record' = [record EXCEPT ![Slot(r)] =
                   [status |-> recordStatus, body |-> ask[r].body,
                    owner |-> r, slot |-> tx[r].slot]]
  /\ conversations' = IF tx[r].made THEN conversations \cup {r} ELSE conversations
  /\ Unlock(r)

\* mark_failed, then the error reaches the handler, which commits.
Refuse(r, code, sessionStatus) ==
  /\ CommitPreparation(r, "failed", sessionStatus)
  /\ Answer(r, code, None)
  /\ UNCHANGED <<messages, locals, ask>>

-----------------------------------------------------------------------------
Init ==
  /\ session = [s \in Sessions |-> [status |-> "active", count |-> 0, conv |-> None]]
  /\ record = [sk \in Sessions \X Keys |-> NoRecord]
  /\ conversations = {}
  /\ messages = [c \in Requests |-> {}]
  /\ lock = [s \in Sessions |-> None]
  /\ pc = [r \in Requests |-> "idle"]
  /\ tx = [r \in Requests |-> NoTx]
  /\ seqno = [r \in Requests |-> 0]
  /\ outcome = [r \in Requests |-> "none"]
  /\ reply = [r \in Requests |-> [code |-> "none", by |-> None]]
  /\ ask \in [Requests -> Question]

\* validate_session reads the row without a lock.  Whether the request arrived
\* past expires_at is left open: time may pass between any two steps.
Validate(r) ==
  LET row == session[Sess(r)] IN
  /\ pc[r] = "idle"
  /\ \/ /\ row.status # "active"
        /\ Answer(r, "closed", None)
        /\ UNCHANGED tx
     \/ /\ row.status = "active"
        /\ Goto(r, "expiring")
        /\ UNCHANGED <<reply, tx>>
     \/ /\ row.status = "active"
        /\ Answer(r, "denied", None)
        /\ UNCHANGED tx
     \/ /\ row.status = "active"
        /\ row.count >= MaxMessages
        /\ Answer(r, "limit", None)
        /\ UNCHANGED tx
     \/ /\ row.status = "active"
        /\ row.count < MaxMessages
        /\ Follow(r, row.conv)
        /\ Goto(r, "locking")
        /\ UNCHANGED reply
  /\ UNCHANGED <<db, lock, seqno, outcome, ask>>

\* mark_status(expired) where the row is still active, then commit.
Expire(r) ==
  /\ pc[r] = "expiring"
  /\ lock[Sess(r)] = None
  /\ session' = [session EXCEPT ![Sess(r)] =
                   [status |-> IF @.status = "active" THEN "expired" ELSE @.status,
                    count |-> @.count, conv |-> @.conv]]
  /\ Answer(r, "closed", None)
  /\ UNCHANGED <<record, conversations, messages, lock, locals, ask>>

\* update_valid_activity: the UPDATE waits for the row lock and keeps it.
Lock(r) ==
  /\ pc[r] = "locking"
  /\ lock[Sess(r)] = None
  /\ lock' = [lock EXCEPT ![Sess(r)] = r]
  /\ Goto(r, "begin")
  /\ UNCHANGED <<db, locals, reply, ask>>

\* begin_request and mark_processing; a key already there is a duplicate.
BeginRequest(r) ==
  LET known == Lookup(r) IN
  /\ pc[r] = "begin"
  /\ \/ /\ known.status = "absent"
        /\ Goto(r, "resolve")
        /\ UNCHANGED <<lock, reply>>
     \/ /\ known.status # "absent"
        /\ ~SameBody(known, r)
        /\ Answer(r, "conflict", None)
        /\ Unlock(r)
     \/ /\ known.status = "completed"
        /\ SameBody(known, r)
        /\ Answer(r, "ok", known.owner)
        /\ Unlock(r)
     \/ /\ known.status = "processing"
        /\ SameBody(known, r)
        /\ Answer(r, "in_progress", None)
        /\ Unlock(r)
     \/ /\ known.status = "failed"
        /\ SameBody(known, r)
        /\ Answer(r, "failed", None)
        /\ Unlock(r)
  /\ UNCHANGED <<db, locals, ask>>

\* _resolve_or_create_conversation.  A session seen without a conversation gets
\* a new row, attached only if the session row still has none and is active;
\* otherwise the new row is deleted again.
ResolveConversation(r) ==
  LET row == session[Sess(r)] IN
  /\ pc[r] = "resolve"
  /\ \/ /\ tx[r].conv # None
        /\ Goto(r, "slot")
        /\ UNCHANGED <<db, lock, locals, reply, ask>>
     \/ /\ tx[r].conv = None
        /\ row.conv = None
        /\ row.status = "active"
        /\ Hold(r, r, TRUE, FALSE)
        /\ Goto(r, "slot")
        /\ UNCHANGED <<db, lock, seqno, outcome, reply, ask>>
     \/ /\ tx[r].conv = None
        /\ row.conv # None
        /\ Follow(r, row.conv)
        /\ Goto(r, "slot")
        /\ UNCHANGED <<db, lock, seqno, outcome, reply, ask>>
     \/ /\ tx[r].conv = None
        /\ row.conv = None
        /\ row.status # "active"
        /\ Refuse(r, "unavailable", row.status)

\* atomically_increment_message_count: conditional UPDATE on the current row.
ConsumeSlot(r) ==
  LET row == session[Sess(r)] IN
  /\ pc[r] = "slot"
  /\ \/ /\ SlotLeft(row)
        /\ Hold(r, tx[r].conv, tx[r].made, TRUE)
        /\ Goto(r, "secure")
        /\ UNCHANGED <<db, lock, seqno, outcome, reply, ask>>
     \/ /\ ~SlotLeft(row)
        /\ Refuse(r, "limit", row.status)

\* Abuse and cost checks, then the tenant checks of the RAG orchestrator.
Secure(r) ==
  /\ pc[r] = "secure"
  /\ \/ /\ Goto(r, "userseq")
        /\ UNCHANGED <<db, lock, locals, reply, ask>>
     \/ Refuse(r, "unsafe", "active")
     \/ Refuse(r, "unsafe", "blocked")
     \/ Refuse(r, "unavailable", "active")

ReadUserSequence(r) ==
  /\ pc[r] = "userseq"
  /\ seqno' = [seqno EXCEPT ![r] = NextSequence(tx[r].conv)]
  /\ Goto(r, "user")
  /\ UNCHANGED <<db, lock, tx, outcome, reply, ask>>

\* append_user_message commits T1; a taken number rolls T1 back.
AppendUserMessage(r) ==
  /\ pc[r] = "user"
  /\ \/ /\ SequenceFree(tx[r].conv, seqno[r])
        /\ InsertMessage(r, tx[r].conv, "user")
        /\ CommitPreparation(r, "processing", "active")
        /\ Goto(r, "generate")
        /\ UNCHANGED <<locals, reply, ask>>
     \/ /\ ~SequenceFree(tx[r].conv, seqno[r])
        /\ Answer(r, "internal", None)
        /\ Unlock(r)
        /\ UNCHANGED <<db, locals, ask>>

\* Retrieval and provider call.  An error outside the provider call reaches
\* the handler as an unexpected exception: rolled back, record untouched.
Generate(r) ==
  /\ pc[r] = "generate"
  /\ \/ \E o \in {"answered", "provider_failed"} :
          /\ outcome' = [outcome EXCEPT ![r] = o]
          /\ Goto(r, "assistantseq")
          /\ UNCHANGED reply
     \/ /\ Answer(r, "internal", None)
        /\ UNCHANGED outcome
  /\ UNCHANGED <<db, lock, tx, seqno, ask>>

ReadAssistantSequence(r) ==
  /\ pc[r] = "assistantseq"
  /\ seqno' = [seqno EXCEPT ![r] = NextSequence(tx[r].conv)]
  /\ Goto(r, "assistant")
  /\ UNCHANGED <<db, lock, tx, outcome, reply, ask>>

\* append_assistant_message: inserted and committed, or the number is taken.
AppendAssistantMessage(r) ==
  /\ pc[r] = "assistant"
  /\ \/ /\ SequenceFree(tx[r].conv, seqno[r])
        /\ InsertMessage(r, tx[r].conv, "assistant")
        /\ Goto(r, IF outcome[r] = "answered" THEN "cite" ELSE "fail")
        /\ UNCHANGED reply
     \/ /\ ~SequenceFree(tx[r].conv, seqno[r])
        /\ Answer(r, "internal", None)
        /\ UNCHANGED messages
  /\ UNCHANGED <<session, record, conversations, lock, locals, ask>>

\* The failure path of the adapter: processing -> failed, committed.
MarkFailed(r) ==
  /\ pc[r] = "fail"
  /\ IF record[Slot(r)].status = "processing"
       THEN SettleRecord(r, "failed") ELSE UNCHANGED record
  /\ Answer(r, "unavailable", None)
  /\ UNCHANGED <<session, conversations, messages, lock, locals, ask>>

\* attach_citations commits; a citation of a chunk not found is a ValueError that the
\* gateway turns into a refusal without touching the record.
AttachCitations(r) ==
  /\ pc[r] = "cite"
  /\ \/ /\ Goto(r, "finish")
        /\ UNCHANGED reply
     \/ Answer(r, "unsafe", None)
  /\ UNCHANGED <<db, lock, locals, ask>>

\* Output sanitisation, then mark_completed and the handler's commit.
Complete(r) ==
  /\ pc[r] = "finish"
  /\ \/ /\ record[Slot(r)].status = "processing"
        /\ SettleRecord(r, "completed")
        /\ Answer(r, "ok", r)
     \/ /\ record[Slot(r)].status # "processing"
        /\ Answer(r, "unavailable", None)
        /\ UNCHANGED record
     \/ /\ Answer(r, "internal", None)
        /\ UNCHANGED record
  /\ UNCHANGED <<session, conversations, messages, lock, locals, ask>>

\* The replica dies: an open T1 is rolled back and its row lock released.
Crash(r) ==
  /\ pc[r] \notin {"idle", "done", "crashed"}
  /\ Goto(r, "crashed")
  /\ lock' = IF pc[r] \in Owned THEN [lock EXCEPT ![Sess(r)] = None] ELSE lock
  /\ UNCHANGED <<db, locals, reply, ask>>

\* All requests are over: the only state without a step.
Finished ==
  /\ \A r \in Requests : pc[r] \in {"done", "crashed"}
  /\ UNCHANGED vars

Step(r) ==
  \/ Expire(r) \/ Lock(r) \/ BeginRequest(r) \/ ResolveConversation(r)
  \/ ConsumeSlot(r) \/ Secure(r) \/ ReadUserSequence(r) \/ AppendUserMessage(r)
  \/ Generate(r) \/ ReadAssistantSequence(r) \/ AppendAssistantMessage(r)
  \/ MarkFailed(r) \/ AttachCitations(r) \/ Complete(r)

Next ==
  \/ \E r \in Requests : Validate(r) \/ Step(r) \/ Crash(r)
  \/ Finished

Spec == Init /\ [][Next]_vars

-----------------------------------------------------------------------------
(***************************************************************************)
(* Properties.                                                             *)
(***************************************************************************)

\* The shapes of the rows and of each request's local state.
TypeOK ==
  /\ session \in [Sessions -> SessionRow]
  /\ record \in [Sessions \X Keys -> RecordRow]
  /\ conversations \subseteq Requests
  /\ messages \in [Requests -> SUBSET MessageRow]
  /\ lock \in [Sessions -> Requests \cup {None}]
  /\ pc \in [Requests -> Steps]
  /\ tx \in [Requests -> TxState]
  /\ seqno \in [Requests -> Nat]
  /\ outcome \in [Requests -> {"none", "answered", "provider_failed"}]
  /\ reply \in [Requests -> Response]
  /\ ask \in [Requests -> Question]

\* A request is admitted once its user message is stored.
Admitted(r) == \E c \in Requests : \E m \in messages[c] : m.role = "user" /\ m.by = r

\* However many times a key is sent, and however the sends overlap or crash,
\* one of them at most stores a user message and goes on to the provider.
AtMostOncePerKey ==
  \A r1, r2 \in Requests :
    Admitted(r1) /\ Admitted(r2) /\ Slot(r1) = Slot(r2) => r1 = r2

\* message_count is the number of keys that were charged a slot, in-flight and
\* rolled-back requests not counted, and never passes the policy's maximum.
SlotsAccounted ==
  \A s \in Sessions :
    /\ session[s].count = Cardinality({k \in Keys : record[<<s, k>>].slot})
    /\ session[s].count <= MaxMessages

\* Requests racing on a fresh session agree on one conversation: every message
\* is in the conversation of its session, and no conversation row is orphaned.
OneConversation ==
  /\ \A c \in Requests : \A m \in messages[c] : session[Sess(m.by)].conv = c
  /\ \A c \in conversations : \E s \in Sessions : session[s].conv = c

\* max()+1 under concurrent appends leaves neither a gap nor a repetition.
SequencesContiguous ==
  \A c \in Requests : Numbers(c) = 1..Cardinality(messages[c])

\* A session keeps one conversation, numbered without gap or repetition, however
\* its first messages race and however its appends overlap: the loser's row is
\* deleted, and a number read before another's insert is refused.
ConversationWhole == OneConversation /\ SequencesContiguous

\* A completed record has its owner's question and, after it, its answer in the
\* conversation attached to the session.
CompletedIsPersisted ==
  \A s \in Sessions, k \in Keys :
    record[<<s, k>>].status = "completed" =>
      \E q, a \in messages[session[s].conv] :
        /\ q.role = "user" /\ q.by = record[<<s, k>>].owner
        /\ a.role = "assistant" /\ a.by = record[<<s, k>>].owner
        /\ q.seq < a.seq

\* Every 200 sent for a key carries the stored answer of that key, and that
\* answer was generated for the body the request carried.
RepliesAgree ==
  \A r \in Requests :
    reply[r].code = "ok" =>
      /\ record[Slot(r)].status = "completed"
      /\ reply[r].by = record[Slot(r)].owner
      /\ ask[reply[r].by] = ask[r]

\* A record whose owner has answered is left in processing by the error paths
\* that skip mark_failed, and by those only.
StrandedExplained ==
  \A s \in Sessions, k \in Keys :
    record[<<s, k>>].status = "processing" =>
      LET r == record[<<s, k>>].owner IN
      \/ pc[r] \in Executing \cup {"crashed"}
      \/ pc[r] = "done" /\ reply[r].code \in {"internal", "unsafe"}

\* Idempotency records tell the truth about the conversation at every crash: a
\* completed one has its question and answer stored, and one still processing
\* is being executed, crashed, or was left by an error path that skips
\* mark_failed.
RecordsAreTrue == CompletedIsPersisted /\ StrandedExplained

\* A session that was blocked or expired before a request got its row lock is
\* not charged for it, whatever the request had read before.
ChargesWhileActive ==
  \A s \in Sessions :
    session[s].count # session'[s].count =>
      session[s].status = "active" /\ session'[s].count = session[s].count + 1

\* A key is claimed once, settles once, and keeps its owner, body and charge.
SettlesOnce ==
  \A s \in Sessions, k \in Keys :
    LET old == record[<<s, k>>]
        new == record'[<<s, k>>]
    IN old # new =>
         \/ old.status = "absent" /\ new.status \in {"processing", "failed"}
         \/ /\ old.status = "processing" /\ new.status \in {"completed", "failed"}
            /\ new = [old EXCEPT !.status = new.status]

\* Charges and records move forward only: no step charges a session that is
\* not active, and none frees, reopens or hands over a key.
ChargesAndRecordsAdvance == [][ChargesWhileActive /\ SettlesOnce]_vars
-----------------------------------------------------------------------------
(***************************************************************************)
(* The inductive invariant behind the safety properties above.             *)
(***************************************************************************)

Writing == {"slot", "secure", "userseq", "user"}
Charged == {"secure", "userseq", "user"}

\* Exactly the requests inside T1 hold the row lock of their session.
LockHeld ==
  /\ \A r \in Requests : pc[r] \in Owned <=> lock[Sess(r)] = r
  /\ \A s \in Sessions : lock[s] # None => Sess(lock[s]) = s

\* What T1 carries agrees with the locked session row.
TxAgrees(r) ==
  /\ pc[r] = "idle" => tx[r] = NoTx
  /\ pc[r] \in {"locking", "begin", "resolve"} =>
       /\ ~tx[r].made /\ ~tx[r].slot
       /\ tx[r].conv # None => tx[r].conv = session[Sess(r)].conv
  /\ pc[r] \in Writing =>
       /\ tx[r].conv # None
       /\ IF tx[r].made THEN tx[r].conv = r /\ session[Sess(r)].conv = None
                        ELSE tx[r].conv = session[Sess(r)].conv
       /\ tx[r].slot <=> pc[r] \in Charged
  /\ pc[r] \in Charged =>
       session[Sess(r)].status = "active" /\ session[Sess(r)].count < MaxMessages
  /\ pc[r] \in Executing => tx[r].conv = session[Sess(r)].conv /\ tx[r].conv # None

\* A key is free or belongs to one request, which is past T1.
KeyOwned(sk) ==
  \/ record[sk] = NoRecord
  \/ /\ record[sk].status # "absent"
     /\ record[sk].owner \in Requests
     /\ Slot(record[sk].owner) = sk
     /\ record[sk].body = ask[record[sk].owner].body
     /\ pc[record[sk].owner] \in Executing \cup {"done", "crashed"}

\* In T1 past the lookup a request's key is free; an executing request owns it.
OwnsRecord(r) ==
  /\ pc[r] \in Owned \ {"begin"} => record[Slot(r)] = NoRecord
  /\ pc[r] \in Executing =>
       record[Slot(r)].status = "processing" /\ record[Slot(r)].owner = r

\* Messages are written by owners of keys, into the session's conversation.
MessagesOwned ==
  \A c \in Requests : \A m \in messages[c] :
    /\ session[Sess(m.by)].conv = c
    /\ record[Slot(m.by)].status # "absent"
    /\ record[Slot(m.by)].owner = m.by

\* A number read for the next message can only have been taken since.
NumberRead(r) ==
  pc[r] \in {"user", "assistant"} =>
    seqno[r] \in 1..(Cardinality(messages[tx[r].conv]) + 1)

IInv ==
  /\ TypeOK
  /\ LockHeld
  /\ \A r \in Requests : TxAgrees(r) /\ OwnsRecord(r) /\ NumberRead(r)
  /\ \A sk \in Sessions \X Keys : KeyOwned(sk)
  /\ \A c \in Requests : IsFiniteSet(messages[c])
  /\ MessagesOwned
  /\ RepliesAgree
  /\ SequencesContiguous

-----------------------------------------------------------------------------
(***************************************************************************)
(* The pipeline implements the contract: fate is the committed status of   *)
(* the record, used the committed count, told the 200 responses.           *)
(***************************************************************************)

FateOf(status) ==
  CASE status = "absent" -> "free"
    [] status = "processing" -> "open"
    [] status = "completed" -> "answered"
    [] OTHER -> "refused"

Fate   == [sk \in Sessions \X Keys |-> FateOf(record[sk].status)]
Used   == [s \in Sessions |-> session[s].count]
Stored == [sk \in Sessions \X Keys |->
             IF record[sk].status = "completed" THEN <<record[sk].body, record[sk].owner>> ELSE None]
Told   == {<<Sess(r), ask[r].key, <<ask[r].body, reply[r].by>>>> :
             r \in {q \in Requests : reply[q].code = "ok"}}

Contract == INSTANCE MessageContract WITH
  fate <- Fate, used <- Used, answer <- Stored, told <- Told

\* Seen through its committed rows and its 200 responses, the two-transaction
\* pipeline takes exactly the steps the contract allows.
ImplementsContract == Contract!Spec
=============================================================================
