------------------------- MODULE WidgetConversation -------------------------
(***************************************************************************)
(* A visitor's conversation, from the widget's composer to the API's       *)
(* idempotency records: the conversation client in the iframe, the calls   *)
(* between it and the API, and the part of the API it depends on.          *)
(*                                                                         *)
(* The client sends one message at a time.  It opens a session with the    *)
(* first, sends each message at most twice under one key, gives a call up  *)
(* after its timeout or when the network fails, and offers the visitor a   *)
(* Retry.  A call given up may still be served, later and beside others.   *)
(* The timer runs until the headers of a reply arrive: nothing bounds the  *)
(* time its body takes.                                                    *)
(*                                                                         *)
(* A refusal's body is {"error": {"code": ...}}, while the client looks    *)
(* for "code" at the top of it: the client learns the HTTP status only.    *)
(* A refused session creation carries no Access-Control-Allow-Origin, so   *)
(* the browser withholds even that: GiveUp covers it.                      *)
(***************************************************************************)
EXTENDS Integers, FiniteSets

CONSTANTS
  MaxSends,     \* bound: logical sends, each with an idempotency key of its own
  MaxSessions,  \* bound: public sessions the API creates
  MaxMessages,  \* message slots of a session
  MaxCalls,     \* bound: calls made; a send starts only if it can make all of its own
  None

VARIABLES
  token,     \* the session the client holds, in memory and in sessionStorage
  shown,     \* the published session state: status and remaining messages
  thread,    \* the states in which the conversation shows each send: a Retry under
             \* the same key shows it once more, beside what it showed before
  text,      \* what each send says, named by the send it was first typed for
  active,    \* the send under way
  failed,    \* the sends that may be retried, with the code they failed with
  calls,     \* HTTP calls not yet answered, or answered and not yet heard
  made,      \* calls made so far
  lapsed,    \* sessions past the expiry time the client was told
  sessions,  \* public_sessions: status and message count
  records    \* public_message_requests, by session and key

client == <<token, shown, thread, text, active, failed>>
vars   == <<client, calls, made, lapsed, sessions, records>>

Sends        == 1 .. MaxSends
Sessions     == 1 .. MaxSessions
Sources      == {"composer", "suggestion", "retry"}
MaxAttempts  == 2
Refusals     == {"invalid_session", "session_limit_reached", "idempotency_conflict",
                 "request_in_progress", "unsafe_request", "rate_limited",
                 "temporarily_unavailable", "safe_internal_error"}
ClientCodes  == Refusals \cup {"session_expired", "message_rejected", "request_timeout"}
ShownStates  == {"sending", "answered", "failed", "retryable"}

ActiveSend   == [key : Sends, source : Sources, stage : {"session", "answer", "pause"},
                 attempt : 1 .. MaxAttempts]
SessionRow   == [status : {"unborn", "active", "ended"}, used : 0 .. MaxMessages]
RecordRow    == [status : {"absent", "processing", "completed", "failed"},
                 source : Sources \cup {None}, left : 0 .. MaxMessages]
Call         == [id : 1 .. MaxCalls, key : Sends, source : Sources,
                 token : Sessions \cup {None}, stage : {"out", "working", "back", "body"},
                 reply : Refusals \cup {"ok", None}, left : 0 .. MaxMessages,
                 awaited : BOOLEAN]
SessionState == [status : {"none", "creating", "active", "expired", "invalid", "unavailable"},
                 remaining : 0 .. MaxMessages \cup {None}]

ASSUME ConversationAssumption ==
  /\ MaxSends \in Nat /\ MaxSessions \in Nat
  /\ MaxMessages \in Nat \ {0}
  /\ MaxCalls \in Nat
  /\ None \notin Nat \cup ClientCodes \cup ActiveSend

-----------------------------------------------------------------------------
(* What the client makes of a refusal.                                     *)

HttpStatus(code) ==
  CASE code = "invalid_session" -> 401
    [] code \in {"session_limit_reached", "rate_limited"} -> 429
    [] code \in {"idempotency_conflict", "request_in_progress"} -> 409
    [] code = "unsafe_request" -> 400
    [] code = "temporarily_unavailable" -> 503
    [] OTHER -> 500

\* body?.code of {"error": {"code": code}}.
BodyCode(code) == None

SafeCode(code) ==
  CASE BodyCode(code) # None -> BodyCode(code)
    [] HttpStatus(code) = 429 -> "rate_limited"
    [] HttpStatus(code) = 503 -> "temporarily_unavailable"
    [] OTHER -> "message_rejected"

\* body?.retryable is absent too.
Retryable(code) == HttpStatus(code) >= 500 \/ HttpStatus(code) = 429

SendsAgain(code, retryable, attempt) ==
  /\ retryable
  /\ code \in {"request_timeout", "temporarily_unavailable", "request_in_progress"}
  /\ attempt < MaxAttempts

OffersRetry(code, retryable) ==
  retryable \/ code \in {"invalid_session", "session_expired", "request_timeout",
                         "temporarily_unavailable"}

EndsSession(code) == code \in {"invalid_session", "session_expired"}

\* Variant: every retry is a new operation.
NeedsFreshKeyAlways(code) == TRUE

NeedsFreshKey(code) ==
  code \in {"invalid_session", "session_expired", "session_limit_reached"}

-----------------------------------------------------------------------------
(* The client.                                                             *)

Usable(s) == s # None /\ s \notin lapsed

Post(key, source, s, rest) ==
  /\ made' = made + 1
  /\ calls' = rest \cup
       {[id |-> made + 1, key |-> key, source |-> source, token |-> s,
         stage |-> "out", reply |-> None, left |-> 0, awaited |-> TRUE]}

Publish(status, remaining) == shown' = [status |-> status, remaining |-> remaining]

\* The send starts: two entries are appended under its ids, beside those an
\* earlier try under the same key left, and the message is posted to the session
\* at hand, or a session is created first.
Begin(key, source, words) ==
  /\ made + MaxAttempts + 1 <= MaxCalls
  /\ thread' = [thread EXCEPT ![key] = @ \cup {"sending"}]
  /\ text' = [text EXCEPT ![key] = words]
  /\ active' = [key |-> key, source |-> source, attempt |-> 1,
                stage |-> IF Usable(token) THEN "answer" ELSE "session"]
  /\ IF Usable(token) THEN UNCHANGED <<token, shown>>
     ELSE token' = None /\ Publish("creating", None)
  /\ Post(key, source, IF Usable(token) THEN token ELSE None, calls)

\* The composer is disabled while a send runs, once the session has no message
\* left, and once it is known to have ended.
ComposerEnabled == shown.status \notin {"expired", "invalid"} /\ shown.remaining # 0

\* Keys are taken in order, so that of the unused ones only the first is fresh.
Fresh(key) ==
  /\ text[key] = None
  /\ \A k \in 1 .. key - 1 : text[k] # None

\* Suggestions are offered while the conversation has no entry.
Submit(key, source) ==
  /\ active = None
  /\ Fresh(key)
  /\ \/ source = "composer" /\ ComposerEnabled
     \/ source = "suggestion" /\ \A k \in Sends : thread[k] = {}
  /\ Begin(key, source, key)
  /\ UNCHANGED <<failed, lapsed, sessions, records>>

\* The visitor's Retry, possible whatever the composer says.  While a send runs
\* it is ignored.
Retry(key) ==
  /\ active = None
  /\ failed[key] # None
  /\ failed' = [failed EXCEPT ![key] = None]
  /\ IF NeedsFreshKey(failed[key])
     THEN \E fresh \in Sends :
            /\ Fresh(fresh)
            /\ Begin(fresh, "retry", text[key])
     ELSE Begin(key, "retry", text[key])
  /\ UNCHANGED <<lapsed, sessions, records>>

\* Variant: the orchestrator stays busy after a failure without a retry.
EndFailedStayingBusy(code, retryable) ==
  /\ thread' = [thread EXCEPT ![active.key] =
                  {IF OffersRetry(code, retryable) THEN "retryable" ELSE "failed"}]
  /\ failed' = IF OffersRetry(code, retryable) THEN [failed EXCEPT ![active.key] = code]
               ELSE failed
  /\ active' = IF OffersRetry(code, retryable) THEN None ELSE active

\* failLogicalSend changes every entry with the send's ids; failedSends keeps the
\* send when a retry may help.
EndFailed(code, retryable) ==
  /\ thread' = [thread EXCEPT ![active.key] =
                  {IF OffersRetry(code, retryable) THEN "retryable" ELSE "failed"}]
  /\ failed' = IF OffersRetry(code, retryable) THEN [failed EXCEPT ![active.key] = code]
               ELSE failed
  /\ active' = None

\* The catch block of sendMessage, and the orchestrator's when it gives up.
Fail(code, retryable) ==
  /\ IF EndsSession(code) THEN token' = None /\ Publish("invalid", None)
     ELSE IF active.stage = "session"
     THEN UNCHANGED token /\ Publish("unavailable", shown.remaining)
     ELSE UNCHANGED <<token, shown>>
  /\ IF active.stage = "answer" /\ SendsAgain(code, retryable, active.attempt)
     THEN active' = [active EXCEPT !.stage = "pause"] /\ UNCHANGED <<thread, failed>>
     ELSE EndFailed(code, retryable)

\* The session is stored and published, and the message goes out.
HearSession(c) ==
  /\ token' = c.token
  /\ Publish("active", c.left)
  /\ active' = [active EXCEPT !.stage = "answer"]
  /\ Post(active.key, active.source, c.token, calls \ {c})
  /\ UNCHANGED <<thread, text, failed>>

\* updateFromMessage, markUserSent and resolveAssistant, for every entry with the
\* send's ids.
HearAnswer(c) ==
  /\ IF token # None THEN Publish("active", c.left) ELSE UNCHANGED shown
  /\ thread' = [thread EXCEPT ![active.key] = {"answered"}]
  /\ failed' = [failed EXCEPT ![active.key] = None]
  /\ active' = None
  /\ calls' = calls \ {c}
  /\ UNCHANGED <<token, text, made>>

\* The headers of an answer arrive, and the timer is cleared.
HearHeaders(c) ==
  /\ c.awaited /\ c.stage = "back" /\ c.reply = "ok"
  /\ calls' = (calls \ {c}) \cup {[c EXCEPT !.stage = "body"]}
  /\ UNCHANGED <<client, made, lapsed, sessions, records>>

\* The body of an answer has arrived, and is what was asked for.
HearBody(c) ==
  /\ c.awaited /\ c.stage = "body"
  /\ \/ active.stage = "session" /\ HearSession(c)
     \/ active.stage = "answer" /\ HearAnswer(c)
  /\ UNCHANGED <<lapsed, sessions, records>>

\* The connection breaks in the middle of a body, or the body cannot be read.
BodyFails(c) ==
  /\ c.awaited /\ c.stage = "body"
  /\ Fail("safe_internal_error", FALSE)
  /\ calls' = calls \ {c}
  /\ UNCHANGED <<text, made, lapsed, sessions, records>>

\* Variant: a conflict is taken for an answer sent before.
HearTrustingConflict(c) ==
  /\ c.awaited /\ c.stage = "back"
  /\ \/ c.reply = "idempotency_conflict" /\ active.stage = "answer" /\ HearAnswer(c)
     \/ /\ c.reply \in Refusals \ {"idempotency_conflict"}
        /\ Fail(SafeCode(c.reply), Retryable(c.reply))
        /\ calls' = calls \ {c}
        /\ UNCHANGED <<text, made>>
  /\ UNCHANGED <<lapsed, sessions, records>>

\* A refusal is read under the timer, and needs no body.
HearRefusal(c) ==
  /\ c.awaited /\ c.stage = "back"
  /\ c.reply \in Refusals
  /\ Fail(SafeCode(c.reply), Retryable(c.reply))
  /\ calls' = calls \ {c}
  /\ UNCHANGED <<text, made, lapsed, sessions, records>>

\* The timeout aborts the call, the network loses the request or the reply, or
\* the browser withholds a refusal without CORS headers, all before the headers of
\* an answer arrive.  The call itself may go on; its reply is no longer heard.
GiveUp(c) ==
  /\ c.awaited /\ c.stage # "body"
  /\ Fail("request_timeout", TRUE)
  /\ calls' = (calls \ {c}) \cup
       (IF c.stage = "back" THEN {} ELSE {[c EXCEPT !.awaited = FALSE]})
  /\ UNCHANGED <<text, made, lapsed, sessions, records>>

\* The delay is over: the same message, session and key once more.
SendAgain ==
  /\ active # None
  /\ active.stage = "pause"
  /\ active' = [active EXCEPT !.stage = "answer", !.attempt = @ + 1]
  /\ Post(active.key, active.source, token, calls)
  /\ UNCHANGED <<token, shown, thread, text, failed, lapsed, sessions, records>>

\* The page is left and opened again: what was in memory is gone, the stored
\* session is restored unless it has lapsed or belongs to another published
\* configuration.  Keys of an earlier page are never used again.
Reload ==
  /\ active' = None
  /\ thread' = [k \in Sends |-> {}]
  /\ failed' = [k \in Sends |-> None]
  /\ calls' = {[c EXCEPT !.awaited = FALSE] : c \in {d \in calls : d.stage \in {"out", "working"}}}
  /\ \/ /\ Usable(token)
        /\ UNCHANGED <<token, shown>>
     \/ token' = None /\ Publish("none", None)
  /\ UNCHANGED <<text, made, lapsed, sessions, records>>

\* The expiry time the client was told passes.
Lapse(s) ==
  /\ sessions[s].status # "unborn"
  /\ s \notin lapsed
  /\ lapsed' = lapsed \cup {s}
  /\ UNCHANGED <<client, calls, made, sessions, records>>

-----------------------------------------------------------------------------
(* The API.                                                                *)

Left(s) == MaxMessages - sessions[s].used

Reply(c, code, s, left) ==
  calls' = (calls \ {c}) \cup
    (IF c.awaited THEN {[c EXCEPT !.stage = "back", !.reply = code, !.token = s, !.left = left]}
     ELSE {})

\* POST /sessions.
CreateSession(c) ==
  /\ c.stage = "out" /\ c.token = None
  /\ \E s \in Sessions :
       /\ sessions[s].status = "unborn"
       /\ \A t \in 1 .. s - 1 : sessions[t].status # "unborn"
       /\ sessions' = [sessions EXCEPT ![s].status = "active"]
       /\ Reply(c, "ok", s, MaxMessages)
  /\ UNCHANGED <<client, made, lapsed, records>>

\* A refusal before the key is looked up: the gateway's, or the session's.
Turned(c) ==
  \/ sessions[c.token].status # "active" /\ Reply(c, "invalid_session", c.token, 0)
  \/ /\ sessions[c.token].status = "active"
     /\ Left(c.token) = 0
     /\ Reply(c, "session_limit_reached", c.token, 0)
  \/ \E code \in {"rate_limited", "temporarily_unavailable"} : Reply(c, code, c.token, 0)

Known(c) == records[<<c.token, c.key>>].status # "absent"

\* The request hash covers the metadata, and the metadata holds the source.
SameRequest(r, c) == r.source = c.source

\* resolve_duplicate: what a known key may be answered.
Duplicate(c) ==
  LET r == records[<<c.token, c.key>>] IN
  CASE ~SameRequest(r, c) -> {"idempotency_conflict"}
    [] r.status = "completed" -> {"ok"}
    [] r.status = "failed" -> {"unsafe_request", "temporarily_unavailable"}
    [] OTHER -> {"request_in_progress"}

\* A completed record keeps the answer, with the messages left at that time.
Note(c, status) ==
  records' = [records EXCEPT ![<<c.token, c.key>>] =
                [status |-> status, source |-> c.source,
                 left |-> IF status = "completed" THEN Left(c.token) ELSE 0]]

\* The session is charged and the generation starts, or screening refuses.
TakeUp(c) ==
  /\ sessions[c.token].status = "active" /\ Left(c.token) > 0
  /\ ~Known(c)
  /\ sessions' = [sessions EXCEPT ![c.token].used = @ + 1]
  /\ \/ /\ Note(c, "processing")
        /\ calls' = (calls \ {c}) \cup {[c EXCEPT !.stage = "working"]}
     \/ Note(c, "failed") /\ Reply(c, "unsafe_request", c.token, 0)

\* POST /messages, up to the generation.
Receive(c) ==
  /\ c.stage = "out" /\ c.token # None
  /\ \/ Turned(c) /\ UNCHANGED <<sessions, records>>
     \/ /\ sessions[c.token].status = "active" /\ Left(c.token) > 0
        /\ Known(c)
        /\ \E code \in Duplicate(c) : Reply(c, code, c.token, records[<<c.token, c.key>>].left)
        /\ UNCHANGED <<sessions, records>>
     \/ TakeUp(c)
  /\ UNCHANGED <<client, made, lapsed>>

\* The generation ends: with an answer, with a failure, or with the replica's
\* crash, which leaves the record in processing.
Finish(c) ==
  /\ c.stage = "working"
  /\ \/ Note(c, "completed") /\ Reply(c, "ok", c.token, Left(c.token))
     \/ Note(c, "failed") /\ Reply(c, "temporarily_unavailable", c.token, 0)
     \/ calls' = calls \ {c} /\ c.awaited = FALSE /\ UNCHANGED records
  /\ UNCHANGED <<client, made, lapsed, sessions>>

\* The session is revoked, blocked, completed or expired.
EndSession(s) ==
  /\ sessions[s].status = "active"
  /\ sessions' = [sessions EXCEPT ![s].status = "ended"]
  /\ UNCHANGED <<client, calls, made, lapsed, records>>

-----------------------------------------------------------------------------
Init ==
  /\ token = None
  /\ shown = [status |-> "none", remaining |-> None]
  /\ thread = [k \in Sends |-> {}]
  /\ text = [k \in Sends |-> None]
  /\ active = None
  /\ failed = [k \in Sends |-> None]
  /\ calls = {}
  /\ made = 0
  /\ lapsed = {}
  /\ sessions = [s \in Sessions |-> [status |-> "unborn", used |-> 0]]
  /\ records = [sk \in Sessions \X Sends |-> [status |-> "absent", source |-> None, left |-> 0]]

\* What the client's timers see to, whatever the network does: a call ends in a
\* refusal, in the headers of an answer or in its timeout, and a pause is over.
ClientStep ==
  \/ \E c \in calls : HearHeaders(c)
  \/ \E c \in calls : HearRefusal(c)
  \/ \E c \in calls : GiveUp(c)
  \/ SendAgain

Next ==
  \/ ClientStep
  \/ \E c \in calls : HearBody(c)
  \/ \E c \in calls : BodyFails(c)
  \/ \E key \in Sends, source \in Sources : Submit(key, source)
  \/ \E key \in Sends : Retry(key)
  \/ Reload
  \/ \E s \in Sessions : Lapse(s)
  \/ \E c \in calls : CreateSession(c)
  \/ \E c \in calls : Receive(c)
  \/ \E c \in calls : Finish(c)
  \/ \E s \in Sessions : EndSession(s)

Spec == Init /\ [][Next]_vars /\ WF_vars(ClientStep)

-----------------------------------------------------------------------------
TypeOK ==
  /\ token \in Sessions \cup {None}
  /\ shown \in SessionState
  /\ thread \in [Sends -> SUBSET ShownStates]
  /\ text \in [Sends -> Sends \cup {None}]
  /\ active \in ActiveSend \cup {None}
  /\ failed \in [Sends -> ClientCodes \cup {None}]
  /\ calls \subseteq Call
  /\ made \in 0 .. MaxCalls
  /\ lapsed \subseteq Sessions
  /\ sessions \in [Sessions -> SessionRow]
  /\ records \in [Sessions \X Sends -> RecordRow]

-----------------------------------------------------------------------------
(* Properties.                                                             *)

Sending(k) == active # None /\ active.key = k

\* A spinner belongs to the send under way: no send is left "sending" by a
\* failure, a timeout or a late answer, and none is sending unseen.
SpinnersAreSends ==
  \A k \in Sends : "sending" \in thread[k] <=> Sending(k)

\* A Retry the visitor sees would send its message again, but for the time in
\* which that message is being sent again already.  (Any Retry is ignored while a
\* send runs: the claim is that none is left behind for good.)
RetriesAreLive ==
  \A k \in Sends : "retryable" \in thread[k] => failed[k] # None \/ Sending(k)

\* What is shown as answered was answered by the API, under that send's key.
AnswersAreTrue ==
  \A k \in Sends : "answered" \in thread[k] =>
    \E s \in Sessions : records[<<s, k>>].status = "completed"

\* The composer is closed for want of messages only when the session it
\* belongs to has none left.
ClosedOnlyWhenSpent ==
  shown.remaining = 0 => token # None /\ Left(token) = 0

\* What the visitor sees agrees with what the client does and the API did
\* (conversation-orchestrator.ts, conversation-state.ts), whatever calls are
\* given up, served late or answered after the visitor moved on.
ThreadIsTrue ==
  /\ SpinnersAreSends
  /\ RetriesAreLive
  /\ AnswersAreTrue
  /\ ClosedOnlyWhenSpent

\* However often a message is sent again, by the client or by the visitor, it
\* is charged and processed once, unless a session lapsed for the client in
\* between: keys are per session, and a retry keeps its key
\* (conversation-orchestrator.ts:66, message-service.ts:37).
ProcessedOncePerLife ==
  \A k, l \in Sends, s, t \in Sessions :
    /\ records[<<s, k>>].status # "absent"
    /\ records[<<t, l>>].status # "absent"
    /\ text[k] = text[l]
    => <<s, k>> = <<t, l>> \/ (s # t /\ {s, t} \cap lapsed # {})

\* An answer's headers are there and its body is not: no timer runs.
Reading == \E c \in calls : c.awaited /\ c.stage = "body"

\* Every send the visitor starts ends, with an answer, a failure or the page, if
\* no body once begun stalls for ever: of the network nothing else is assumed
\* (client.ts:71, :88, :98).
SendsEnd == []<>~Reading => (active # None ~> active = None)
=============================================================================
