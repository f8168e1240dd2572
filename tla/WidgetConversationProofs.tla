--------------------- MODULE WidgetConversationProofs ---------------------
(***************************************************************************)
(* Theorems about a visitor's conversation, for every number of sends,     *)
(* sessions, message slots and calls.                                      *)
(*                                                                         *)
(* What the visitor sees is true because at most one call is awaited, and  *)
(* because that call tells the send under way only what its own record     *)
(* says (Awaited, Told).  A message is processed once because a send that  *)
(* may still be sent again has gone to no session the client could still   *)
(* use but the one it holds (Confined); a key is never replaced, since the *)
(* client makes of every refusal a code that asks for no fresh one         *)
(* (Kept).                                                                 *)
(***************************************************************************)
EXTENDS WidgetConversation, TLAPS

\* The codes a send can have failed with.
HeardCodes == {"rate_limited", "temporarily_unavailable", "message_rejected", "request_timeout",
               "safe_internal_error"}

\* Every send says what it was first typed for, under the key it was first given.
Kept ==
  \A k \in Sends :
    /\ failed[k] \in HeardCodes \cup {None}
    /\ text[k] \in {k, None}
    /\ thread[k] # {} \/ failed[k] # None => text[k] # None

\* The send under way holds a session once there is one, and can make all of its calls.
Stage ==
  active # None =>
    /\ active.stage = "session" => token = None /\ active.attempt = 1 /\ made + MaxAttempts <= MaxCalls
    /\ active.stage # "session" => token \in Sessions /\ made + MaxAttempts <= MaxCalls + active.attempt
    /\ active.stage = "pause" => active.attempt < MaxAttempts

\* A call the client waits for is the only one, and is made for the send under way.
AwaitedBy(c) ==
  /\ active # None /\ c.key = active.key
  /\ \/ /\ active.stage = "session"
        /\ \/ c.stage = "out" /\ c.token = None
           \/ c.stage \in {"back", "body"} /\ c.reply = "ok" /\ c.token \in Sessions /\ c.left = MaxMessages
     \/ active.stage = "answer" /\ c.token = token
Awaited ==
  \A c \in calls : c.awaited =>
    /\ AwaitedBy(c)
    /\ c.stage = "body" => c.reply = "ok"
    /\ \A d \in calls : d.awaited => d = c

\* A record is processed by one call.
Working ==
  \A c \in calls : c.stage = "working" =>
    /\ c.token \in Sessions
    /\ records[<<c.token, c.key>>].status = "processing"
    /\ \A d \in calls :
         d.stage = "working" /\ d.token = c.token /\ d.key = c.key => d = c

\* What is answered to a message, or kept to be answered, is what happened.
Told ==
  /\ \A s \in Sessions, k \in Sends :
       records[<<s, k>>].status = "completed" => Left(s) <= records[<<s, k>>].left
  /\ \A c \in calls :
       c.awaited /\ active.stage = "answer" /\ c.stage \in {"back", "body"} /\ c.reply = "ok" =>
         records[<<c.token, c.key>>].status = "completed" /\ Left(c.token) <= c.left

\* The send has come to the session, or is on its way there.
Reaches(k, s) ==
  \/ records[<<s, k>>].status # "absent"
  \/ \E c \in calls : c.key = k /\ c.token = s /\ c.stage \in {"out", "working"}

\* A send that may be sent again: by itself, or by the visitor's Retry.
Live(k) == failed[k] # None \/ Sending(k)

\* A send that may be sent again went to no session still usable but the client's.
Confined ==
  \A k \in Sends, s \in Sessions : Reaches(k, s) =>
    /\ text[k] # None
    /\ Live(k) => s = token \/ s \in lapsed
    /\ \A t \in Sessions : Reaches(k, t) => s = t \/ s \in lapsed \/ t \in lapsed

IInv ==
  TypeOK /\ ThreadIsTrue /\ Kept /\ Stage /\ Awaited /\ Working /\ Told /\ Confined

-----------------------------------------------------------------------------
(* What the client makes of a refusal.                                     *)

\* The client learns the HTTP status of a refusal only: no code it makes of one ends
\* the session or asks for a fresh key.
LEMMA CodesHeard ==
  /\ \A code \in Refusals : SafeCode(code) \in HeardCodes /\ Retryable(code) \in BOOLEAN
  /\ HeardCodes \subseteq ClientCodes
  /\ \A code \in HeardCodes : ~EndsSession(code) /\ ~NeedsFreshKey(code) /\ code # None
<1>1. HeardCodes \subseteq ClientCodes /\ None \notin ClientCodes
  BY ConversationAssumption DEF HeardCodes, ClientCodes, Refusals
<1> QED
  BY <1>1 DEF Refusals, SafeCode, BodyCode, HttpStatus, Retryable, HeardCodes, EndsSession, NeedsFreshKey

\* A send under way is not None.
LEMMA ActiveIsSome ==
  ASSUME TypeOK
  PROVE  /\ active # None => active \in ActiveSend
         /\ \A a \in ActiveSend : a # None
         /\ \A n \in Nat : n # None
         /\ MaxCalls \in Nat /\ MaxMessages \in Nat \ {0} /\ MaxAttempts = 2
         /\ Sends \subseteq Nat /\ Sessions \subseteq Nat
BY ConversationAssumption DEF TypeOK, MaxAttempts, Sends, Sessions

-----------------------------------------------------------------------------
(* What a step leaves of the calls.                                        *)

\* New calls that are not being worked on disturb no record.
LEMMA WorkingStays ==
  ASSUME Working, UNCHANGED records, \A d \in calls' : d.stage = "working" => d \in calls
  PROVE  Working'
BY DEF Working

\* One call changes, and at most its own record.
LEMMA WorkingMoves ==
  ASSUME Working, NEW c \in calls, NEW new, calls' \subseteq (calls \ {c}) \cup {new},
         new.stage = "working" =>
           /\ new.token = c.token /\ new.key = c.key /\ c.token \in Sessions
           /\ records'[<<c.token, c.key>>].status = "processing"
           /\ c.stage = "working" \/ records[<<c.token, c.key>>].status # "processing",
         \A d \in calls : d.stage = "working" /\ (c.stage = "working" => d.token # c.token \/ d.key # c.key)
           => records'[<<d.token, d.key>>].status = "processing"
  PROVE  Working'
<1> SUFFICES ASSUME NEW d \in calls', d.stage = "working"
             PROVE  /\ d.token \in Sessions
                    /\ records'[<<d.token, d.key>>].status = "processing"
                    /\ \A e \in calls' :
                         e.stage = "working" /\ e.token = d.token /\ e.key = d.key => e = d
  BY DEF Working
<1>1. ASSUME NEW e \in calls \ {c}, e.stage = "working"
      PROVE  /\ e.token \in Sessions
             /\ records[<<e.token, e.key>>].status = "processing"
             /\ records'[<<e.token, e.key>>].status = "processing"
             /\ \A x \in calls \ {c} :
                  x.stage = "working" /\ x.token = e.token /\ x.key = e.key => x = e
             /\ new.stage = "working" => ~(e.token = c.token /\ e.key = c.key)
  BY <1>1 DEF Working
<1>2. CASE d \in calls \ {c}
  BY <1>1, <1>2
<1>3. CASE d = new
  BY <1>1, <1>3
<1> QED
  BY <1>2, <1>3

\* A message posted reaches its session.
LEMMA PostReaches ==
  ASSUME UNCHANGED records, NEW new,
         \A d \in calls' : d.stage \in {"out", "working"} =>
           d = new \/ \E c \in calls : c.stage = d.stage /\ c.token = d.token /\ c.key = d.key
  PROVE  \A k \in Sends, s \in Sessions : Reaches(k, s)' =>
           Reaches(k, s) \/ (k = new.key /\ s = new.token)
BY DEF Reaches

\* A call that moves on, or ends, reaches nothing it did not reach.
LEMMA MoveReaches ==
  ASSUME NEW c \in calls, NEW new, calls' \subseteq (calls \ {c}) \cup {new},
         new.stage \in {"out", "working"} =>
           c.stage \in {"out", "working"} /\ new.key = c.key /\ new.token = c.token,
         \A s \in Sessions, k \in Sends :
           \/ records'[<<s, k>>].status = records[<<s, k>>].status
           \/ s = c.token /\ k = c.key /\ c.stage \in {"out", "working"}
  PROVE  \A k \in Sends, s \in Sessions : Reaches(k, s)' => Reaches(k, s)
BY DEF Reaches

\* What is confined stays so while nothing new is reached.
LEMMA ConfinedStays ==
  ASSUME Confined, UNCHANGED text, lapsed \subseteq lapsed',
         \A k \in Sends, s \in Sessions : Reaches(k, s)' => Reaches(k, s),
         \A k \in Sends : Live(k)' => Live(k) /\ (token' = token \/ token \in lapsed \cup {None}),
         None \notin Sessions
  PROVE  Confined'
<1> SUFFICES ASSUME NEW k \in Sends, NEW s \in Sessions, Reaches(k, s)'
             PROVE  /\ text'[k] # None
                    /\ Live(k)' => s = token' \/ s \in lapsed'
                    /\ \A t \in Sessions : Reaches(k, t)' => s = t \/ s \in lapsed' \/ t \in lapsed'
  BY DEF Confined
<1>1. Reaches(k, s)
  OBVIOUS
<1>2. /\ text[k] # None
      /\ Live(k) => s = token \/ s \in lapsed
      /\ \A t \in Sessions : Reaches(k, t) => s = t \/ s \in lapsed \/ t \in lapsed
  BY <1>1 DEF Confined
<1> QED
  BY <1>2

-----------------------------------------------------------------------------
(* The API.                                                                *)

\* One call is served: the client is as before, its session and record move on.
LEMMA ServedKeeps ==
  ASSUME IInv, UNCHANGED <<client, made, lapsed>>, NEW c \in calls, NEW new,
         calls' \subseteq (calls \ {c}) \cup {new}, calls' \subseteq Call,
         sessions' \in [Sessions -> SessionRow], records' \in [Sessions \X Sends -> RecordRow],
         new.awaited => c.awaited /\ AwaitedBy(new) /\ (new.stage = "body" => new.reply = "ok"),
         new.stage \in {"out", "working"} =>
           c.stage \in {"out", "working"} /\ new.key = c.key /\ new.token = c.token,
         new.stage = "working" =>
           /\ c.token \in Sessions
           /\ records'[<<c.token, c.key>>].status = "processing"
           /\ c.stage = "working" \/ records[<<c.token, c.key>>].status # "processing",
         \A s \in Sessions, k \in Sends :
           records'[<<s, k>>] = records[<<s, k>>] \/ (s = c.token /\ k = c.key /\ c.stage \in {"out", "working"}),
         records'[<<c.token, c.key>>] # records[<<c.token, c.key>>] =>
           /\ records[<<c.token, c.key>>].status \in
                IF c.stage = "working" THEN {"processing"} ELSE {"absent"}
           /\ records'[<<c.token, c.key>>].status = "completed" =>
                MaxMessages - sessions'[c.token].used <= records'[<<c.token, c.key>>].left,
         \A s \in Sessions : sessions[s].used <= sessions'[s].used,
         new.awaited /\ active.stage = "answer" /\ new.stage \in {"back", "body"} /\ new.reply = "ok" =>
           /\ records'[<<new.token, new.key>>].status = "completed"
           /\ new.token \in Sessions
           /\ MaxMessages - sessions'[new.token].used <= new.left
  PROVE  IInv'
<1>0. MaxMessages \in Nat
  BY ActiveIsSome DEF IInv
<1>1. TypeOK'
  BY DEF IInv, TypeOK, client
<1>2. Kept' /\ Stage'
  BY DEF IInv, Kept, Stage, client
<1>3. Awaited'
  BY DEF IInv, Awaited, AwaitedBy, client
<1>a. \A d \in calls : d \in Call /\ d.key \in Sends
  BY DEF IInv, TypeOK, Call
<1>4. Working'
  <2>1. \A d \in calls : d.stage = "working" /\ (c.stage = "working" => d.token # c.token \/ d.key # c.key)
          => records'[<<d.token, d.key>>].status = "processing"
    <3> SUFFICES ASSUME NEW d \in calls, d.stage = "working",
                        c.stage = "working" => d.token # c.token \/ d.key # c.key
                 PROVE  records'[<<d.token, d.key>>].status = "processing"
      OBVIOUS
    <3>1. d.token \in Sessions /\ d.key \in Sends /\ records[<<d.token, d.key>>].status = "processing"
      BY <1>a DEF IInv, Working
    <3> QED
      BY <3>1
  <2> QED
    BY <2>1, WorkingMoves DEF IInv
<1>5. \A s \in Sessions : sessions[s].used \in Nat /\ sessions'[s].used \in Nat
  BY <1>0 DEF IInv, TypeOK, SessionRow
<1>6. \A s \in Sessions, k \in Sends :
        records[<<s, k>>].status = "completed" => records'[<<s, k>>].status = "completed"
  <2> SUFFICES ASSUME NEW s \in Sessions, NEW k \in Sends, records[<<s, k>>].status = "completed",
                      records'[<<s, k>>] # records[<<s, k>>]
               PROVE  FALSE
    OBVIOUS
  <2> QED
    OBVIOUS
<1>7. ThreadIsTrue'
  <2>1. SpinnersAreSends' /\ RetriesAreLive'
    BY DEF IInv, ThreadIsTrue, SpinnersAreSends, RetriesAreLive, Sending, client
  <2>2. AnswersAreTrue'
    <3>1. AnswersAreTrue /\ UNCHANGED thread
      BY DEF IInv, ThreadIsTrue, client
    <3> HIDE DEF IInv
    <3> QED
      BY <1>6, <3>1 DEF AnswersAreTrue
  <2>3. ClosedOnlyWhenSpent'
    <3> SUFFICES ASSUME shown.remaining = 0
                 PROVE  token # None /\ MaxMessages - sessions'[token].used = 0
      BY DEF ClosedOnlyWhenSpent, Left, client
    <3>1. token \in Sessions /\ token # None /\ MaxMessages - sessions[token].used = 0
      BY DEF IInv, ThreadIsTrue, ClosedOnlyWhenSpent, Left, TypeOK
    <3>2. sessions'[token].used \in 0 .. MaxMessages
      BY <3>1 DEF SessionRow
    <3>3. sessions[token].used <= sessions'[token].used /\ sessions[token].used \in Nat
      BY <1>5, <3>1
    <3>4. sessions'[token].used \in Nat /\ sessions'[token].used <= MaxMessages
      BY <1>0, <3>2
    <3> HIDE DEF IInv
    <3>5. \A m, u, v \in Nat : m - u = 0 /\ u <= v /\ v <= m => m - v = 0
      OBVIOUS
    <3> QED
      BY <1>0, <3>1, <3>3, <3>4, <3>5
  <2> QED
    BY <2>1, <2>2, <2>3 DEF ThreadIsTrue
<1>8. Told'
  <2>1. ASSUME NEW s \in Sessions, NEW k \in Sends, records'[<<s, k>>].status = "completed"
        PROVE  MaxMessages - sessions'[s].used <= records'[<<s, k>>].left
    <3>1. CASE records'[<<s, k>>] # records[<<s, k>>]
      BY <2>1, <3>1
    <3>2. CASE records'[<<s, k>>] = records[<<s, k>>]
      <4>1. MaxMessages - sessions[s].used <= records[<<s, k>>].left /\ records[<<s, k>>].left \in Nat
        BY <2>1, <3>2, <1>0 DEF IInv, Told, Left, TypeOK, RecordRow
      <4> QED
        BY <1>5, <3>2, <4>1, <1>0
    <3> QED
      BY <3>1, <3>2
  <2>2. ASSUME NEW d \in calls', d.awaited, active.stage = "answer", d.stage \in {"back", "body"}, d.reply = "ok"
        PROVE  records'[<<d.token, d.key>>].status = "completed" /\ MaxMessages - sessions'[d.token].used <= d.left
    <3>1. CASE d = new
      BY <2>2, <3>1
    <3>2. CASE d \in calls
      <4>1. /\ records[<<d.token, d.key>>].status = "completed" /\ Left(d.token) <= d.left
            /\ d.token = token /\ token \in Sessions /\ d.key \in Sends /\ d.left \in Nat
        BY <1>a, <2>2, <3>2, <1>0
        DEF IInv, Told, Awaited, AwaitedBy, Stage, Call
      <4> QED
        BY <1>5, <1>6, <4>1, <1>0 DEF Left
    <3> QED
      BY <2>2, <3>1, <3>2
  <2> QED
    BY <2>1, <2>2 DEF Told, Left, client
<1>9. Confined'
  <2>1. \A k \in Sends, s \in Sessions : Reaches(k, s)' => Reaches(k, s)
    <3>1. \A s \in Sessions, k \in Sends :
            \/ records'[<<s, k>>].status = records[<<s, k>>].status
            \/ s = c.token /\ k = c.key /\ c.stage \in {"out", "working"}
      OBVIOUS
    <3> QED
      BY <3>1, MoveReaches
  <2>2. None \notin Sessions
    BY ActiveIsSome DEF IInv
  <2> QED
    BY <2>1, <2>2, ConfinedStays DEF IInv, Live, Sending, client
<1> QED
  BY <1>1, <1>2, <1>3, <1>4, <1>7, <1>8, <1>9 DEF IInv

\* A session is created for the call that asked for one.
LEMMA CreateSessionKeeps ==
  ASSUME IInv, NEW c \in calls, CreateSession(c)
  PROVE  IInv'
<1>1. PICK s \in Sessions :
        /\ sessions[s].status = "unborn"
        /\ sessions' = [sessions EXCEPT ![s].status = "active"]
        /\ Reply(c, "ok", s, MaxMessages)
  BY DEF CreateSession
<1>2. c \in Call /\ c.stage = "out" /\ c.token = None /\ UNCHANGED <<client, made, lapsed, records>>
  BY DEF CreateSession, IInv, TypeOK
<1> DEFINE new == [c EXCEPT !.stage = "back", !.reply = "ok", !.token = s, !.left = MaxMessages]
<1>a. MaxMessages \in 0 .. MaxMessages
  BY ActiveIsSome DEF IInv
<1>3. /\ new \in Call /\ new.stage = "back" /\ new.reply = "ok" /\ new.token = s /\ new.left = MaxMessages
      /\ new.awaited = c.awaited /\ new.key = c.key
  BY <1>2, <1>a DEF Call
<1>4. calls' \subseteq (calls \ {c}) \cup {new} /\ calls' \subseteq Call
  BY <1>1, <1>3 DEF Reply, IInv, TypeOK
<1>5. None \notin Sessions
  BY ActiveIsSome DEF IInv
<1>6. new.awaited => active.stage # "answer" /\ AwaitedBy(new)
  BY <1>2, <1>3, <1>5 DEF IInv, Awaited, AwaitedBy, Stage
<1>7. /\ sessions' \in [Sessions -> SessionRow]
      /\ \A t \in Sessions : sessions[t].used <= sessions'[t].used
  <2>1. sessions[s] \in SessionRow /\ \A t \in Sessions : sessions[t].used \in Nat
    BY ActiveIsSome DEF IInv, TypeOK, SessionRow
  <2> QED
    BY <1>1, <2>1 DEF IInv, TypeOK, SessionRow
<1> HIDE DEF new
<1> QED
  BY <1>2, <1>3, <1>4, <1>6, <1>7, ServedKeeps DEF IInv, TypeOK

\* What is noted of a call is its record.
LEMMA NoteType ==
  ASSUME IInv, NEW c \in calls, c.token \in Sessions, NEW status \in {"processing", "completed", "failed"},
         Note(c, status)
  PROVE  /\ records' \in [Sessions \X Sends -> RecordRow]
         /\ records'[<<c.token, c.key>>].status = status
         /\ status = "completed" => records'[<<c.token, c.key>>].left = Left(c.token)
         /\ \A s \in Sessions, k \in Sends :
              records'[<<s, k>>] = records[<<s, k>>] \/ (s = c.token /\ k = c.key)
<1>1. c \in Call /\ <<c.token, c.key>> \in Sessions \X Sends
  BY DEF IInv, TypeOK, Call
<1>2. Left(c.token) \in 0 .. MaxMessages /\ 0 \in 0 .. MaxMessages
  BY ActiveIsSome DEF IInv, TypeOK, Left, SessionRow
<1> DEFINE row == [status |-> status, source |-> c.source,
                   left |-> IF status = "completed" THEN Left(c.token) ELSE 0]
<1>3. row \in RecordRow
  BY <1>1, <1>2 DEF RecordRow, Call
<1>4. records' = [records EXCEPT ![<<c.token, c.key>>] = row] /\ records \in [Sessions \X Sends -> RecordRow]
  BY DEF Note, IInv, TypeOK
<1>5. \A s \in Sessions, k \in Sends : <<s, k>> \in Sessions \X Sends
  OBVIOUS
<1> QED
  BY <1>1, <1>3, <1>4, <1>5

\* A refusal or an answer goes back to whoever still waits for it.
LEMMA ReplyType ==
  ASSUME IInv, NEW c \in calls, c.token \in Sessions, c.stage \in {"out", "working"},
         NEW code \in Refusals \cup {"ok"},
         NEW left \in 0 .. MaxMessages, Reply(c, code, c.token, left)
  PROVE  \E new :
           /\ calls' \subseteq (calls \ {c}) \cup {new} /\ calls' \subseteq Call
           /\ new.stage = "back" /\ new.reply = code /\ new.left = left
           /\ new.token = c.token /\ new.key = c.key
           /\ new.awaited => c.awaited /\ AwaitedBy(new)
<1> DEFINE new == [c EXCEPT !.stage = "back", !.reply = code, !.token = c.token, !.left = left]
<1>1. c \in Call
  BY DEF IInv, TypeOK
<1>2. /\ new \in Call /\ new.stage = "back" /\ new.reply = code /\ new.token = c.token /\ new.left = left
      /\ new.awaited = c.awaited /\ new.key = c.key
  BY <1>1 DEF Call
<1>3. calls' \subseteq (calls \ {c}) \cup {new} /\ calls' \subseteq Call
  BY <1>2 DEF Reply, IInv, TypeOK
<1>4. new.awaited => AwaitedBy(new)
  <2>1. None \notin Sessions
    BY ActiveIsSome DEF IInv
  <2> QED
    BY <1>2, <2>1 DEF IInv, Awaited, AwaitedBy
<1> HIDE DEF new
<1> QED
  BY <1>2, <1>3, <1>4

\* A message arrives: it is turned away, recognised, or taken up under its new record.
LEMMA ReceiveKeeps ==
  ASSUME IInv, NEW c \in calls, Receive(c)
  PROVE  IInv'
<1>1. /\ c \in Call /\ c.stage = "out" /\ c.token \in Sessions /\ c.key \in Sends
      /\ UNCHANGED <<client, made, lapsed>>
  BY DEF Receive, IInv, TypeOK, Call
<1>2. /\ sessions \in [Sessions -> SessionRow] /\ records \in [Sessions \X Sends -> RecordRow]
      /\ calls \subseteq Call /\ <<c.token, c.key>> \in Sessions \X Sends
  BY <1>1 DEF IInv, TypeOK
<1>3. \A s \in Sessions : sessions[s].used \in Nat /\ sessions[s].used <= sessions[s].used
  BY <1>2, ActiveIsSome DEF SessionRow, IInv
<1>4. MaxMessages \in Nat /\ 0 \in 0 .. MaxMessages
  BY ActiveIsSome DEF IInv
<1>5. CASE Turned(c) /\ UNCHANGED <<sessions, records>>
  <2>1. PICK code \in Refusals : Reply(c, code, c.token, 0)
    BY <1>5 DEF Turned, Refusals
  <2>2. PICK new :
           /\ calls' \subseteq (calls \ {c}) \cup {new} /\ calls' \subseteq Call
           /\ new.stage = "back" /\ new.reply = code
           /\ new.awaited => c.awaited /\ AwaitedBy(new)
    BY <1>1, <1>4, <2>1, ReplyType
  <2>3. new.reply # "ok"
    BY <2>2 DEF Refusals
  <2> QED
    BY <1>1, <1>2, <1>3, <1>5, <2>2, <2>3, ServedKeeps
<1>6. ASSUME NEW code \in Duplicate(c), Reply(c, code, c.token, records[<<c.token, c.key>>].left),
             UNCHANGED <<sessions, records>>
      PROVE  IInv'
  <2>1. /\ code \in Refusals \cup {"ok"}
        /\ code = "ok" => records[<<c.token, c.key>>].status = "completed"
    BY <1>6 DEF Duplicate, Refusals
  <2>2. records[<<c.token, c.key>>].left \in 0 .. MaxMessages
    BY <1>2 DEF RecordRow
  <2>3. PICK new :
           /\ calls' \subseteq (calls \ {c}) \cup {new} /\ calls' \subseteq Call
           /\ new.stage = "back" /\ new.reply = code /\ new.left = records[<<c.token, c.key>>].left
           /\ new.token = c.token /\ new.key = c.key
           /\ new.awaited => c.awaited /\ AwaitedBy(new)
    BY <1>1, <1>6, <2>1, <2>2, ReplyType
  <2>4. code = "ok" => MaxMessages - sessions[c.token].used <= new.left
    BY <1>1, <2>1, <2>3 DEF IInv, Told, Left
  <2> QED
    BY <1>1, <1>2, <1>3, <1>6, <2>1, <2>3, <2>4, ServedKeeps
<1>7. CASE TakeUp(c)
  <2>1. /\ sessions' = [sessions EXCEPT ![c.token].used = @ + 1]
        /\ Left(c.token) > 0 /\ records[<<c.token, c.key>>].status = "absent"
    BY <1>7, <1>2 DEF TakeUp, Known, RecordRow
  <2>2. /\ sessions' \in [Sessions -> SessionRow]
        /\ \A s \in Sessions : sessions[s].used <= sessions'[s].used
    <3>1. sessions[c.token] \in SessionRow
      BY <1>1, <1>2
    <3>2. sessions[c.token].used + 1 \in 0 .. MaxMessages
      BY <1>4, <2>1, <3>1 DEF Left, SessionRow
    <3>3. [sessions[c.token] EXCEPT !.used = @ + 1] \in SessionRow
      BY <3>1, <3>2 DEF SessionRow
    <3>4. sessions' = [sessions EXCEPT ![c.token] = [sessions[c.token] EXCEPT !.used = @ + 1]]
      BY <2>1
    <3>5. \A s \in Sessions : sessions'[s].used = IF s = c.token THEN sessions[s].used + 1 ELSE sessions[s].used
      BY <1>1, <1>2, <3>1, <3>4 DEF SessionRow
    <3> QED
      BY <1>1, <1>2, <1>3, <3>3, <3>4, <3>5
  <2>3. CASE Note(c, "processing") /\ calls' = (calls \ {c}) \cup {[c EXCEPT !.stage = "working"]}
    <3> DEFINE new == [c EXCEPT !.stage = "working"]
    <3>1. /\ new \in Call /\ new.stage = "working" /\ new.token = c.token /\ new.key = c.key
          /\ new.awaited = c.awaited
      BY <1>1 DEF Call
    <3>2. new.awaited => AwaitedBy(new)
      <4>1. None \notin Sessions
        BY ActiveIsSome DEF IInv
      <4> QED
        BY <1>1, <3>1, <4>1 DEF IInv, Awaited, AwaitedBy
    <3>3. calls' \subseteq (calls \ {c}) \cup {new} /\ calls' \subseteq Call
      BY <1>2, <2>3, <3>1
    <3>4. /\ records' \in [Sessions \X Sends -> RecordRow]
          /\ records'[<<c.token, c.key>>].status = "processing"
          /\ \A s \in Sessions, k \in Sends :
               records'[<<s, k>>] = records[<<s, k>>] \/ (s = c.token /\ k = c.key)
      BY <1>1, <2>3, NoteType
    <3> HIDE DEF new
    <3> QED
      BY ZenonT(60), <1>1, <2>1, <2>2, <3>1, <3>2, <3>3, <3>4, ServedKeeps
  <2>4. CASE Note(c, "failed") /\ Reply(c, "unsafe_request", c.token, 0)
    <3>1. PICK new :
             /\ calls' \subseteq (calls \ {c}) \cup {new} /\ calls' \subseteq Call
             /\ new.stage = "back" /\ new.reply = "unsafe_request"
             /\ new.awaited => c.awaited /\ AwaitedBy(new)
      BY <1>1, <1>4, <2>4, ReplyType DEF Refusals
    <3>2. /\ records' \in [Sessions \X Sends -> RecordRow]
          /\ records'[<<c.token, c.key>>].status = "failed"
          /\ \A s \in Sessions, k \in Sends :
               records'[<<s, k>>] = records[<<s, k>>] \/ (s = c.token /\ k = c.key)
      BY <1>1, <2>4, NoteType
    <3> QED
      BY ZenonT(60), <1>1, <2>1, <2>2, <3>1, <3>2, ServedKeeps
  <2> QED
    BY <1>7, <2>3, <2>4 DEF TakeUp
<1> QED
  BY <1>5, <1>6, <1>7 DEF Receive

\* The generation ends.
LEMMA FinishKeeps ==
  ASSUME IInv, NEW c \in calls, Finish(c)
  PROVE  IInv'
<1>1. /\ c \in Call /\ c.stage = "working" /\ c.token \in Sessions /\ c.key \in Sends
      /\ records[<<c.token, c.key>>].status = "processing"
      /\ UNCHANGED <<client, made, lapsed, sessions>>
  BY DEF Finish, IInv, TypeOK, Call, Working
<1>2. /\ sessions \in [Sessions -> SessionRow] /\ records \in [Sessions \X Sends -> RecordRow]
      /\ calls \subseteq Call
  BY DEF IInv, TypeOK
<1>3. \A s \in Sessions : sessions[s].used \in 0 .. MaxMessages /\ sessions[s].used <= sessions[s].used
  BY <1>2, ActiveIsSome DEF SessionRow, IInv
<1>4. MaxMessages \in Nat /\ 0 \in 0 .. MaxMessages /\ Left(c.token) \in 0 .. MaxMessages
  BY <1>1, <1>3, ActiveIsSome DEF IInv, Left
<1>5. ASSUME NEW status \in {"completed", "failed"}, NEW code \in Refusals \cup {"ok"},
             Note(c, status), Reply(c, code, c.token, IF status = "completed" THEN Left(c.token) ELSE 0),
             code = "ok" => status = "completed"
      PROVE  IInv'
  <2>1. PICK new :
           /\ calls' \subseteq (calls \ {c}) \cup {new} /\ calls' \subseteq Call
           /\ new.stage = "back" /\ new.reply = code
           /\ new.left = IF status = "completed" THEN Left(c.token) ELSE 0
           /\ new.token = c.token /\ new.key = c.key
           /\ new.awaited => c.awaited /\ AwaitedBy(new)
    BY <1>1, <1>4, <1>5, ReplyType
  <2>2. /\ records' \in [Sessions \X Sends -> RecordRow]
        /\ records'[<<c.token, c.key>>].status = status
        /\ status = "completed" => records'[<<c.token, c.key>>].left = Left(c.token)
        /\ \A s \in Sessions, k \in Sends :
             records'[<<s, k>>] = records[<<s, k>>] \/ (s = c.token /\ k = c.key)
    BY <1>1, <1>5, NoteType
  <2>3. MaxMessages - sessions'[c.token].used <= Left(c.token)
    BY <1>1, <1>3, <1>4 DEF Left
  <2>4. sessions' \in [Sessions -> SessionRow] /\ \A s \in Sessions : sessions[s].used <= sessions'[s].used
    BY <1>1, <1>2, <1>3
  <2> QED
    <3>1. records'[<<c.token, c.key>>].status = "completed" =>
            MaxMessages - sessions'[c.token].used <= records'[<<c.token, c.key>>].left
      BY <2>2, <2>3
    <3>2. new.reply = "ok" => records'[<<new.token, new.key>>].status = "completed"
                              /\ new.token \in Sessions
                              /\ MaxMessages - sessions'[new.token].used <= new.left
      BY <1>1, <1>5, <2>1, <2>2, <2>3
    <3>3. /\ new.stage \notin {"out", "working"}
          /\ c.stage = "working"
          /\ records[<<c.token, c.key>>].status \in IF c.stage = "working" THEN {"processing"} ELSE {"absent"}
      BY <1>1, <2>1
    <3>4. \A s \in Sessions, k \in Sends :
            records'[<<s, k>>] = records[<<s, k>>]
              \/ (s = c.token /\ k = c.key /\ c.stage \in {"out", "working"})
      BY <2>2, <3>3
    <3> QED
      BY <1>1, <2>1, <2>2, <2>4, <3>1, <3>2, <3>3, <3>4, ServedKeeps
<1>6. CASE calls' = calls \ {c} /\ c.awaited = FALSE /\ UNCHANGED records
  <2> DEFINE new == [c EXCEPT !.stage = "back", !.awaited = FALSE]
  <2>1. new.stage = "back" /\ new.awaited = FALSE
    BY <1>1 DEF Call
  <2>2. calls' \subseteq (calls \ {c}) \cup {new} /\ calls' \subseteq Call
    BY <1>2, <1>6
  <2> HIDE DEF new
  <2> QED
    BY <1>1, <1>2, <1>3, <1>6, <2>1, <2>2, ServedKeeps
<1>7. CASE Note(c, "completed") /\ Reply(c, "ok", c.token, Left(c.token))
  BY <1>5, <1>7
<1>8. CASE Note(c, "failed") /\ Reply(c, "temporarily_unavailable", c.token, 0)
  BY <1>5, <1>8 DEF Refusals
<1> QED
  BY <1>6, <1>7, <1>8 DEF Finish

\* A session that ends, for the API or for the client, changes nothing that is said of it.
LEMMA SessionEndKeeps ==
  ASSUME IInv, NEW s \in Sessions, EndSession(s) \/ Lapse(s)
  PROVE  IInv'
<1>1. UNCHANGED <<client, calls, made, records>> /\ lapsed \subseteq lapsed' /\ lapsed' \subseteq Sessions
  BY DEF EndSession, Lapse, IInv, TypeOK
<1>2. /\ sessions' \in [Sessions -> SessionRow]
      /\ \A t \in Sessions : sessions'[t].used = sessions[t].used
  BY SMTT(30) DEF EndSession, Lapse, IInv, TypeOK, SessionRow
<1>3. TypeOK' /\ Kept' /\ Stage' /\ Awaited' /\ Working'
  BY <1>1, <1>2 DEF IInv, TypeOK, Kept, Stage, Awaited, AwaitedBy, Working, client
<1>4. \A t \in Sessions : Left(t)' = Left(t)
  BY <1>2 DEF Left
<1>5. ThreadIsTrue'
  BY <1>1, <1>4 DEF IInv, TypeOK, ThreadIsTrue, SpinnersAreSends, RetriesAreLive, Sending, AnswersAreTrue,
                    ClosedOnlyWhenSpent, client
<1>6. Told'
  <2>1. \A c \in calls : c.awaited /\ active.stage = "answer" => c.token \in Sessions
    BY DEF IInv, Awaited, AwaitedBy, Stage
  <2> QED
    BY <1>1, <1>4, <2>1 DEF IInv, Told, client
<1>7. Confined'
  BY <1>1, ConfinedStays, ActiveIsSome DEF IInv, Reaches, Live, Sending, client
<1> QED
  BY <1>3, <1>5, <1>6, <1>7 DEF IInv

-----------------------------------------------------------------------------
(* The client.                                                             *)

\* A message, or a request for a session, goes out, and is the call awaited.
LEMMA PostKeeps ==
  ASSUME IInv, NEW key \in Sends, NEW source \in Sources, NEW s \in Sessions \cup {None},
         NEW rest \in SUBSET calls, \A c \in rest : ~c.awaited, Post(key, source, s, rest),
         made + 1 <= MaxCalls, UNCHANGED records
  PROVE  /\ made' = made + 1 /\ made' \in 0 .. MaxCalls /\ calls' \subseteq Call
         /\ Working'
         /\ \A c \in calls' : c.awaited =>
              /\ c.stage = "out" /\ c.key = key /\ c.token = s
              /\ \A d \in calls' : d.awaited => d = c
         /\ \A k \in Sends, t \in Sessions : Reaches(k, t)' => Reaches(k, t) \/ (k = key /\ t = s)
<1> DEFINE new == [id |-> made + 1, key |-> key, source |-> source, token |-> s,
                   stage |-> "out", reply |-> None, left |-> 0, awaited |-> TRUE]
<1>1. made + 1 \in 1 .. MaxCalls /\ 0 \in 0 .. MaxMessages /\ made' = made + 1 /\ calls' = rest \cup {new}
  BY ActiveIsSome DEF Post, IInv, TypeOK
<1>2. /\ new \in Call /\ new.stage = "out" /\ new.key = key /\ new.token = s /\ new.awaited
  BY <1>1 DEF Call
<1>a. MaxCalls \in Nat /\ made \in Nat
  BY ActiveIsSome DEF IInv, TypeOK
<1>3. made' \in 0 .. MaxCalls /\ calls' \subseteq Call
  <2>1. calls' \subseteq Call
    BY <1>1, <1>2 DEF IInv, TypeOK
  <2> QED
    BY <1>1, <1>a, <2>1
<1> HIDE DEF new
<1>4. Working'
  BY <1>1, <1>2, WorkingStays DEF IInv
<1>5. \A k \in Sends, t \in Sessions : Reaches(k, t)' => Reaches(k, t) \/ (k = key /\ t = s)
  <2>1. \A d \in calls' : d.stage \in {"out", "working"} =>
           d = new \/ \E c \in calls : c.stage = d.stage /\ c.token = d.token /\ c.key = d.key
    BY <1>1
  <2> QED
    BY <1>2, <2>1, PostReaches
<1> QED
  BY <1>1, <1>2, <1>3, <1>4, <1>5

\* Nothing is awaited of a client that sends nothing, or pauses.
LEMMA NothingAwaited ==
  ASSUME IInv, active = None \/ active.stage = "pause", NEW c \in calls
  PROVE  ~c.awaited
BY DEF IInv, Awaited, AwaitedBy

\* A send starts: one not tried before, or one that failed.
LEMMA BeginKeeps ==
  ASSUME IInv, active = None, NEW key \in Sends, NEW source \in Sources, Begin(key, source, key),
         \/ text[key] = None /\ UNCHANGED failed
         \/ failed[key] # None /\ failed' = [failed EXCEPT ![key] = None],
         UNCHANGED <<lapsed, sessions, records>>
  PROVE  IInv'
<1>0. /\ MaxCalls \in Nat /\ MaxMessages \in Nat \ {0} /\ MaxAttempts = 2 /\ made \in Nat
      /\ None \notin Sessions /\ None \notin Nat /\ key # None /\ key \in Nat
  BY ActiveIsSome DEF IInv, TypeOK
<1> DEFINE s == IF Usable(token) THEN token ELSE None
           a == [key |-> key, source |-> source, attempt |-> 1,
                 stage |-> IF Usable(token) THEN "answer" ELSE "session"]
<1>1. /\ made + MaxAttempts + 1 <= MaxCalls /\ active' = a
      /\ thread' = [thread EXCEPT ![key] = @ \cup {"sending"}] /\ text' = [text EXCEPT ![key] = key]
      /\ Post(key, source, s, calls)
      /\ IF Usable(token) THEN UNCHANGED <<token, shown>>
                          ELSE token' = None /\ shown' = [status |-> "creating", remaining |-> None]
  BY DEF Begin, Publish
<1>2. a \in ActiveSend /\ a # None /\ a.key = key /\ a.attempt = 1
      /\ a.stage = IF Usable(token) THEN "answer" ELSE "session"
  <2>1. a \in ActiveSend
    BY <1>0 DEF ActiveSend
  <2> QED
    BY <2>1, ActiveIsSome DEF IInv
<1> HIDE DEF a
<1>3. s \in Sessions \cup {None} /\ token' = s /\ (Usable(token) => token \in Sessions /\ s = token)
  BY <1>1 DEF IInv, TypeOK, Usable
<1>4. /\ made' = made + 1 /\ made' \in 0 .. MaxCalls /\ calls' \subseteq Call
      /\ Working'
      /\ \A c \in calls' : c.awaited =>
           /\ c.stage = "out" /\ c.key = key /\ c.token = s
           /\ \A d \in calls' : d.awaited => d = c
      /\ \A k \in Sends, t \in Sessions : Reaches(k, t)' => Reaches(k, t) \/ (k = key /\ t = s)
  <2>1. made + 1 <= MaxCalls
    BY <1>0, <1>1
  <2> QED
    BY <1>1, <1>3, <2>1, NothingAwaited, PostKeeps
<1>5. /\ thread \in [Sends -> SUBSET ShownStates]
      /\ text \in [Sends -> Sends \cup {None}] /\ failed \in [Sends -> ClientCodes \cup {None}]
      /\ shown \in SessionState
  BY DEF IInv, TypeOK
<1>6. TypeOK'
  <2>1. shown' \in SessionState
    BY <1>1, <1>5 DEF SessionState
  <2>2. token' \in Sessions \cup {None} /\ active' \in ActiveSend \cup {None}
    BY <1>1, <1>2, <1>3
  <2>3. failed' \in [Sends -> ClientCodes \cup {None}]
    BY <1>5
  <2>4. thread' \in [Sends -> SUBSET ShownStates]
        /\ text' \in [Sends -> Sends \cup {None}]
    BY <1>1, <1>5 DEF ShownStates
  <2> QED
    BY <1>4, <2>1, <2>2, <2>3, <2>4 DEF IInv, TypeOK
<1>7. ThreadIsTrue'
  <2>1. SpinnersAreSends'
    BY <1>1, <1>2, <1>5 DEF IInv, ThreadIsTrue, SpinnersAreSends, Sending
  <2>2. RetriesAreLive'
    BY <1>1, <1>2, <1>5 DEF IInv, ThreadIsTrue, RetriesAreLive, Sending
  <2>3. AnswersAreTrue'
    BY <1>1, <1>5 DEF IInv, ThreadIsTrue, AnswersAreTrue
  <2>4. ClosedOnlyWhenSpent'
    <3>1. None # 0
      BY <1>0
    <3> QED
      BY <1>1, <3>1 DEF IInv, ThreadIsTrue, ClosedOnlyWhenSpent, Left
  <2> QED
    BY <2>1, <2>2, <2>3, <2>4 DEF ThreadIsTrue
<1>8. Kept'
  BY <1>0, <1>1, <1>5 DEF IInv, Kept
<1>9. Stage'
  BY <1>0, <1>1, <1>2, <1>3, <1>4 DEF Stage
<1>10. Awaited'
  BY <1>1, <1>2, <1>3, <1>4 DEF Awaited, AwaitedBy
<1>11. Told'
  BY <1>4 DEF IInv, Told, Left
<1>12. Confined'
  <2> SUFFICES ASSUME NEW k \in Sends, NEW t \in Sessions, Reaches(k, t)'
               PROVE  /\ text'[k] # None
                      /\ Live(k)' => t = s \/ t \in lapsed
                      /\ \A u \in Sessions : Reaches(k, u)' => t = u \/ t \in lapsed \/ u \in lapsed
    BY <1>3 DEF Confined
  <2>1. ASSUME NEW u \in Sessions, Reaches(k, u)
        PROVE  /\ text[k] # None
               /\ Live(k) => u = token \/ u \in lapsed
               /\ \A v \in Sessions : Reaches(k, v) => u = v \/ u \in lapsed \/ v \in lapsed
    BY <2>1 DEF IInv, Confined
  <2>2. ASSUME NEW u \in Sessions, Reaches(k, u), k = key
        PROVE  u = s \/ u \in lapsed
    BY <2>1, <2>2 DEF Usable, Live
  <2>3. CASE k = key
    BY <1>0, <1>1, <1>4, <1>5, <2>2, <2>3
  <2>4. CASE k # key
    <3>1. \A u \in Sessions : Reaches(k, u)' => Reaches(k, u)
      BY <1>4, <2>4
    <3>2. text'[k] = text[k] /\ (Live(k)' => Live(k))
      BY <1>1, <1>2, <1>5, <2>4 DEF Live, Sending
    <3> QED
      BY <2>1, <3>1, <3>2 DEF Usable
  <2> QED
    BY <2>3, <2>4
<1> QED
  BY <1>4, <1>6, <1>7, <1>8, <1>9, <1>10, <1>11, <1>12 DEF IInv

\* The session is there: the message goes to it.
LEMMA HearSessionKeeps ==
  ASSUME IInv, NEW c \in calls, c.awaited, c.stage = "body", active.stage = "session",
         HearSession(c), UNCHANGED <<lapsed, sessions, records>>
  PROVE  IInv'
<1>0. /\ MaxCalls \in Nat /\ MaxMessages \in Nat \ {0} /\ MaxAttempts = 2 /\ made \in Nat
      /\ None \notin Sessions /\ None \notin Nat
  BY ActiveIsSome DEF IInv, TypeOK
<1>1. /\ active # None /\ active \in ActiveSend
      /\ c.token \in Sessions /\ c.left = MaxMessages
      /\ token = None /\ active.attempt = 1 /\ made + 2 <= MaxCalls
      /\ \A d \in calls \ {c} : ~d.awaited
  BY <1>0, ActiveIsSome DEF IInv, Awaited, AwaitedBy, Stage
<1>2. /\ token' = c.token /\ shown' = [status |-> "active", remaining |-> MaxMessages]
      /\ active' = [active EXCEPT !.stage = "answer"]
      /\ Post(active.key, active.source, c.token, calls \ {c})
      /\ UNCHANGED <<thread, text, failed, lapsed, sessions, records>>
  BY <1>1 DEF HearSession, Publish
<1>3. /\ active' \in ActiveSend /\ active' # None /\ active'.key = active.key
      /\ active'.stage = "answer" /\ active'.attempt = 1
      /\ active.key \in Sends /\ active.source \in Sources
  <2>1. /\ active' \in ActiveSend /\ active'.key = active.key
        /\ active'.stage = "answer" /\ active'.attempt = 1
        /\ active.key \in Sends /\ active.source \in Sources
    BY <1>1, <1>2 DEF ActiveSend
  <2> QED
    BY <2>1, ActiveIsSome DEF IInv
<1>4. /\ made' = made + 1 /\ made' \in 0 .. MaxCalls /\ calls' \subseteq Call
      /\ Working'
      /\ \A d \in calls' : d.awaited =>
           /\ d.stage = "out" /\ d.key = active.key /\ d.token = c.token
           /\ \A e \in calls' : e.awaited => e = d
      /\ \A k \in Sends, t \in Sessions : Reaches(k, t)' => Reaches(k, t) \/ (k = active.key /\ t = c.token)
  <2>1. made + 1 <= MaxCalls
    BY <1>0, <1>1
  <2> QED
    BY <1>1, <1>2, <1>3, <2>1, PostKeeps
<1>5. shown' \in SessionState
  BY <1>0, <1>2 DEF SessionState
<1>6. TypeOK'
  BY <1>1, <1>2, <1>3, <1>4, <1>5 DEF IInv, TypeOK
<1>7. ThreadIsTrue'
  <2>1. SpinnersAreSends' /\ RetriesAreLive' /\ AnswersAreTrue'
    BY <1>1, <1>2, <1>3 DEF IInv, ThreadIsTrue, SpinnersAreSends, RetriesAreLive, Sending, AnswersAreTrue
  <2>2. ClosedOnlyWhenSpent'
    BY <1>0, <1>2 DEF ClosedOnlyWhenSpent
  <2> QED
    BY <2>1, <2>2 DEF ThreadIsTrue
<1>8. Kept'
  BY <1>2 DEF IInv, Kept
<1>9. Stage'
  BY <1>0, <1>1, <1>2, <1>3, <1>4 DEF Stage
<1>10. Awaited'
  BY <1>2, <1>3, <1>4 DEF Awaited, AwaitedBy
<1>11. Told'
  BY <1>2, <1>4 DEF IInv, Told, Left
<1>12. Confined'
  <2> SUFFICES ASSUME NEW k \in Sends, NEW t \in Sessions, Reaches(k, t)'
               PROVE  /\ text[k] # None
                      /\ Live(k) => t = c.token \/ t \in lapsed
                      /\ \A u \in Sessions : Reaches(k, u)' => t = u \/ t \in lapsed \/ u \in lapsed
    BY <1>1, <1>2, <1>3 DEF Confined, Live, Sending
  <2>1. ASSUME NEW u \in Sessions, Reaches(k, u)
        PROVE  /\ Live(k) => u \in lapsed
               /\ \A v \in Sessions : Reaches(k, v) => u = v \/ u \in lapsed \/ v \in lapsed
    BY <1>0, <1>1, <2>1 DEF IInv, Confined
  <2>2. k = active.key => Live(k) /\ thread[k] # {}
    BY <1>1 DEF IInv, ThreadIsTrue, SpinnersAreSends, Live, Sending
  <2>3. text[k] # None
    BY <1>4, <2>2 DEF IInv, Kept, Confined
  <2>4. \A u \in Sessions : Reaches(k, u)' => Reaches(k, u) \/ (k = active.key /\ u = c.token)
    BY <1>4
  <2> QED
    BY <2>1, <2>2, <2>3, <2>4
<1> QED
  BY <1>4, <1>6, <1>7, <1>8, <1>9, <1>10, <1>11, <1>12 DEF IInv

\* The answer is there: it is shown, with the messages the session has left.
LEMMA HearAnswerKeeps ==
  ASSUME IInv, NEW c \in calls, c.awaited, c.stage = "body", active.stage = "answer",
         HearAnswer(c), UNCHANGED <<lapsed, sessions, records>>
  PROVE  IInv'
<1>0. MaxMessages \in Nat /\ None \notin Sessions
  BY ActiveIsSome DEF IInv
<1>1. /\ active # None /\ active.key = c.key /\ c.token = token /\ token \in Sessions /\ c \in Call
      /\ records[<<token, active.key>>].status = "completed" /\ Left(token) <= c.left
      /\ \A d \in calls \ {c} : ~d.awaited
  BY DEF IInv, TypeOK, Awaited, AwaitedBy, Stage, Told
<1>2. /\ shown' = [status |-> "active", remaining |-> c.left]
      /\ thread' = [thread EXCEPT ![active.key] = {"answered"}]
      /\ failed' = [failed EXCEPT ![active.key] = None]
      /\ active' = None /\ calls' = calls \ {c}
      /\ UNCHANGED <<token, text, made, lapsed, sessions, records>>
  BY <1>0, <1>1 DEF HearAnswer, Publish
<1>3. /\ thread \in [Sends -> SUBSET ShownStates]
      /\ failed \in [Sends -> ClientCodes \cup {None}] /\ active.key \in Sends
      /\ c.left \in 0 .. MaxMessages /\ Left(token) \in 0 .. MaxMessages
  BY <1>0, <1>1 DEF IInv, TypeOK, Call, Left, SessionRow
<1>4. TypeOK'
  <2>1. shown' \in SessionState
    BY <1>2, <1>3 DEF SessionState
  <2> QED
    BY <1>2, <1>3, <2>1 DEF IInv, TypeOK, ShownStates
<1>5. ThreadIsTrue'
  <2>1. SpinnersAreSends' /\ RetriesAreLive'
    BY <1>1, <1>2, <1>3 DEF IInv, ThreadIsTrue, SpinnersAreSends, RetriesAreLive, Sending
  <2>2. AnswersAreTrue'
    BY <1>1, <1>2, <1>3 DEF IInv, ThreadIsTrue, AnswersAreTrue
  <2>3. ClosedOnlyWhenSpent'
    <3>1. Left(token)' = Left(token) /\ shown'.remaining = c.left
      BY <1>2 DEF Left
    <3>2. c.left = 0 => Left(token) = 0
      BY <1>0, <1>1, <1>3
    <3> QED
      BY <1>0, <1>1, <1>2, <3>1, <3>2 DEF ClosedOnlyWhenSpent
  <2> QED
    BY <2>1, <2>2, <2>3 DEF ThreadIsTrue
<1>6. Kept'
  <2>1. thread[active.key] # {}
    BY <1>1, <1>3 DEF IInv, ThreadIsTrue, SpinnersAreSends, Sending
  <2> QED
    BY <1>2, <1>3, <2>1 DEF IInv, Kept
<1>7. Stage' /\ Awaited'
  BY <1>1, <1>2 DEF Stage, Awaited
<1>8. Working'
  BY <1>2, WorkingStays DEF IInv
<1>9. Told'
  BY <1>1, <1>2 DEF IInv, Told, Left
<1>10. Confined'
  <2>1. \A k \in Sends, s \in Sessions : Reaches(k, s)' => Reaches(k, s)
    BY <1>2 DEF Reaches
  <2>2. \A k \in Sends : Live(k)' => Live(k)
    BY <1>2, <1>3 DEF Live, Sending
  <2> QED
    BY <1>0, <1>2, <2>1, <2>2, ConfinedStays DEF IInv
<1> QED
  BY <1>4, <1>5, <1>6, <1>7, <1>8, <1>9, <1>10 DEF IInv

\* A refusal, a timeout or a lost call: the send pauses or ends, and keeps its session.
LEMMA FailKeeps ==
  ASSUME IInv, NEW c \in calls, c.awaited, NEW code \in HeardCodes, NEW retryable \in BOOLEAN,
         Fail(code, retryable),
         calls' \subseteq (calls \ {c}) \cup
           (IF c.stage \in {"back", "body"} THEN {} ELSE {[c EXCEPT !.awaited = FALSE]}),
         UNCHANGED <<text, made, lapsed, sessions, records>>
  PROVE  IInv'
<1>0. /\ None \notin Sessions /\ code \in ClientCodes /\ ~EndsSession(code) /\ code # None /\ MaxAttempts = 2
      /\ MaxMessages \in Nat
  BY CodesHeard, ActiveIsSome DEF IInv
<1>1. /\ active # None /\ active \in ActiveSend /\ active.key \in Sends /\ c \in Call
      /\ active.stage \in {"session", "answer"}
      /\ \A d \in calls \ {c} : ~d.awaited
  <2>1. active # None /\ active.stage \in {"session", "answer"} /\ \A d \in calls \ {c} : ~d.awaited
    BY DEF IInv, Awaited, AwaitedBy
  <2> QED
    BY <2>1 DEF IInv, TypeOK, ActiveSend
<1>2. /\ token' = token
      /\ shown' = IF active.stage = "session" THEN [status |-> "unavailable", remaining |-> shown.remaining]
                  ELSE shown
      /\ \/ /\ active.stage = "answer" /\ active.attempt < MaxAttempts
            /\ active' = [active EXCEPT !.stage = "pause"] /\ UNCHANGED <<thread, failed>>
         \/ EndFailed(code, retryable)
  BY <1>0 DEF Fail, Publish, SendsAgain
<1>3. /\ thread \in [Sends -> SUBSET ShownStates]
      /\ failed \in [Sends -> ClientCodes \cup {None}] /\ shown \in SessionState
      /\ \A k \in Sends : "sending" \in thread[k] <=> k = active.key
  BY <1>1 DEF IInv, TypeOK, ThreadIsTrue, SpinnersAreSends, Sending
<1>4. /\ shown' \in SessionState /\ shown'.remaining = shown.remaining
  BY <1>2, <1>3 DEF SessionState
<1>5. /\ calls' \subseteq Call
      /\ \A d \in calls' : ~d.awaited
      /\ Working'
      /\ \A k \in Sends, s \in Sessions : Reaches(k, s)' => Reaches(k, s)
  <2> DEFINE new == [c EXCEPT !.awaited = FALSE]
  <2>1. /\ new \in Call /\ ~new.awaited /\ new.stage = c.stage /\ new.token = c.token /\ new.key = c.key
    BY <1>1 DEF Call
  <2>2. calls' \subseteq (calls \ {c}) \cup {new}
    OBVIOUS
  <2> HIDE DEF new
  <2>3. calls' \subseteq Call /\ \A d \in calls' : ~d.awaited
    BY <1>1, <2>1, <2>2 DEF IInv, TypeOK
  <2>4. Working'
    BY ZenonT(60), <2>1, <2>2, WorkingMoves DEF IInv, Working
  <2>5. \A k \in Sends, s \in Sessions : Reaches(k, s)' => Reaches(k, s)
    BY <2>1, <2>2, MoveReaches
  <2> QED
    BY <2>3, <2>4, <2>5
<1>6. Awaited' /\ Told'
  BY <1>5 DEF IInv, Awaited, Told, Left
<1>7. AnswersAreTrue' /\ ClosedOnlyWhenSpent'
  <2>1. \A k \in Sends : "answered" \in thread'[k] => "answered" \in thread[k]
    BY <1>1, <1>2, <1>3 DEF EndFailed
  <2> QED
    BY <1>2, <1>4, <2>1 DEF IInv, ThreadIsTrue, AnswersAreTrue, ClosedOnlyWhenSpent, Left
<1>8. CASE active.stage = "answer" /\ active.attempt < MaxAttempts
           /\ active' = [active EXCEPT !.stage = "pause"] /\ UNCHANGED <<thread, failed>>
  <2>1. /\ active' \in ActiveSend /\ active' # None /\ active'.key = active.key
        /\ active'.stage = "pause" /\ active'.attempt = active.attempt
    <3>1. /\ active' \in ActiveSend /\ active'.key = active.key
          /\ active'.stage = "pause" /\ active'.attempt = active.attempt
      BY <1>1, <1>8 DEF ActiveSend
    <3> QED
      BY <3>1, ActiveIsSome DEF IInv
  <2>2. TypeOK'
    BY <1>2, <1>4, <1>5, <1>8, <2>1 DEF IInv, TypeOK
  <2>3. SpinnersAreSends' /\ RetriesAreLive' /\ Kept'
    BY <1>1, <1>8, <2>1 DEF IInv, ThreadIsTrue, SpinnersAreSends, RetriesAreLive, Sending, Kept
  <2>4. Stage'
    BY <1>1, <1>2, <1>8, <2>1 DEF IInv, Stage
  <2>5. Confined'
    <3>1. \A k \in Sends : Live(k)' => Live(k)
      BY <1>1, <1>8, <2>1 DEF Live, Sending
    <3> QED
      BY <1>0, <1>2, <1>5, <3>1, ConfinedStays DEF IInv
  <2> QED
    BY <1>5, <1>6, <1>7, <2>2, <2>3, <2>4, <2>5 DEF IInv, ThreadIsTrue
<1>9. CASE EndFailed(code, retryable)
  <2>1. /\ active' = None
        /\ \E state \in {"retryable", "failed"} :
             thread' = [thread EXCEPT ![active.key] = {state}] /\ (state = "retryable" => failed'[active.key] # None)
        /\ failed' = failed \/ failed' = [failed EXCEPT ![active.key] = code]
    BY <1>0, <1>1, <1>3, <1>9 DEF EndFailed
  <2>2. PICK state \in {"retryable", "failed"} :
          thread' = [thread EXCEPT ![active.key] = {state}] /\ (state = "retryable" => failed'[active.key] # None)
    BY <2>1
  <2>3. TypeOK'
    BY <1>0, <1>1, <1>2, <1>3, <1>4, <1>5, <2>1, <2>2 DEF IInv, TypeOK, ShownStates
  <2>4. SpinnersAreSends'
    BY <1>1, <1>3, <2>1, <2>2 DEF SpinnersAreSends, Sending
  <2>5. RetriesAreLive'
    BY <1>1, <1>3, <2>1, <2>2 DEF IInv, ThreadIsTrue, RetriesAreLive, Sending
  <2>6. Kept'
    BY <1>1, <1>3, <2>1, <2>2 DEF IInv, Kept
  <2>7. Stage'
    BY <2>1 DEF Stage
  <2>8. Confined'
    <3>1. \A k \in Sends : Live(k)' => Live(k)
      BY <1>1, <1>3, <2>1 DEF Live, Sending
    <3> QED
      BY <1>0, <1>2, <1>5, <3>1, ConfinedStays DEF IInv
  <2> QED
    BY <1>5, <1>6, <1>7, <2>3, <2>4, <2>5, <2>6, <2>7, <2>8 DEF IInv, ThreadIsTrue
<1> QED
  BY <1>2, <1>8, <1>9

\* The same message once more, to the same session.
LEMMA SendAgainKeeps ==
  ASSUME IInv, SendAgain
  PROVE  IInv'
<1>0. /\ MaxCalls \in Nat /\ MaxAttempts = 2 /\ made \in Nat /\ None \notin Sessions
  BY ActiveIsSome DEF IInv, TypeOK
<1>1. /\ active # None /\ active \in ActiveSend /\ active.stage = "pause" /\ token \in Sessions
      /\ active.key \in Sends /\ active.source \in Sources /\ active.attempt = 1 /\ made + 1 <= MaxCalls
  <2>1. active # None /\ active \in ActiveSend /\ active.stage = "pause" /\ token \in Sessions
    BY ActiveIsSome DEF SendAgain, IInv, Stage
  <2>2. active.key \in Sends /\ active.source \in Sources /\ active.attempt = 1
    BY <1>0, <2>1 DEF ActiveSend, IInv, Stage
  <2> QED
    BY <1>0, <2>1, <2>2 DEF IInv, Stage
<1>2. /\ active' = [active EXCEPT !.stage = "answer", !.attempt = active.attempt + 1]
      /\ Post(active.key, active.source, token, calls)
      /\ UNCHANGED <<token, shown, thread, text, failed, lapsed, sessions, records>>
  BY DEF SendAgain
<1>3. /\ active' \in ActiveSend /\ active' # None /\ active'.key = active.key
      /\ active'.stage = "answer" /\ active'.attempt = 2
  <2>1. /\ active' \in ActiveSend /\ active'.key = active.key
        /\ active'.stage = "answer" /\ active'.attempt = 2
    <3>1. active' = [active EXCEPT !.stage = "answer", !.attempt = 2] /\ 2 \in 1 .. MaxAttempts
      BY <1>0, <1>1, <1>2
    <3> QED
      BY <1>1, <3>1 DEF ActiveSend
  <2> QED
    BY <2>1, ActiveIsSome DEF IInv
<1>4. /\ made' = made + 1 /\ made' \in 0 .. MaxCalls /\ calls' \subseteq Call
      /\ Working'
      /\ \A d \in calls' : d.awaited =>
           /\ d.stage = "out" /\ d.key = active.key /\ d.token = token
           /\ \A e \in calls' : e.awaited => e = d
      /\ \A k \in Sends, t \in Sessions : Reaches(k, t)' => Reaches(k, t) \/ (k = active.key /\ t = token)
  BY <1>1, <1>2, NothingAwaited, PostKeeps
<1>5. TypeOK'
  BY <1>2, <1>3, <1>4 DEF IInv, TypeOK
<1>6. ThreadIsTrue' /\ Kept'
  <2>1. SpinnersAreSends' /\ RetriesAreLive' /\ AnswersAreTrue'
    BY <1>1, <1>2, <1>3 DEF IInv, ThreadIsTrue, SpinnersAreSends, RetriesAreLive, Sending, AnswersAreTrue
  <2>2. ClosedOnlyWhenSpent' /\ Kept'
    BY <1>2 DEF IInv, ThreadIsTrue, ClosedOnlyWhenSpent, Left, Kept
  <2> QED
    BY <2>1, <2>2 DEF ThreadIsTrue
<1>7. Stage' /\ Awaited'
  BY <1>0, <1>1, <1>2, <1>3, <1>4 DEF Stage, Awaited, AwaitedBy
<1>8. Told'
  BY <1>2, <1>4 DEF IInv, Told, Left
<1>9. Confined'
  <2> SUFFICES ASSUME NEW k \in Sends, NEW t \in Sessions, Reaches(k, t)'
               PROVE  /\ text[k] # None
                      /\ Live(k) => t = token \/ t \in lapsed
                      /\ \A u \in Sessions : Reaches(k, u)' => t = u \/ t \in lapsed \/ u \in lapsed
    BY <1>1, <1>2, <1>3 DEF Confined, Live, Sending
  <2>1. ASSUME NEW u \in Sessions, Reaches(k, u)
        PROVE  /\ text[k] # None
               /\ Live(k) => u = token \/ u \in lapsed
               /\ \A v \in Sessions : Reaches(k, v) => u = v \/ u \in lapsed \/ v \in lapsed
    BY <2>1 DEF IInv, Confined
  <2>2. k = active.key => Live(k) /\ text[k] # None
    BY <1>1 DEF IInv, ThreadIsTrue, SpinnersAreSends, Kept, Live, Sending
  <2>3. \A u \in Sessions : Reaches(k, u)' => Reaches(k, u) \/ (k = active.key /\ u = token)
    BY <1>4
  <2> QED
    BY <2>1, <2>2, <2>3
<1> QED
  BY <1>4, <1>5, <1>6, <1>7, <1>8, <1>9 DEF IInv

\* The page is opened again: no send of the old one is sent again.
LEMMA ReloadKeeps ==
  ASSUME IInv, Reload
  PROVE  IInv'
<1>0. None \notin Sessions /\ None \notin Nat
  BY ActiveIsSome DEF IInv
<1>1. /\ active' = None
      /\ thread' = [k \in Sends |-> {}]
      /\ failed' = [k \in Sends |-> None]
      /\ UNCHANGED <<text, made, lapsed, sessions, records>>
      /\ UNCHANGED <<token, shown>> \/ (token' = None /\ shown' = [status |-> "none", remaining |-> None])
  BY DEF Reload, Publish
<1>2. \A d \in calls' : \E c \in calls :
        d \in Call /\ ~d.awaited /\ d.stage = c.stage /\ d.token = c.token /\ d.key = c.key
        /\ d = [c EXCEPT !.awaited = FALSE]
  <2> SUFFICES ASSUME NEW c \in calls
               PROVE  LET d == [c EXCEPT !.awaited = FALSE] IN
                        d \in Call /\ ~d.awaited /\ d.stage = c.stage /\ d.token = c.token /\ d.key = c.key
    BY DEF Reload
  <2>1. c \in Call
    BY DEF IInv, TypeOK
  <2> QED
    BY <2>1 DEF Call
<1>3. TypeOK'
  <2>1. [status |-> "none", remaining |-> None] \in SessionState
    BY DEF SessionState
  <2> QED
    BY <1>1, <1>2, <2>1 DEF IInv, TypeOK
<1>4. ThreadIsTrue' /\ Kept'
  <2>1. SpinnersAreSends' /\ RetriesAreLive' /\ AnswersAreTrue' /\ Kept'
    BY <1>1 DEF SpinnersAreSends, RetriesAreLive, Sending, AnswersAreTrue, IInv, Kept
  <2>2. ClosedOnlyWhenSpent'
    <3>1. None # 0
      BY <1>0
    <3> QED
      BY <1>1, <3>1 DEF IInv, ThreadIsTrue, ClosedOnlyWhenSpent, Left
  <2> QED
    BY <2>1, <2>2 DEF ThreadIsTrue
<1>5. Stage' /\ Awaited'
  BY <1>1, <1>2 DEF Stage, Awaited
<1>6. Working'
  <2> SUFFICES ASSUME NEW d \in calls', d.stage = "working"
               PROVE  /\ d.token \in Sessions
                      /\ records[<<d.token, d.key>>].status = "processing"
                      /\ \A e \in calls' :
                           e.stage = "working" /\ e.token = d.token /\ e.key = d.key => e = d
    BY <1>1 DEF Working
  <2>1. PICK c \in calls : /\ d.stage = c.stage /\ d.token = c.token /\ d.key = c.key
                           /\ d = [c EXCEPT !.awaited = FALSE]
    BY <1>2
  <2>2. ASSUME NEW e \in calls', e.stage = "working", e.token = d.token, e.key = d.key
        PROVE  e = d
    <3>1. PICK b \in calls : /\ e.stage = b.stage /\ e.token = b.token /\ e.key = b.key
                             /\ e = [b EXCEPT !.awaited = FALSE]
      BY <1>2
    <3>2. b = c
      BY ZenonT(60), <2>1, <2>2, <3>1 DEF IInv, Working
    <3> QED
      BY <2>1, <3>1, <3>2
  <2> QED
    BY <2>1, <2>2 DEF IInv, Working
<1>7. Told'
  BY <1>1, <1>2 DEF IInv, Told, Left
<1>8. Confined'
  <2>1. \A k \in Sends, s \in Sessions : Reaches(k, s)' => Reaches(k, s)
    BY <1>1, <1>2 DEF Reaches
  <2> QED
    BY <1>0, <1>1, <2>1, ConfinedStays DEF IInv, Live, Sending
<1> QED
  BY <1>3, <1>4, <1>5, <1>6, <1>7, <1>8 DEF IInv

\* The visitor sends a message, or tries one again.
LEMMA VisitorKeeps ==
  ASSUME IInv, NEW key \in Sends,
         (\E source \in Sources : Submit(key, source)) \/ Retry(key)
  PROVE  IInv'
<1>1. CASE \E source \in Sources : Submit(key, source)
  BY <1>1, BeginKeeps DEF Submit, Fresh
<1>2. CASE Retry(key)
  <2>1. failed[key] # None /\ ~NeedsFreshKey(failed[key])
    BY <1>2, CodesHeard DEF Retry, IInv, Kept
  <2>2. text[key] = key
    BY <2>1 DEF IInv, Kept
  <2>3. Begin(key, "retry", key) /\ "retry" \in Sources
    BY <1>2, <2>1, <2>2 DEF Retry, Sources
  <2> QED
    BY <1>2, <2>1, <2>3, BeginKeeps DEF Retry
<1> QED
  BY <1>1, <1>2

\* The headers of an answer are there: the call is awaited as before.
LEMMA HearHeadersKeeps ==
  ASSUME IInv, NEW c \in calls, HearHeaders(c)
  PROVE  IInv'
<1>1. /\ c \in Call /\ c.awaited /\ c.stage = "back" /\ c.reply = "ok"
      /\ UNCHANGED <<client, made, lapsed, sessions, records>>
  BY DEF HearHeaders, IInv, TypeOK
<1> DEFINE new == [c EXCEPT !.stage = "body"]
<1>2. /\ new \in Call /\ new.stage = "body" /\ new.reply = "ok" /\ new.token = c.token
      /\ new.key = c.key /\ new.left = c.left /\ new.awaited
  BY <1>1 DEF Call
<1>3. calls' = (calls \ {c}) \cup {new} /\ calls' \subseteq Call
  BY <1>2 DEF HearHeaders, IInv, TypeOK
<1> HIDE DEF new
<1>4. AwaitedBy(new)
  BY <1>1, <1>2 DEF IInv, Awaited, AwaitedBy
<1>5. active.stage = "answer" =>
        records[<<new.token, new.key>>].status = "completed" /\ Left(new.token) <= new.left
  BY <1>1, <1>2 DEF IInv, Told
<1>6. TypeOK' /\ Kept' /\ Stage'
  BY <1>1, <1>3 DEF IInv, TypeOK, Kept, Stage, client
<1>7. ThreadIsTrue'
  BY <1>1 DEF IInv, ThreadIsTrue, SpinnersAreSends, RetriesAreLive, Sending, AnswersAreTrue,
              ClosedOnlyWhenSpent, Left, client
<1>8. Awaited'
  BY <1>1, <1>2, <1>3, <1>4 DEF IInv, Awaited, AwaitedBy, client
<1>9. Working'
  BY <1>1, <1>2, <1>3, WorkingStays DEF IInv
<1>10. Told'
  BY <1>1, <1>2, <1>3, <1>5 DEF IInv, Told, Left, client
<1>11. Confined'
  <2>1. \A k \in Sends, s \in Sessions : Reaches(k, s)' => Reaches(k, s)
    BY <1>1, <1>2, <1>3 DEF Reaches
  <2>2. None \notin Sessions
    BY ActiveIsSome DEF IInv
  <2> QED
    BY <1>1, <2>1, <2>2, ConfinedStays DEF IInv, Live, Sending, client
<1> QED
  BY <1>6, <1>7, <1>8, <1>9, <1>10, <1>11 DEF IInv

\* A refusal, a timer or a pause.
LEMMA ClientStepKeeps ==
  ASSUME IInv, ClientStep
  PROVE  IInv'
<1>1. ASSUME NEW c \in calls, HearRefusal(c)  PROVE IInv'
  BY <1>1, CodesHeard, FailKeeps DEF HearRefusal
<1>2. ASSUME NEW c \in calls, GiveUp(c)  PROVE IInv'
  <2>1. "request_timeout" \in HeardCodes
    BY DEF HeardCodes
  <2> QED
    BY <1>2, <2>1, FailKeeps DEF GiveUp
<1> QED
  BY <1>1, <1>2, HearHeadersKeeps, SendAgainKeeps DEF ClientStep

\* The body of an answer is read, or cannot be.
LEMMA BodyKeeps ==
  ASSUME IInv, NEW c \in calls, HearBody(c) \/ BodyFails(c)
  PROVE  IInv'
<1>1. CASE HearBody(c)
  BY <1>1, HearSessionKeeps, HearAnswerKeeps DEF HearBody
<1>2. CASE BodyFails(c)
  <2>1. "safe_internal_error" \in HeardCodes
    BY DEF HeardCodes
  <2> QED
    BY <1>2, <2>1, FailKeeps DEF BodyFails
<1> QED
  BY <1>1, <1>2

-----------------------------------------------------------------------------
(* Theorems.                                                               *)

\* The inductive invariant of the conversation: one call is awaited, for the send
\* under way; what it is told is what its record says; a send that may be sent again
\* went to no other session the client could still use.
THEOREM ConversationInvariance == Spec => []IInv
<1>1. Init => IInv
  <2> SUFFICES ASSUME Init  PROVE IInv
    OBVIOUS
  <2>0. /\ MaxCalls \in Nat /\ MaxMessages \in Nat /\ None # 0
    BY ConversationAssumption
  <2>1. /\ [status |-> "unborn", used |-> 0] \in SessionRow
        /\ [status |-> "absent", source |-> None, left |-> 0] \in RecordRow
        /\ [status |-> "none", remaining |-> None] \in SessionState
    BY <2>0 DEF SessionRow, RecordRow, SessionState
  <2>2. TypeOK
    BY <2>0, <2>1 DEF Init, TypeOK
  <2>3. ThreadIsTrue
    BY <2>0 DEF Init, ThreadIsTrue, SpinnersAreSends, RetriesAreLive, Sending, AnswersAreTrue, ClosedOnlyWhenSpent
  <2>4. Kept /\ Stage /\ Awaited /\ Working
    BY DEF Init, Kept, Stage, Awaited, Working
  <2>5. \A s \in Sessions, k \in Sends : records[<<s, k>>].status = "absent"
    BY DEF Init
  <2>6. Told /\ Confined
    BY <2>5 DEF Init, Told, Confined, Reaches
  <2> QED
    BY <2>2, <2>3, <2>4, <2>6 DEF IInv
<1>2. ASSUME IInv, [Next]_vars  PROVE IInv'
  <2>1. CASE UNCHANGED vars
    <3>1. TypeOK' /\ Kept' /\ Stage' /\ Awaited' /\ Working'
      BY <1>2, <2>1 DEF vars, client, IInv, TypeOK, Kept, Stage, Awaited, AwaitedBy, Working
    <3>2. ThreadIsTrue'
      BY <1>2, <2>1 DEF vars, client, IInv, ThreadIsTrue, SpinnersAreSends, RetriesAreLive, Sending,
                        AnswersAreTrue, ClosedOnlyWhenSpent, Left
    <3>3. Told' /\ Confined'
      BY <1>2, <2>1 DEF vars, client, IInv, Told, Left, Confined, Reaches, Live, Sending
    <3> QED
      BY <3>1, <3>2, <3>3 DEF IInv
  <2>2. CASE Next
    BY <1>2, <2>2, ClientStepKeeps, BodyKeeps, VisitorKeeps, ReloadKeeps, SessionEndKeeps, CreateSessionKeeps,
      ReceiveKeeps, FinishKeeps DEF Next
  <2> QED
    BY <1>2, <2>1, <2>2
<1> QED
  BY <1>1, <1>2, PTL DEF Spec

\* What the visitor sees agrees with what the client does and the API did, whatever
\* calls are given up, served late or answered after the visitor moved on.
THEOREM TrueThread == Spec => []ThreadIsTrue
<1>1. IInv => ThreadIsTrue
  BY DEF IInv
<1> QED
  BY <1>1, ConversationInvariance, PTL

\* However often a message is sent again it is charged and processed once, unless a
\* session lapsed for the client in between.
THEOREM OncePerLife == Spec => []ProcessedOncePerLife
<1>1. IInv => ProcessedOncePerLife
  <2> SUFFICES ASSUME IInv, NEW k \in Sends, NEW l \in Sends, NEW s \in Sessions, NEW t \in Sessions,
                      records[<<s, k>>].status # "absent", records[<<t, l>>].status # "absent",
                      text[k] = text[l], <<s, k>> # <<t, l>>
               PROVE  s # t /\ {s, t} \cap lapsed # {}
    BY DEF ProcessedOncePerLife
  <2>1. Reaches(k, s) /\ Reaches(l, t)
    BY DEF Reaches
  <2>2. k = l
    BY <2>1 DEF IInv, Confined, Kept
  <2>3. s = t \/ s \in lapsed \/ t \in lapsed
    BY <2>1, <2>2 DEF IInv, Confined
  <2> QED
    BY <2>2, <2>3
<1> QED
  BY <1>1, ConversationInvariance, PTL

=============================================================================
