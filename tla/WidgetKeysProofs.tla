-------------------------- MODULE WidgetKeysProofs --------------------------
(***************************************************************************)
(* Proofs about WidgetKeys, for any requests served by any number of       *)
(* workers, any routes and any origins.  Most steps move one request and   *)
(* leave the rows alone (QuietStep); the steps that write a credential, an *)
(* origin or the widget have a lemma each.  A second invariant, of         *)
(* requests served one after the other, counts the origins of the widget.  *)
(***************************************************************************)
EXTENDS WidgetKeys, FiniteSetTheorems, TLAPS

-----------------------------------------------------------------------------
(* What the types say.                                                     *)

LEMMA Types ==
    ASSUME TypeOK
    PROVE  /\ \A r \in Requests :
                /\ tx[r] \in RequestState
                /\ tx[r].phase \in Phases
                /\ tx[r].key \in 0..MaxKeys
                /\ tx[r].activated \in BOOLEAN
                /\ tx[r].rows \in SUBSET (Origins \X Copies)
           /\ \A c \in Keys : /\ keys[c] \in Key
                              /\ keys[c].activated \in BOOLEAN
                              /\ c \in 0..MaxKeys
           /\ widget.key \in Keys /\ widget \in Widget
           /\ Existing \subseteq Keys
           /\ \A c : ActiveRows(c) \in SUBSET (Origins \X Copies)
  BY SMTT(30) DEF TypeOK, RequestState, Key, Keys, Widget, Existing, ActiveRows

\* What a request must satisfy for the invariant.
RequestHolds(r) ==
    /\ tx[r].phase # "idle" => tx[r].key \in Existing
    /\ At(r, "checked", {"disable"}) => keys[tx[r].key].activated
    /\ \A o \in Origins \ DefaultPort : \A m, n \in Copies :
         <<o, m>> \in tx[r].rows /\ <<o, n>> \in tx[r].rows => m = n

\* Active rows are no duplicates either.
LEMMA ActiveOnce ==
    ASSUME TypeOK, ExplicitOnce, NEW c \in Keys, NEW o \in Origins \ DefaultPort,
           NEW m \in Copies, NEW n \in Copies,
           <<o, m>> \in ActiveRows(c), <<o, n>> \in ActiveRows(c)
    PROVE  m = n
  BY DEF ActiveRows, ExplicitOnce

-----------------------------------------------------------------------------

LEMMA InitHolds == Init => IInv
  <1> SUFFICES ASSUME Init PROVE IInv
    OBVIOUS
  <1>1. 1 \in Keys /\ 1 \in Copies
    BY BoundsAssumption DEF Keys, Copies
  <1>2. PICK s \in {"draft", "active"}, S \in SUBSET Origins, p \in BOOLEAN :
           /\ p => s = "active" /\ S # {}
           /\ keys = [c \in Keys |-> IF c = 1
                THEN [status |-> s, activated |-> s = "active",
                      parent |-> NoKey, cutover |-> FALSE]
                ELSE NoCredential]
           /\ allowed = [w \in Rows |-> IF w[1] = 1 /\ w[2] \in S /\ w[3] = 1
                                        THEN "active" ELSE "absent"]
           /\ widget = [key |-> 1, published |-> p, archived |-> FALSE]
    BY DEF Init
  <1>3. NoCredential \in Key
    BY BoundsAssumption DEF NoCredential, Key, NoKey
  <1> DEFINE k == [status |-> s, activated |-> s = "active",
                    parent |-> NoKey, cutover |-> FALSE]
  <1>4. k \in Key /\ k.status = s /\ (s = "active" => k.activated)
    <2>1. 0 \in 0..MaxKeys
      BY BoundsAssumption
    <2>2. CASE s = "active"
      <3>1. k = [status |-> "active", activated |-> TRUE, parent |-> NoKey, cutover |-> FALSE]
        BY <2>2
      <3> HIDE DEF k
      <3> QED BY <2>1, <2>2, <3>1 DEF Key, NoKey
    <2>3. CASE s = "draft"
      <3>1. k = [status |-> "draft", activated |-> FALSE, parent |-> NoKey, cutover |-> FALSE]
        BY <2>3
      <3> HIDE DEF k
      <3> QED BY <2>1, <2>3, <3>1 DEF Key, NoKey
    <2> QED BY <2>2, <2>3
  <1>41. keys = [c \in Keys |-> IF c = 1 THEN k ELSE NoCredential]
    BY <1>2
  <1> HIDE DEF k
  <1>5. keys \in [Keys -> Key] /\ allowed \in [Rows -> RowStates] /\ widget \in Widget
    BY <1>1, <1>2, <1>3, <1>4, <1>41 DEF RowStates, Widget
  <1>6. \A r \in Requests :
           /\ tx[r] \in RequestState
           /\ tx[r].phase = "idle" /\ tx[r].rows = {}
    <2> SUFFICES ASSUME NEW r \in Requests
                 PROVE  tx[r] \in RequestState /\ tx[r].phase = "idle" /\ tx[r].rows = {}
      OBVIOUS
    <2>1. 0 \in 0..MaxKeys
      BY BoundsAssumption
    <2>2. tx[r] \in [phase : {"idle"}, op : {"none"}, key : {NoKey},
                     expected : {NoKey}, live : {FALSE},
                     origin : {NoOrigin}, copy : {1},
                     activated : {FALSE}, rows : {{}}, answer : {"none"}]
      BY DEF Init
    <2>3. tx[r] = [phase |-> "idle", op |-> "none", key |-> 0, expected |-> 0,
                   live |-> FALSE, origin |-> NoOrigin, copy |-> 1,
                   activated |-> FALSE, rows |-> {}, answer |-> "none"]
      BY <2>2 DEF NoKey
    <2> QED BY <1>1, <2>1, <2>3 DEF RequestState, Phases
  <1>7. tx \in [Requests -> RequestState]
    BY <1>6 DEF Init
  <1>8. \A c \in Keys : /\ keys[c].status \in {"draft", "active"} <=> c = 1
                        /\ keys[c].status \in {"absent", "draft", "active"}
                        /\ keys[c].status = "active" => keys[c].activated
    BY <1>4, <1>41 DEF NoCredential
  <1>9. ActiveWasActivated /\ 1 \in Existing
    BY <1>1, <1>8 DEF ActiveWasActivated, Existing
  <1>10. ExplicitOnce
    BY <1>2 DEF ExplicitOnce, Rows
  <1>11. regime \in Regimes
    BY DEF Init
  <1> QED BY <1>2, <1>5, <1>6, <1>7, <1>9, <1>10, <1>11 DEF IInv, TypeOK, At

-----------------------------------------------------------------------------
(* Steps that move one request.                                            *)

\* The rows being untouched, a request that holds its part keeps the invariant.
LEMMA QuietStep ==
    ASSUME IInv, UNCHANGED regime, NEW r \in Requests, NEW t \in RequestState,
           tx' = [tx EXCEPT ![r] = t],
           UNCHANGED <<keys, allowed>>, widget' \in Widget, widget'.key = widget.key,
           t.phase # "idle" => t.key \in Existing,
           t.phase = "checked" /\ t.op = "disable" => keys[t.key].activated,
           \A o \in Origins \ DefaultPort : \A m, n \in Copies :
             <<o, m>> \in t.rows /\ <<o, n>> \in t.rows => m = n
    PROVE  IInv'
  <1>1. TypeOK'
    BY DEF IInv, TypeOK
  <1>2. ActiveWasActivated' /\ ExplicitOnce' /\ Existing' = Existing
    BY DEF IInv, ActiveWasActivated, ExplicitOnce, Existing
  <1>3. ASSUME NEW q \in Requests PROVE RequestHolds(q)'
    <2>1. CASE q = r
      BY <1>2, <2>1 DEF RequestHolds, At, IInv, TypeOK
    <2>2. CASE q # r
      BY <1>2, <2>2 DEF RequestHolds, At, IInv, TypeOK
    <2> QED BY <2>1, <2>2
  <1> QED BY <1>1, <1>2, <1>3 DEF IInv, RequestHolds

\* Ending a request, whatever its answer.
LEMMA FinishHolds ==
    ASSUME IInv, UNCHANGED regime, NEW r \in Requests, tx[r].phase # "idle",
           NEW a \in {"ok", "not_found", "conflict", "invalid", "error"},
           Finish(r, a),
           UNCHANGED <<keys, allowed>>, widget' \in Widget, widget'.key = widget.key
    PROVE  IInv'
  <1> DEFINE t == [tx[r] EXCEPT !.phase = "done", !.answer = a]
  <1>1. TypeOK
    BY DEF IInv
  <1>2. t \in RequestState /\ t.phase = "done" /\ t.key = tx[r].key /\ t.rows = tx[r].rows
    BY ZenonT(60), <1>1, Types DEF RequestState, Phases
  <1>3. tx' = [tx EXCEPT ![r] = t]
    BY DEF Finish
  <1> HIDE DEF t
  <1> QED BY <1>2, <1>3, QuietStep DEF IInv

LEMMA RefuseHolds ==
    ASSUME IInv, UNCHANGED regime, NEW r \in Requests, tx[r].phase # "idle",
           NEW a \in {"ok", "not_found", "conflict", "invalid", "error"},
           Refuse(r, a)
    PROVE  IInv'
  BY FinishHolds, Types DEF Refuse, IInv

\* Moving on without having read anything but what licenses a transition.
LEMMA GotoHolds ==
    ASSUME IInv, UNCHANGED regime, NEW r \in Requests, NEW p \in Phases, tx[r].phase # "idle",
           Goto(r, p),
           p = "checked" /\ tx[r].op = "disable" => keys[tx[r].key].activated
    PROVE  IInv'
  <1> DEFINE t == [tx[r] EXCEPT !.phase = p]
  <1>1. TypeOK
    BY DEF IInv
  <1>2. /\ t \in RequestState /\ t.phase = p /\ t.key = tx[r].key
        /\ t.rows = tx[r].rows /\ t.op = tx[r].op
    BY <1>1, Types DEF RequestState
  <1>3. tx' = [tx EXCEPT ![r] = t] /\ UNCHANGED <<keys, allowed, widget>>
    BY DEF Goto
  <1> HIDE DEF t
  <1> QED BY ZenonT(60), <1>1, <1>2, <1>3, QuietStep, Types DEF IInv

LEMMA LoadHolds == ASSUME IInv, UNCHANGED regime, NEW r \in Requests, Load(r) PROVE IInv'
  <1>1. TypeOK
    BY DEF IInv
  <1>2. /\ UNCHANGED <<keys, allowed, widget>>
        /\ \E op \in Operations, key \in Existing, e \in 0..MaxKeys,
              o \in Origins \union {NoOrigin}, n \in Copies :
             tx' = [tx EXCEPT ![r] = [@ EXCEPT !.phase = "loaded", !.op = op,
                      !.key = key, !.expected = e, !.live = Live(widget),
                      !.origin = o, !.copy = n]]
    <2>1. 1 \in Copies /\ NoKey \in 0..MaxKeys
      BY BoundsAssumption DEF Copies, NoKey
    <2>2. widget.key \in Existing /\ Existing \subseteq 0..MaxKeys
      BY <1>1, Types DEF IInv
    <2>3. \A w \in Rows : w[2] \in Origins /\ w[3] \in Copies
      BY DEF Rows
    <2>0. ASSUME NEW op, NEW key, NEW e, NEW o, NEW n, Ask(r, op, key, e, o, n)
          PROVE  op \in Operations
      BY <1>1, <2>0, RegimesAssumption DEF Ask, TypeOK, Regime
    <2>4. PICK op \in Operations, key \in Existing, e \in 0..MaxKeys,
              o \in Origins \union {NoOrigin}, n \in Copies : Ask(r, op, key, e, o, n)
      <3>1. CASE \E o \in Origins : Ask(r, "add", widget.key, NoKey, o, 1)
        BY <2>0, <2>1, <2>2, <3>1
      <3>2. CASE \E w \in Rows : Ask(r, "remove", widget.key, NoKey, w[2], w[3])
        BY <2>0, <2>1, <2>2, <2>3, <3>2
      <3>3. CASE \E e \in Existing : Ask(r, "rotate", widget.key, e, NoOrigin, 1)
        BY <2>0, <2>1, <2>2, <3>3
      <3>4. CASE \E op \in {"publish", "archive"} : Ask(r, op, widget.key, NoKey, NoOrigin, 1)
        BY <2>0, <2>1, <2>2, <3>4
      <3>5. CASE \E c \in Existing, o \in Origins : Ask(r, "add_to_key", c, NoKey, o, 1)
        BY <2>0, <2>1, <3>5
      <3>6. CASE \E c \in Existing, w \in Rows : Ask(r, "remove_from_key", c, NoKey, w[2], w[3])
        BY <2>0, <2>1, <2>3, <3>6
      <3>7. CASE \E c \in Existing, op \in {"rotate_key", "activate", "disable", "revoke"} :
                   Ask(r, op, c, NoKey, NoOrigin, 1)
        BY <2>0, <2>1, <3>7
      <3> QED BY <3>1, <3>2, <3>3, <3>4, <3>5, <3>6, <3>7 DEF Load
    <2> QED BY <2>4 DEF Load, Ask
  <1>3. PICK op \in Operations, key \in Existing, e \in 0..MaxKeys,
             o \in Origins \union {NoOrigin}, n \in Copies :
           tx' = [tx EXCEPT ![r] = [@ EXCEPT !.phase = "loaded", !.op = op,
                    !.key = key, !.expected = e, !.live = Live(widget),
                    !.origin = o, !.copy = n]]
    BY <1>2
  <1> DEFINE t == [tx[r] EXCEPT !.phase = "loaded", !.op = op,
                    !.key = key, !.expected = e, !.live = Live(widget),
                    !.origin = o, !.copy = n]
  <1>4. Live(widget) \in BOOLEAN
    BY <1>1 DEF Live, TypeOK, Widget
  <1>5. t \in RequestState /\ t.phase = "loaded" /\ t.key = key /\ t.rows = tx[r].rows
    BY ZenonT(60), <1>1, <1>4, Types DEF RequestState, Phases
  <1>6. tx' = [tx EXCEPT ![r] = t]
    BY <1>3
  <1> HIDE DEF t
  <1> QED BY <1>1, <1>2, <1>5, <1>6, QuietStep, Types DEF IInv

\* Reading the active rows of the key, to count or to copy them.
LEMMA ReadRowsHolds ==
    ASSUME IInv, UNCHANGED regime, NEW r \in Requests, NEW p \in {"counted", "copied"},
           tx[r].phase # "idle",
           tx' = [tx EXCEPT ![r] = [@ EXCEPT !.phase = p, !.rows = ActiveRows(tx[r].key)]],
           UNCHANGED <<keys, allowed, widget>>
    PROVE  IInv'
  <1> DEFINE t == [tx[r] EXCEPT !.phase = p, !.rows = ActiveRows(tx[r].key)]
  <1>1. TypeOK
    BY DEF IInv
  <1>2. /\ t \in RequestState /\ t.phase = p /\ t.key = tx[r].key
        /\ t.rows = ActiveRows(tx[r].key)
    BY ZenonT(60), <1>1, Types DEF RequestState, Phases
  <1>3. tx[r].key \in Keys
    BY <1>1, Types DEF IInv
  <1>4. tx' = [tx EXCEPT ![r] = t]
    OBVIOUS
  <1> HIDE DEF t
  <1>5. tx[r].key \in Existing /\ widget \in Widget /\ ExplicitOnce
    BY <1>1, Types DEF IInv
  <1>6. \A o \in Origins \ DefaultPort : \A m, n \in Copies :
           <<o, m>> \in t.rows /\ <<o, n>> \in t.rows => m = n
    BY <1>1, <1>2, <1>3, <1>5, ActiveOnce
  <1> QED BY <1>2, <1>4, <1>5, <1>6, QuietStep
-----------------------------------------------------------------------------
(* Steps that write a row.                                                 *)

\* Writing one origin of an existing key ends the request.
LEMMA WriteOriginHolds ==
    ASSUME IInv, UNCHANGED regime, NEW r \in Requests, tx[r].phase # "idle",
           allowed' \in [Rows -> RowStates], ExplicitOnce',
           Finish(r, "ok"), UNCHANGED <<keys, widget>>
    PROVE  IInv'
  <1> DEFINE t == [tx[r] EXCEPT !.phase = "done", !.answer = "ok"]
  <1>1. TypeOK
    BY DEF IInv
  <1>2. /\ t \in RequestState /\ t.phase = "done" /\ t.key = tx[r].key
        /\ t.rows = tx[r].rows
    BY ZenonT(60), <1>1, Types DEF RequestState, Phases
  <1>2a. tx' = [tx EXCEPT ![r] = t]
    BY DEF Finish
  <1> HIDE DEF t
  <1>3. TypeOK'
    BY <1>1, <1>2, <1>2a DEF TypeOK
  <1>4. ActiveWasActivated' /\ Existing' = Existing
    BY DEF IInv, ActiveWasActivated, Existing
  <1>5. ASSUME NEW q \in Requests PROVE RequestHolds(q)'
    <2>1. CASE q = r
      BY <1>2, <1>2a, <1>4, <2>1 DEF RequestHolds, At, IInv, TypeOK
    <2>2. CASE q # r
      BY <1>2, <1>2a, <1>4, <2>2 DEF RequestHolds, At, IInv, TypeOK
    <2> QED BY <2>1, <2>2
  <1> QED BY <1>3, <1>4, <1>5 DEF IInv, RequestHolds

LEMMA InsertHolds == ASSUME IInv, UNCHANGED regime, NEW r \in Requests, InsertOrigin(r) PROVE IInv'
  <1> DEFINE c == tx[r].key
             o == tx[r].origin
  <1>1. tx[r].phase # "idle"
    BY DEF InsertOrigin, At
  <1>2. CASE Violates(c, o) /\ Refuse(r, "error")
    BY <1>1, <1>2, RefuseHolds
  <1>3. CASE /\ ~Violates(c, o)
             /\ \E n \in Copies : allowed' = [allowed EXCEPT ![<<c, o, n>>] = "active"]
             /\ Finish(r, "ok")
             /\ UNCHANGED <<keys, widget>>
    <2>1. PICK n \in Copies : allowed' = [allowed EXCEPT ![<<c, o, n>>] = "active"]
      BY <1>3
    <2>2. allowed' \in [Rows -> RowStates]
      BY <2>1 DEF IInv, TypeOK, RowStates
    <2>3. ExplicitOnce'
      BY ZenonT(60), <1>3, <2>1 DEF IInv, TypeOK, ExplicitOnce, Violates, Rows
    <2> QED BY <1>1, <1>3, <2>2, <2>3, WriteOriginHolds
  <1> QED BY <1>2, <1>3 DEF InsertOrigin

LEMMA DeactivateHolds == ASSUME IInv, UNCHANGED regime, NEW r \in Requests, DeactivateOrigin(r) PROVE IInv'
  <1> DEFINE row == <<tx[r].key, tx[r].origin, tx[r].copy>>
  <1>1. tx[r].phase # "idle"
    BY DEF DeactivateOrigin, At
  <1>2. CASE Refuse(r, "not_found")
    BY <1>1, <1>2, RefuseHolds
  <1>3. CASE /\ allowed[row] # "absent"
             /\ allowed' = [allowed EXCEPT ![row] = "removed"]
             /\ Finish(r, "ok")
             /\ UNCHANGED <<keys, widget>>
    <2>1. allowed' \in [Rows -> RowStates]
      BY <1>3 DEF IInv, TypeOK, RowStates
    <2>2. \A w \in Rows : allowed'[w] # "absent" => allowed[w] # "absent"
      BY <1>3 DEF IInv, TypeOK
    <2>3. ExplicitOnce'
      BY <2>2 DEF IInv, ExplicitOnce, Rows
    <2> QED BY <1>1, <1>3, <2>1, <2>3, WriteOriginHolds
  <1> QED BY <1>2, <1>3 DEF DeactivateOrigin

\* Writing credentials so that each keeps its activation and its existence,
\* and no origin twice, ends the request.
LEMMA WriteKeysHolds ==
    ASSUME IInv, UNCHANGED regime, NEW r \in Requests, tx[r].phase # "idle", Finish(r, "ok"),
           keys' \in [Keys -> Key], ActiveWasActivated',
           allowed' \in [Rows -> RowStates], ExplicitOnce',
           widget' \in Widget, widget'.key \in Existing',
           \A c \in Existing : /\ c \in Existing'
                               /\ keys[c].activated => keys'[c].activated
    PROVE  IInv'
  <1> DEFINE t == [tx[r] EXCEPT !.phase = "done", !.answer = "ok"]
  <1>1. TypeOK
    BY DEF IInv
  <1>2. /\ t \in RequestState /\ t.phase = "done" /\ t.key = tx[r].key
        /\ t.rows = tx[r].rows
    <2>1. tx[r] \in RequestState
      BY <1>1, Types
    <2> QED BY <2>1 DEF RequestState, Phases
  <1>2a. tx' = [tx EXCEPT ![r] = t]
    BY DEF Finish
  <1> HIDE DEF t
  <1>3. TypeOK'
    BY <1>1, <1>2, <1>2a DEF TypeOK
  <1>4. ASSUME NEW q \in Requests PROVE RequestHolds(q)'
    <2>1. CASE q = r
      BY <1>2, <1>2a, <2>1 DEF RequestHolds, At, IInv, TypeOK
    <2>2. CASE q # r
      BY <1>2, <1>2a, <2>2 DEF RequestHolds, At, IInv, TypeOK
    <2> QED BY <2>1, <2>2
  <1> QED BY <1>3, <1>4 DEF IInv, RequestHolds

LEMMA TransitionHolds == ASSUME IInv, UNCHANGED regime, NEW r \in Requests, WriteTransition(r) PROVE IInv'
  <1> DEFINE c == tx[r].key
             s == Target(tx[r].op)
             k == SetStatus(keys[c], s)
  <1>1. TypeOK /\ tx[r].phase # "idle" /\ tx[r].phase = "checked"
    BY DEF IInv, WriteTransition, At
  <1>2. c \in Existing /\ c \in Keys /\ keys[c] \in Key
    BY <1>1, Types DEF IInv
  <1>3. /\ s \in {"active", "disabled", "revoked"}
        /\ s = "disabled" => tx[r].op = "disable"
    BY DEF WriteTransition, At, Target
  <1>4. /\ k \in Key /\ k.status = s
        /\ keys[c].activated \/ s = "active" => k.activated
    <2>1. (keys[c].activated \/ s = "active") \in BOOLEAN
      OBVIOUS
    <2> QED BY <1>2, <1>3, <2>1 DEF SetStatus, Key
  <1>5. s = "disabled" => keys[c].activated
    BY <1>1, <1>3 DEF IInv, At
  <1>6. keys' = [keys EXCEPT ![c] = k] /\ Finish(r, "ok") /\ UNCHANGED <<allowed, widget>>
    BY DEF WriteTransition
  <1> HIDE DEF k, s
  <1>7. keys' \in [Keys -> Key]
    BY <1>1, <1>2, <1>4, <1>6 DEF TypeOK
  <1>8. ActiveWasActivated'
    BY <1>1, <1>2, <1>3, <1>4, <1>5, <1>6 DEF IInv, ActiveWasActivated, TypeOK
  <1>9. \A d \in Existing : d \in Existing' /\ (keys[d].activated => keys'[d].activated)
    BY <1>1, <1>2, <1>3, <1>4, <1>6 DEF Existing, TypeOK
  <1>10. ExplicitOnce' /\ allowed' \in [Rows -> RowStates] /\ widget' \in Widget
         /\ widget'.key \in Existing'
    BY <1>1, <1>6, <1>9 DEF IInv, TypeOK, ExplicitOnce
  <1> QED BY <1>1, <1>6, <1>7, <1>8, <1>9, <1>10, WriteKeysHolds

LEMMA AddReplacementHolds ==
    ASSUME IInv, UNCHANGED regime, NEW r \in Requests, AddReplacement(r) PROVE IInv'
  <1>1. TypeOK /\ tx[r].phase # "idle"
    BY DEF IInv, AddReplacement, At
  <1>2. PICK new \in Keys :
          /\ new \notin Existing
          /\ keys' = [keys EXCEPT ![new] = [NoCredential EXCEPT
                        !.status = "draft", !.parent = tx[r].key]]
    BY DEF AddReplacement, IsFresh
  <1> DEFINE k == [NoCredential EXCEPT !.status = "draft", !.parent = tx[r].key]
  <1>3. k \in Key /\ k.status = "draft"
    BY <1>1, Types DEF NoCredential, Key
  <1>4. keys' = [keys EXCEPT ![new] = k]
    BY <1>2
  <1> HIDE DEF k
  <1>5. Finish(r, "ok") /\ UNCHANGED <<allowed, widget>>
    BY DEF AddReplacement
  <1>6. keys' \in [Keys -> Key] /\ ActiveWasActivated'
    BY <1>1, <1>3, <1>4 DEF IInv, TypeOK, ActiveWasActivated
  <1>7. \A d \in Existing : d \in Existing' /\ (keys[d].activated => keys'[d].activated)
    BY <1>1, <1>2, <1>4 DEF Existing, TypeOK
  <1>8. ExplicitOnce' /\ allowed' \in [Rows -> RowStates] /\ widget' \in Widget
        /\ widget'.key \in Existing'
    BY <1>1, <1>5, <1>7 DEF IInv, TypeOK, ExplicitOnce
  <1> QED BY <1>1, <1>5, <1>6, <1>7, <1>8, WriteKeysHolds

LEMMA CutOverHolds == ASSUME IInv, UNCHANGED regime, NEW r \in Requests, CutOver(r) PROVE IInv'
  <1> DEFINE c == tx[r].key
             a == tx[r].activated
  <1>1. TypeOK /\ tx[r].phase # "idle"
    BY DEF IInv, CutOver, At
  <1>2. c \in Existing /\ c \in Keys /\ keys[c] \in Key /\ a \in BOOLEAN
    BY <1>1, Types DEF IInv
  <1>3. PICK new \in Keys :
          /\ new \notin Existing
          /\ keys' = [keys EXCEPT ![c] = Revoked(@), ![new] = Replacement(c, a)]
          /\ allowed' = [w \in Rows |->
               IF w[1] # new THEN allowed[w]
               ELSE IF <<w[2], w[3]>> \in tx[r].rows THEN "active" ELSE "absent"]
          /\ widget' = [widget EXCEPT !.key = new]
    BY DEF CutOver, IsFresh
  <1> DEFINE k == Replacement(c, a)
             old == Revoked(keys[c])
  <1>4. /\ k \in Key /\ k.status \in {"active", "draft"}
        /\ k.status = "active" => k.activated
    <2>1. CASE a
      BY <1>1, <1>2, <2>1, Types DEF Replacement, Key
    <2>2. CASE ~a
      BY <1>1, <1>2, <2>2, Types DEF Replacement, Key
    <2> QED BY <2>1, <2>2
  <1>5. old \in Key /\ old.status = "revoked" /\ (keys[c].activated => old.activated)
    BY <1>2 DEF Revoked, Key
  <1>6. /\ keys' \in [Keys -> Key] /\ keys'[new] = k /\ keys'[c] = old
        /\ \A d \in Keys \ {new, c} : keys'[d] = keys[d]
    BY <1>1, <1>2, <1>3, <1>4, <1>5 DEF TypeOK
  <1> HIDE DEF k, old
  <1>7. ActiveWasActivated'
    BY <1>4, <1>5, <1>6 DEF IInv, ActiveWasActivated
  <1>8. \A d \in Existing : d \in Existing' /\ (keys[d].activated => keys'[d].activated)
    BY <1>3, <1>5, <1>6 DEF Existing
  <1>9. allowed' \in [Rows -> RowStates]
    BY <1>1, <1>3 DEF TypeOK, RowStates
  <1>10. widget' \in Widget /\ widget'.key \in Existing'
    BY <1>1, <1>3, <1>4, <1>6, Types DEF Widget, Existing
  <1>11. ASSUME NEW d \in Keys, NEW o \in Origins \ DefaultPort,
                NEW m \in Copies, NEW n \in Copies,
                allowed'[<<d, o, m>>] # "absent", allowed'[<<d, o, n>>] # "absent"
         PROVE  m = n
    <2>1. <<d, o, m>> \in Rows /\ <<d, o, n>> \in Rows
      BY DEF Rows
    <2>2. CASE d = new
      BY <1>3, <1>11, <2>1, <2>2 DEF IInv
    <2>3. CASE d # new
      BY <1>3, <1>11, <2>1, <2>3 DEF IInv, ExplicitOnce
    <2> QED BY <2>2, <2>3
  <1>12. ExplicitOnce'
    BY <1>11 DEF ExplicitOnce
  <1>13. Finish(r, "ok")
    BY DEF CutOver
  <1> QED BY <1>1, <1>6, <1>7, <1>8, <1>9, <1>10, <1>12, <1>13, WriteKeysHolds

-----------------------------------------------------------------------------
(* The theorems.                                                           *)

LEMMA ReadKeyHolds == ASSUME IInv, UNCHANGED regime, NEW r \in Requests, ReadKey(r) PROVE IInv'
  <1>1. TypeOK /\ tx[r].phase # "idle" /\ tx[r].op = "rotate"
    BY DEF IInv, ReadKey, At
  <1>2. CASE Refuse(r, "conflict") \/ Refuse(r, "invalid")
    BY <1>1, <1>2, RefuseHolds
  <1>3. CASE /\ tx' = [tx EXCEPT ![r] = [@ EXCEPT !.phase = "checked",
                                          !.activated = keys[tx[r].key].activated]]
             /\ UNCHANGED <<keys, allowed, widget>>
    <2> DEFINE t == [tx[r] EXCEPT !.phase = "checked",
                                  !.activated = keys[tx[r].key].activated]
    <2>1. keys[tx[r].key].activated \in BOOLEAN
      BY <1>1, Types DEF IInv
    <2>2. /\ t \in RequestState /\ t.phase = "checked" /\ t.key = tx[r].key
          /\ t.rows = tx[r].rows /\ t.op = "rotate"
      BY ZenonT(60), <1>1, <2>1, Types DEF RequestState, Phases
    <2>3. tx' = [tx EXCEPT ![r] = t]
      BY <1>3
    <2> HIDE DEF t
    <2>4. /\ widget' \in Widget /\ tx[r].key \in Existing
          /\ \A o \in Origins \ DefaultPort : \A m, n \in Copies :
               <<o, m>> \in t.rows /\ <<o, n>> \in t.rows => m = n
      BY <1>1, <1>3, <2>2, Types DEF IInv
    <2> QED BY <1>3, <2>2, <2>3, <2>4, QuietStep
  <1> QED BY <1>2, <1>3 DEF ReadKey

\* A step of a request preserves the invariant.
LEMMA StepHolds == ASSUME IInv, UNCHANGED regime, NEW r \in Requests, Step(r) PROVE IInv'
  <1>1. TypeOK /\ {"checked", "locked"} \subseteq Phases
    BY DEF IInv, Phases
  <1>2. CASE CountOrigins(r)
    BY <1>2, RefuseHolds, ReadRowsHolds DEF CountOrigins, At
  <1>3. CASE FindDuplicate(r)
    BY <1>1, <1>3, RefuseHolds, GotoHolds DEF FindDuplicate, At
  <1>4. CASE CheckFinal(r)
    BY <1>1, <1>4, RefuseHolds, GotoHolds DEF CheckFinal, At
  <1>5. CASE LockKey(r)
    BY <1>1, <1>5, GotoHolds DEF LockKey, At
  <1>6. CASE ReadOrigins(r)
    BY <1>6, ReadRowsHolds DEF ReadOrigins, At, CopiedRows
  <1>7. CASE ReadTransition(r)
    <2>1. tx[r].phase # "idle" /\ tx[r].key \in Keys
      BY <1>1, <1>7, Types DEF ReadTransition, At, IInv
    <2>2. CASE Refuse(r, "invalid")
      BY <2>1, <2>2, RefuseHolds
    <2>3. CASE Goto(r, "checked") /\ ValidTransition(keys[tx[r].key].status, Target(tx[r].op))
      <3>1. tx[r].op = "disable" => keys[tx[r].key].activated
        BY <2>1, <2>3 DEF IInv, ActiveWasActivated, ValidTransition, Target
      <3> QED BY <1>1, <2>1, <2>3, <3>1, GotoHolds
    <2> QED BY <1>7, <2>2, <2>3 DEF ReadTransition
  <1>8. CASE ReadRotateKey(r)
    BY <1>1, <1>8, RefuseHolds, GotoHolds DEF ReadRotateKey, At
  <1>9. CASE CheckPublish(r)
    BY <1>1, <1>9, RefuseHolds, GotoHolds DEF CheckPublish, At
  <1>10. CASE Publish(r)
    <2>1. widget' \in Widget /\ widget'.key = widget.key
      BY <1>1, <1>10, Types DEF Publish, Widget
    <2> QED BY <1>10, <2>1, FinishHolds DEF Publish, At
  <1>11. CASE Archive(r)
    <2>1. widget' \in Widget /\ widget'.key = widget.key
      BY <1>1, <1>11, Types DEF Archive, Widget
    <2> QED BY <1>11, <2>1, FinishHolds DEF Archive, At
  <1> QED BY <1>2, <1>3, <1>4, <1>5, <1>6, <1>7, <1>8, <1>9, <1>10, <1>11, ReadKeyHolds,
             InsertHolds, DeactivateHolds, TransitionHolds, AddReplacementHolds, CutOverHolds
          DEF Step

LEMMA StutterHolds == ASSUME IInv, UNCHANGED vars PROVE IInv'
  BY DEF IInv, vars, TypeOK, ActiveWasActivated, ExplicitOnce, Existing, At

\* The inductive invariant of the credential, origin and rotation operations.
THEOREM Invariance == Spec => []IInv
  <1>1. ASSUME IInv, [Next]_vars PROVE IInv'
    <2>1. CASE \E r \in Requests : (Load(r) \/ Step(r) \/ Crash(r)) /\ UNCHANGED regime
      <3>1. PICK r \in Requests : (Load(r) \/ Step(r) \/ Crash(r)) /\ UNCHANGED regime
        BY <2>1
      <3> QED BY <1>1, <3>1, LoadHolds, StepHolds, RefuseHolds DEF Crash
    <2>2. CASE Finished \/ UNCHANGED vars
      BY <1>1, <2>2, StutterHolds DEF Finished
    <2> QED BY <1>1, <2>1, <2>2 DEF Next
  <1> QED BY <1>1, InitHolds, PTL DEF Spec

\* Credentials, origins, the widget and what requests hold keep their types.
THEOREM TypeCorrect == Spec => []TypeOK
  BY Invariance, PTL DEF IInv

\* No key is active or disabled that was never activated, however activations,
\* revocations and rotations of it overlap.
THEOREM Activation == Spec => []ActiveWasActivated
  BY Invariance, PTL DEF IInv

\* No key carries an origin with an explicit port twice, whether the rows were
\* added by overlapping requests or copied by rotations.
THEOREM ExplicitOrigins == Spec => []ExplicitOnce
  BY Invariance, PTL DEF IInv

\* Under any overlap no unactivated key is live and no explicit origin is doubled.
THEOREM Overlap == Spec => []OverlapKeeps
  BY Invariance, PTL DEF IInv, OverlapKeeps

-----------------------------------------------------------------------------
(* One request at a time.  What the request under way has checked still    *)
(* holds when it writes, since nobody else writes.                         *)

SerialHolds(t) ==
    /\ t.op \in regime.operations
    /\ t.op \in WidgetOperations => t.key = widget.key
    /\ t.op = "add" /\ t.phase \in {"counted", "checked"} => ~AtCap(t.key)
    /\ t.op = "add" /\ t.phase = "checked" => t.origin \notin ActiveOrigins(t.key)
    /\ t.op = "remove" => t.live = Live(widget)
    /\ t.op = "remove" /\ t.phase = "checked" /\ t.live
         /\ <<t.origin, t.copy>> \in ActiveRows(t.key)
         => ~(Cardinality(ActiveRows(t.key)) <= 1)
    /\ t.op = "rotate" /\ t.phase # "loaded" =>
         t.expected = t.key /\ t.activated = keys[t.key].activated
    /\ t.op = "rotate" /\ t.phase = "copied" => t.rows = ActiveRows(t.key)
    /\ t.op = "publish" /\ t.phase = "checked" =>
         keys[t.key].activated /\ ActiveRows(t.key) # {}
    /\ t.op \in {"activate", "disable", "revoke"} /\ t.phase = "checked" =>
         ValidTransition(keys[t.key].status, Target(t.op))

\* The inductive invariant of requests that do not overlap.
SerialInv ==
    /\ OriginsInOrder
    /\ PublishedIsServable
    /\ \A q, r \in InFlight : q = r
    /\ \A r \in InFlight : SerialHolds(tx[r])

\* The active rows of a key are finitely many.
LEMMA RowsFinite ==
    ASSUME NEW c
    PROVE  IsFiniteSet(ActiveRows(c)) /\ Cardinality(ActiveRows(c)) \in Nat
  <1>1. IsFiniteSet(Copies)
    BY BoundsAssumption, FS_Interval DEF Copies
  <1>2. IsFiniteSet(Origins \X Copies)
    BY <1>1, FiniteAssumption, FS_Product
  <1>3. ActiveRows(c) \in SUBSET (Origins \X Copies)
    BY DEF ActiveRows
  <1>4. IsFiniteSet(ActiveRows(c))
    BY <1>2, <1>3, FS_Subset
  <1> QED BY <1>4, FS_CardinalityType

\* So are the copies of an origin.
LEMMA CopiesFinite ==
    ASSUME NEW S \in SUBSET Copies
    PROVE  IsFiniteSet(S) /\ Cardinality(S) \in Nat
  <1>1. IsFiniteSet(Copies)
    BY BoundsAssumption, FS_Interval DEF Copies
  <1>2. IsFiniteSet(S)
    BY <1>1, FS_Subset
  <1> QED BY <1>2, FS_CardinalityType

\* What the two properties say is about the key, the rows and the widget alone.
LEMMA SamePromises ==
    ASSUME OriginsInOrder, PublishedIsServable, UNCHANGED <<keys, allowed, widget>>
    PROVE  OriginsInOrder' /\ PublishedIsServable'
  BY DEF OriginsInOrder, PublishedIsServable, ActiveRows, Live

LEMMA SerialInit == Init => SerialInv
  <1> SUFFICES ASSUME Init PROVE SerialInv
    OBVIOUS
  <1>1. 1 \in Keys /\ 1 \in Copies
    BY BoundsAssumption DEF Keys, Copies
  <1>2. PICK s \in {"draft", "active"}, S \in SUBSET Origins, p \in BOOLEAN :
           /\ p => s = "active" /\ S # {}
           /\ Cardinality(S) <= MaxOrigins
           /\ keys = [c \in Keys |-> IF c = 1
                THEN [status |-> s, activated |-> s = "active",
                      parent |-> NoKey, cutover |-> FALSE]
                ELSE NoCredential]
           /\ allowed = [w \in Rows |-> IF w[1] = 1 /\ w[2] \in S /\ w[3] = 1
                                        THEN "active" ELSE "absent"]
           /\ widget = [key |-> 1, published |-> p, archived |-> FALSE]
    BY DEF Init
  <1>3. ActiveRows(1) = S \X {1}
    BY <1>1, <1>2 DEF ActiveRows, Rows
  <1>4. Cardinality(S \X {1}) = Cardinality(S)
    <2>1. IsFiniteSet(S) /\ IsFiniteSet({1}) /\ Cardinality({1}) = 1
      BY FiniteAssumption, FS_Subset, FS_Singleton
    <2>2. Cardinality(S) \in Nat
      BY <2>1, FS_CardinalityType
    <2> QED BY <2>1, <2>2, FS_Product
  <1>5. ASSUME NEW c \in Keys, NEW o \in Origins
        PROVE  Cardinality({n \in Copies : allowed[<<c, o, n>>] = "active"}) <= 1
    <2> DEFINE T == {n \in Copies : allowed[<<c, o, n>>] = "active"}
    <2>1. T \in SUBSET {1}
      BY <1>2, <1>5 DEF Rows
    <2>2. IsFiniteSet({1}) /\ Cardinality({1}) = 1
      BY FS_Singleton
    <2>3. Cardinality(T) <= Cardinality({1})
      BY <2>1, <2>2, FS_Subset
    <2> QED BY <2>2, <2>3
  <1>6. OriginsInOrder
    BY <1>2, <1>3, <1>4, <1>5 DEF OriginsInOrder
  <1>7. PublishedIsServable
    <2>1. keys[1] = [status |-> s, activated |-> s = "active",
                     parent |-> NoKey, cutover |-> FALSE]
      BY <1>1, <1>2
    <2>2. p => keys[1].activated
      <3>1. keys[1].activated = (s = "active")
        BY <2>1
      <3> QED BY <1>2, <3>1
    <2>3. ASSUME p PROVE ActiveRows(1) # {}
      <3>1. PICK o \in S : TRUE
        BY <1>2, <2>3
      <3>2. <<o, 1>> \in S \X {1}
        BY <3>1
      <3> QED BY <1>3, <3>2
    <2>4. Live(widget) => p
      BY <1>2 DEF Live
    <2> QED BY <1>2, <2>2, <2>3, <2>4 DEF PublishedIsServable
  <1>8. InFlight = {}
    BY DEF Init, InFlight
  <1> QED BY <1>6, <1>7, <1>8 DEF SerialInv

\* A request that ends leaves none under way.
LEMMA SerialFinish ==
    ASSUME TypeOK, SerialInv, NEW r \in InFlight, NEW a, Finish(r, a),
           OriginsInOrder', PublishedIsServable'
    PROVE  SerialInv'
  <1>1. InFlight' = {}
    BY DEF SerialInv, InFlight, Finish, TypeOK
  <1> QED BY <1>1 DEF SerialInv

\* A request that moves on alone, and leaves the tables as they are.
LEMMA SerialMove ==
    ASSUME TypeOK, SerialInv, NEW r \in InFlight, NEW t,
           tx' = [tx EXCEPT ![r] = t], UNCHANGED <<keys, allowed, widget, regime>>,
           SerialHolds(t)
    PROVE  SerialInv'
  <1>1. OriginsInOrder' /\ PublishedIsServable'
    BY SamePromises DEF SerialInv
  <1>2. InFlight' \subseteq {r} /\ tx'[r] = t
    BY DEF SerialInv, InFlight, TypeOK
  <1>3. SerialHolds(t)'
    BY ZenonT(60) DEF SerialHolds, AtCap, ActiveOrigins, ActiveRows, Live
  <1> QED BY <1>1, <1>2, <1>3 DEF SerialInv, SerialHolds

\* A refusal writes nothing.
LEMMA SerialRefuse ==
    ASSUME TypeOK, SerialInv, NEW r \in InFlight, NEW a, Refuse(r, a)
    PROVE  SerialInv'
  BY SamePromises, SerialFinish DEF Refuse, SerialInv

\* A request is loaded while no other is under way, with what the widget is.
LEMMA SerialLoad ==
    ASSUME IInv, SerialInv, Serial, UNCHANGED regime, NEW r \in Requests, Load(r)
    PROVE  SerialInv'
  <1>1. InFlight = {}
    <2>1. InFlight \in SUBSET Requests
      BY DEF InFlight
    <2>2. IsFiniteSet(InFlight)
      BY <2>1, FiniteAssumption, FS_Subset
    <2>3. Cardinality(InFlight) \in Nat /\ Cardinality(InFlight) < 1
      BY <2>2, FS_CardinalityType DEF Load, Serial
    <2> QED BY <2>2, <2>3, FS_EmptySet
  <1>2. PICK op, c, e, o, n :
          /\ op \in Operations /\ Ask(r, op, c, e, o, n)
          /\ op \in WidgetOperations => c = widget.key
    BY DEF Load, Operations, WidgetOperations, KeyOperations
  <1>0. PICK t : t = [tx[r] EXCEPT !.phase = "loaded", !.op = op, !.key = c,
                        !.expected = e, !.live = Live(widget), !.origin = o, !.copy = n]
    OBVIOUS
  <1>3. tx' = [tx EXCEPT ![r] = t] /\ op \in regime.operations
    BY <1>0, <1>2 DEF Ask
  <1>4. /\ t.phase = "loaded" /\ t.op = op /\ t.key = c /\ t.live = Live(widget)
    BY <1>0 DEF IInv, TypeOK, RequestState
  <1>5. UNCHANGED <<keys, allowed, widget>>
    BY DEF Load
  <1>6. InFlight' \subseteq {r} /\ tx'[r] = t
    BY <1>1, <1>3 DEF InFlight, IInv, TypeOK
  <1>7. SerialHolds(t)'
    BY <1>2, <1>3, <1>4, <1>5 DEF SerialHolds, Live
  <1>8. OriginsInOrder' /\ PublishedIsServable'
    BY <1>5, SamePromises DEF SerialInv
  <1> QED BY <1>6, <1>7, <1>8 DEF SerialInv, SerialHolds

\* Whoever is under way works on an existing key, the widget's on one of its routes.
LEMMA SerialKey ==
    ASSUME IInv, NEW r \in InFlight
    PROVE  /\ r \in Requests /\ tx[r] \in RequestState
           /\ tx[r].key \in Existing /\ tx[r].key \in Keys
           /\ tx[r].origin \in Origins \union {NoOrigin} /\ tx[r].copy \in Copies
           /\ tx[r].activated \in BOOLEAN
  BY Types DEF IInv, InFlight, RequestState

\* add_widget_origin: below the cap, and no active row of the origin.
LEMMA SerialCount ==
    ASSUME IInv, SerialInv, NEW r \in InFlight, CountOrigins(r), UNCHANGED regime
    PROVE  SerialInv'
  <1>1. TypeOK
    BY DEF IInv
  <1>2. CASE Refuse(r, "invalid")
    BY <1>1, <1>2, SerialRefuse
  <1>3. CASE /\ ~AtCap(tx[r].key)
             /\ tx' = [tx EXCEPT ![r] = [@ EXCEPT !.phase = "counted",
                                           !.rows = ActiveRows(tx[r].key)]]
             /\ UNCHANGED <<keys, allowed, widget>>
    <2>1. PICK t : t = [tx[r] EXCEPT !.phase = "counted", !.rows = ActiveRows(tx[r].key)]
      OBVIOUS
    <2>2. t.phase = "counted" /\ t.op = "add" /\ t.key = tx[r].key /\ tx[r].op = "add"
      BY <2>1, SerialKey DEF RequestState, CountOrigins, At
    <2>3. t.op \in regime.operations /\ t.key = widget.key
      BY <2>2 DEF SerialInv, SerialHolds, WidgetOperations
    <2>4. SerialHolds(t)
      BY <1>3, <2>2, <2>3 DEF SerialHolds
    <2> QED BY <1>1, <1>3, <2>1, <2>4, SerialMove
  <1> QED BY <1>2, <1>3 DEF CountOrigins

LEMMA SerialGoto ==
    ASSUME IInv, SerialInv, NEW r \in InFlight, NEW p, Goto(r, p), UNCHANGED regime,
           \A t : t.op = tx[r].op /\ t.key = tx[r].key /\ t.live = tx[r].live
             /\ t.origin = tx[r].origin /\ t.copy = tx[r].copy /\ t.rows = tx[r].rows
             /\ t.expected = tx[r].expected /\ t.activated = tx[r].activated
             /\ t.phase = p => SerialHolds(t)
    PROVE  SerialInv'
  <1>1. PICK t : t = [tx[r] EXCEPT !.phase = p]
    OBVIOUS
  <1>2. /\ t.op = tx[r].op /\ t.key = tx[r].key /\ t.live = tx[r].live
        /\ t.origin = tx[r].origin /\ t.copy = tx[r].copy /\ t.rows = tx[r].rows
        /\ t.expected = tx[r].expected /\ t.activated = tx[r].activated
        /\ t.phase = p
    BY <1>1, SerialKey DEF RequestState
  <1>3. TypeOK /\ tx' = [tx EXCEPT ![r] = t]
    BY <1>1 DEF IInv, Goto
  <1> QED BY <1>2, <1>3, SerialMove DEF Goto

\* The steps that read: what they find holds until the request writes.
LEMMA SerialReads ==
    ASSUME IInv, SerialInv, NEW r \in InFlight, UNCHANGED regime,
           \/ FindDuplicate(r) \/ CheckFinal(r) \/ ReadKey(r) \/ LockKey(r)
           \/ ReadOrigins(r) \/ ReadTransition(r) \/ ReadRotateKey(r) \/ CheckPublish(r)
    PROVE  SerialInv'
  <1>1. TypeOK /\ SerialHolds(tx[r]) /\ r \in Requests
    BY DEF IInv, SerialInv, InFlight
  <1>2. CASE FindDuplicate(r)
    <2>1. CASE ~IsDuplicate(r)
      <3>1. tx[r].op \in {"add", "add_to_key"} /\ Goto(r, "checked")
        BY <1>2, <2>1 DEF FindDuplicate, At
      <3>2. tx[r].origin \notin ActiveOrigins(tx[r].key)
        BY <2>1 DEF IsDuplicate, SeenActive, ActiveOrigins
      <3>3. tx[r].op = "add" => tx[r].phase = "counted"
        BY <1>2 DEF FindDuplicate, At
      <3>4. \A t : /\ t.op = tx[r].op /\ t.key = tx[r].key /\ t.origin = tx[r].origin
                    /\ t.phase = "checked" => SerialHolds(t)
        BY <1>1, <3>1, <3>2, <3>3 DEF SerialHolds, WidgetOperations
      <3> QED BY <3>1, <3>4, SerialGoto
    <2> QED BY <1>1, <1>2, <2>1, SerialRefuse DEF FindDuplicate
  <1>3. CASE CheckFinal(r)
    <2>1. CASE ~IsFinalOrigin(r)
      <3>1. tx[r].op = "remove" /\ Goto(r, "checked")
        BY <1>3, <2>1 DEF CheckFinal, At
      <3>2. \A t : /\ t.op = tx[r].op /\ t.key = tx[r].key /\ t.live = tx[r].live
                    /\ t.origin = tx[r].origin /\ t.copy = tx[r].copy
                    /\ t.phase = "checked" => SerialHolds(t)
        BY <1>1, <2>1, <3>1 DEF SerialHolds, WidgetOperations, IsFinalOrigin
      <3> QED BY <3>1, <3>2, SerialGoto
    <2> QED BY <1>1, <1>3, <2>1, SerialRefuse DEF CheckFinal
  <1>4. CASE ReadKey(r)
    <2>1. CASE /\ ExpectedMatches(r)
               /\ tx' = [tx EXCEPT ![r] = [@ EXCEPT !.phase = "checked",
                                             !.activated = keys[tx[r].key].activated]]
               /\ UNCHANGED <<keys, allowed, widget>>
      <3>1. PICK t : t = [tx[r] EXCEPT !.phase = "checked",
                                       !.activated = keys[tx[r].key].activated]
        OBVIOUS
      <3>2. /\ t.phase = "checked" /\ t.op = "rotate" /\ t.key = tx[r].key
            /\ t.expected = t.key /\ t.activated = keys[t.key].activated
        BY <1>4, <2>1, <3>1, SerialKey DEF RequestState, ReadKey, At, ExpectedMatches
      <3>3. t.op \in regime.operations /\ t.key = widget.key
        BY <1>1, <1>4, <3>2 DEF SerialHolds, WidgetOperations, ReadKey, At
      <3>4. SerialHolds(t)
        BY <3>2, <3>3 DEF SerialHolds
      <3> QED BY <1>1, <2>1, <3>1, <3>4, SerialMove
    <2> QED BY <1>1, <1>4, <2>1, SerialRefuse DEF ReadKey
  <1>5. CASE LockKey(r)
    <2>1. tx[r].op = "rotate" /\ tx[r].phase = "checked" /\ Goto(r, "locked")
      BY <1>5 DEF LockKey, At
    <2>2. \A t : /\ t.op = tx[r].op /\ t.key = tx[r].key /\ t.expected = tx[r].expected
                  /\ t.activated = tx[r].activated /\ t.phase = "locked" => SerialHolds(t)
      BY <1>1, <2>1 DEF SerialHolds, WidgetOperations
    <2> QED BY <2>1, <2>2, SerialGoto
  <1>6. CASE ReadOrigins(r)
    <2>1. PICK t : t = [tx[r] EXCEPT !.phase = "copied", !.rows = ActiveRows(tx[r].key)]
      OBVIOUS
    <2>2. /\ t.phase = "copied" /\ t.op = "rotate" /\ t.key = tx[r].key
          /\ t.rows = ActiveRows(t.key) /\ t.expected = tx[r].expected
          /\ t.activated = tx[r].activated /\ tx[r].op = "rotate" /\ tx[r].phase = "locked"
      BY <1>6, <2>1, SerialKey DEF RequestState, ReadOrigins, At
    <2>3. SerialHolds(t)
      BY <1>1, <2>2 DEF SerialHolds, WidgetOperations
    <2> QED BY <1>1, <1>6, <2>1, <2>3, SerialMove DEF ReadOrigins, CopiedRows
  <1>7. CASE ReadTransition(r)
    <2>1. CASE ValidTransition(keys[tx[r].key].status, Target(tx[r].op)) /\ Goto(r, "checked")
      <3>1. tx[r].op \in {"activate", "disable", "revoke"}
        BY <1>7 DEF ReadTransition, At
      <3>2. \A t : t.op = tx[r].op /\ t.key = tx[r].key /\ t.phase = "checked" => SerialHolds(t)
        BY <1>1, <2>1, <3>1 DEF SerialHolds, WidgetOperations
      <3> QED BY <2>1, <3>2, SerialGoto
    <2> QED BY <1>1, <1>7, <2>1, SerialRefuse DEF ReadTransition
  <1>8. CASE ReadRotateKey(r)
    <2>1. CASE Goto(r, "checked")
      <3>1. tx[r].op = "rotate_key"
        BY <1>8 DEF ReadRotateKey, At
      <3>2. \A t : t.op = tx[r].op /\ t.key = tx[r].key /\ t.phase = "checked" => SerialHolds(t)
        BY <1>1, <3>1 DEF SerialHolds, WidgetOperations
      <3> QED BY <2>1, <3>2, SerialGoto
    <2> QED BY <1>1, <1>8, <2>1, SerialRefuse DEF ReadRotateKey
  <1>9. CASE CheckPublish(r)
    <2>1. CASE Publishable(r) /\ Goto(r, "checked")
      <3>1. tx[r].op = "publish"
        BY <1>9 DEF CheckPublish, At
      <3>2. keys[tx[r].key].activated /\ ActiveRows(tx[r].key) # {}
        BY <2>1, SerialKey DEF Publishable, IInv, ActiveWasActivated
      <3>3. \A t : t.op = tx[r].op /\ t.key = tx[r].key /\ t.phase = "checked" => SerialHolds(t)
        BY <1>1, <3>1, <3>2 DEF SerialHolds, WidgetOperations
      <3> QED BY <2>1, <3>3, SerialGoto
    <2> QED BY <1>1, <1>9, <2>1, SerialRefuse DEF CheckPublish
  <1> QED BY <1>2, <1>3, <1>4, <1>5, <1>6, <1>7, <1>8, <1>9

\* add_origin: a row more on the widget's key, below the cap.
LEMMA SerialInsert ==
    ASSUME IInv, SerialInv, Serial, NEW r \in InFlight, InsertOrigin(r), UNCHANGED regime
    PROVE  SerialInv'
  <1>k. PICK c \in Keys : c = tx[r].key
    BY SerialKey
  <1>0. PICK o : c = tx[r].key /\ o = tx[r].origin
    BY <1>k
  <1>1. TypeOK /\ SerialHolds(tx[r])
    BY DEF IInv, SerialInv
  <1>2. CASE Refuse(r, "error")
    BY <1>1, <1>2, SerialRefuse
  <1>3. CASE /\ \E n \in Copies : /\ allowed[<<c, o, n>>] = "absent"
                                 /\ allowed' = [allowed EXCEPT ![<<c, o, n>>] = "active"]
             /\ Finish(r, "ok")
             /\ UNCHANGED <<keys, widget>>
    <2>1. PICK n \in Copies : /\ allowed[<<c, o, n>>] = "absent"
                              /\ allowed' = [allowed EXCEPT ![<<c, o, n>>] = "active"]
      BY <1>3
    <2>2. tx[r].op = "add" /\ tx[r].phase = "checked" /\ c = widget.key
      BY <1>0, <1>1 DEF InsertOrigin, At, SerialHolds, Serial, WidgetOperations
    <2>3. ~AtCap(c) /\ o \notin ActiveOrigins(c)
      BY <1>0, <1>1, <2>2 DEF SerialHolds
    <2>4. CASE o \in Origins
      <3>1. <<c, o, n>> \in Rows
        BY <1>1, <2>4 DEF Rows
      <3>2. ActiveRows(c)' = ActiveRows(c) \union {<<o, n>>} /\ <<o, n>> \notin ActiveRows(c)
        BY SMTT(30), <1>1, <2>1, <2>4, <3>1 DEF TypeOK, ActiveRows, Rows
      <3>3. Cardinality(ActiveRows(c)') <= MaxOrigins
        <4> DEFINE S == ActiveRows(c)
        <4>1. IsFiniteSet(S) /\ Cardinality(S) \in Nat /\ Cardinality(S) < MaxOrigins
          BY <2>3, RowsFinite, BoundsAssumption DEF AtCap
        <4>2. <<o, n>> \notin S /\ ActiveRows(c)' = S \union {<<o, n>>}
          BY <3>2
        <4> HIDE DEF S
        <4>3. Cardinality(S \union {<<o, n>>}) = Cardinality(S) + 1
          BY <4>1, <4>2, FS_AddElement
        <4> QED BY <4>1, <4>2, <4>3, BoundsAssumption
      <3>4. ASSUME NEW d \in Keys, NEW p \in Origins
            PROVE  Cardinality({m \in Copies : allowed'[<<d, p, m>>] = "active"}) <= 1
        <4>1. CASE d = c /\ p = o
          <5>1. \A m \in Copies : allowed[<<c, o, m>>] # "active"
            <6> SUFFICES ASSUME NEW m \in Copies, allowed[<<c, o, m>>] = "active" PROVE FALSE
              OBVIOUS
            <6>1. <<o, m>> \in ActiveRows(c)
              BY <2>4 DEF ActiveRows
            <6>2. <<o, m>>[1] \in ActiveOrigins(c)
              BY <6>1 DEF ActiveOrigins
            <6> QED BY <2>3, <6>2
          <5>2. {m \in Copies : allowed'[<<d, p, m>>] = "active"} = {n}
            BY <1>1, <2>1, <2>4, <3>1, <4>1, <5>1 DEF TypeOK, Rows
          <5>3. \A S : S = {n} => Cardinality(S) <= 1
            BY FS_Singleton
          <5> QED BY <5>2, <5>3
        <4>2. CASE ~(d = c /\ p = o)
          <5>1. \A m \in Copies : allowed'[<<d, p, m>>] = allowed[<<d, p, m>>]
            BY <1>1, <2>1, <3>1, <4>2 DEF TypeOK, Rows
          <5>2. {m \in Copies : allowed'[<<d, p, m>>] = "active"}
                  = {m \in Copies : allowed[<<d, p, m>>] = "active"}
            BY <5>1
          <5> QED BY <5>2 DEF SerialInv, OriginsInOrder
        <4> QED BY <4>1, <4>2
      <3>5. OriginsInOrder'
        BY <1>3, <2>2, <3>3, <3>4 DEF OriginsInOrder
      <3>6. PublishedIsServable'
        BY <1>3, <2>2, <3>2 DEF SerialInv, PublishedIsServable, Live
      <3> QED BY <1>1, <1>3, <3>5, <3>6, SerialFinish
    <2>5. CASE o \notin Origins
      <3>1. <<c, o, n>> \notin Rows
        BY <2>5 DEF Rows
      <3>2. allowed' = allowed
        BY <1>1, <2>1, <3>1 DEF TypeOK
      <3>3. UNCHANGED <<keys, allowed, widget>>
        BY <1>3, <3>2
      <3>4. OriginsInOrder' /\ PublishedIsServable'
        BY <3>3, SamePromises DEF SerialInv
      <3> QED BY <1>1, <1>3, <3>4, SerialFinish
    <2> QED BY <2>4, <2>5
  <1> QED BY <1>0, <1>2, <1>3 DEF InsertOrigin

\* deactivate_origin: a row less, of several when the widget is live.
LEMMA SerialDeactivate ==
    ASSUME IInv, SerialInv, Serial, NEW r \in InFlight, DeactivateOrigin(r), UNCHANGED regime
    PROVE  SerialInv'
  <1>k. PICK c \in Keys : c = tx[r].key
    BY SerialKey
  <1>0. PICK pair, row :
          /\ c = tx[r].key /\ pair = <<tx[r].origin, tx[r].copy>>
          /\ row = <<tx[r].key, tx[r].origin, tx[r].copy>>
    BY <1>k
  <1>1. TypeOK /\ SerialHolds(tx[r])
    BY DEF IInv, SerialInv
  <1>2. CASE Refuse(r, "not_found")
    BY <1>1, <1>2, SerialRefuse
  <1>3. CASE /\ allowed' = [allowed EXCEPT ![row] = "removed"]
             /\ Finish(r, "ok")
             /\ UNCHANGED <<keys, widget>>
    <2>1. tx[r].op = "remove" /\ tx[r].phase = "checked" /\ c = widget.key
      BY <1>0, <1>1 DEF DeactivateOrigin, At, SerialHolds, Serial, WidgetOperations
    <2>2. ActiveRows(c)' = ActiveRows(c) \ {pair}
      BY <1>0, <1>1, <1>3 DEF TypeOK, ActiveRows, Rows
    <2>3. ASSUME NEW d \in Keys, NEW p \in Origins
          PROVE  Cardinality({m \in Copies : allowed'[<<d, p, m>>] = "active"}) <= 1
      <3> DEFINE S == {m \in Copies : allowed[<<d, p, m>>] = "active"}
                 T == {m \in Copies : allowed'[<<d, p, m>>] = "active"}
      <3>1. T \in SUBSET S
        BY <1>0, <1>1, <1>3 DEF TypeOK, Rows
      <3>2. IsFiniteSet(S) /\ Cardinality(S) \in Nat /\ Cardinality(T) \in Nat
        BY CopiesFinite
      <3>3. Cardinality(T) <= Cardinality(S) /\ Cardinality(S) <= 1
        BY <3>1, <3>2, FS_Subset DEF SerialInv, OriginsInOrder
      <3> QED BY <3>2, <3>3
    <2>4. Cardinality(ActiveRows(c)') <= MaxOrigins
      <3>1. Cardinality(ActiveRows(c)) <= MaxOrigins
        BY <2>1 DEF SerialInv, OriginsInOrder
      <3>2. Cardinality(ActiveRows(c) \ {pair}) <= Cardinality(ActiveRows(c))
        <4> DEFINE S == ActiveRows(c)
        <4>1. IsFiniteSet(S) /\ Cardinality(S) \in Nat
          BY RowsFinite
        <4> HIDE DEF S
        <4>2. Cardinality(S \ {pair}) \in {Cardinality(S), Cardinality(S) - 1}
          BY <4>1, FS_RemoveElement
        <4>3. Cardinality(S \ {pair}) <= Cardinality(S)
          BY <4>1, <4>2
        <4> QED BY <4>3 DEF S
      <3>3. Cardinality(ActiveRows(c) \ {pair}) \in Nat
        BY RowsFinite, FS_RemoveElement, FS_CardinalityType
      <3> QED BY <2>2, <3>1, <3>2, <3>3, RowsFinite, BoundsAssumption
    <2>5. OriginsInOrder'
      BY <1>3, <2>1, <2>3, <2>4 DEF OriginsInOrder
    <2>6. ASSUME Live(widget) PROVE ActiveRows(c)' # {}
      <3>1. CASE pair \notin ActiveRows(c)
        BY <2>1, <2>2, <2>6, <3>1 DEF SerialInv, PublishedIsServable
      <3>2. CASE pair \in ActiveRows(c)
        <4>1. tx[r].live
          BY <1>0, <1>1, <2>1, <2>6 DEF SerialHolds
        <4>2. ~(Cardinality(ActiveRows(c)) <= 1)
          BY <1>0, <1>1, <2>1, <3>2, <4>1 DEF SerialHolds
        <4>3. Cardinality(ActiveRows(c) \ {pair}) = Cardinality(ActiveRows(c)) - 1
          BY <3>2, RowsFinite, FS_RemoveElement
        <4>4. Cardinality(ActiveRows(c) \ {pair}) # 0
          BY <4>2, <4>3, RowsFinite
        <4> QED BY <2>2, <4>4, FS_EmptySet
      <3> QED BY <3>1, <3>2
    <2>7. PublishedIsServable'
      BY <1>3, <2>1, <2>6 DEF SerialInv, PublishedIsServable, Live
    <2> QED BY <1>1, <1>3, <2>5, <2>7, SerialFinish
  <1> QED BY <1>0, <1>2, <1>3 DEF DeactivateOrigin

\* rotate_widget_public_key: the new key carries the active rows of the old one,
\* is activated if that was, and revokes nothing else.
LEMMA SerialCutOver ==
    ASSUME IInv, SerialInv, Serial, NEW r \in InFlight, CutOver(r), UNCHANGED regime
    PROVE  /\ SerialInv'
           /\ RevokedStay /\ Rotated
  <1>k. PICK c \in Keys : c = tx[r].key
    BY SerialKey
  <1>0. PICK old, k :
          /\ c = tx[r].key /\ old = Revoked(keys[c])
          /\ k = Replacement(tx[r].key, tx[r].activated)
    BY <1>k
  <1>1. TypeOK /\ SerialHolds(tx[r]) /\ r \in Requests
    BY DEF IInv, SerialInv, InFlight
  <1>2. /\ tx[r].op = "rotate" /\ tx[r].phase = "copied"
        /\ c = widget.key /\ tx[r].expected = widget.key
        /\ tx[r].activated = keys[c].activated /\ tx[r].rows = ActiveRows(c)
    BY <1>0, <1>1 DEF CutOver, At, SerialHolds, WidgetOperations
  <1>3. PICK new \in Keys :
          /\ IsFresh(new)
          /\ keys' = [keys EXCEPT ![c] = old, ![new] = k]
          /\ allowed' = [w \in Rows |->
               IF w[1] # new THEN allowed[w]
               ELSE IF <<w[2], w[3]>> \in ActiveRows(c) THEN "active" ELSE "absent"]
          /\ widget' = [widget EXCEPT !.key = new]
    <2>1. PICK new \in Keys :
            /\ IsFresh(new)
            /\ keys' = [keys EXCEPT ![tx[r].key] = Revoked(keys[tx[r].key]),
                                    ![new] = Replacement(tx[r].key, tx[r].activated)]
            /\ allowed' = [w \in Rows |->
                 IF w[1] # new THEN allowed[w]
                 ELSE IF <<w[2], w[3]>> \in tx[r].rows THEN "active" ELSE "absent"]
            /\ widget' = [widget EXCEPT !.key = new]
      BY DEF CutOver
    <2>2. keys' = [keys EXCEPT ![c] = old, ![new] = k]
      BY <1>0, <2>1
    <2>3. allowed' = [w \in Rows |->
                 IF w[1] # new THEN allowed[w]
                 ELSE IF <<w[2], w[3]>> \in ActiveRows(c) THEN "active" ELSE "absent"]
      BY <1>2, <2>1
    <2> QED BY <2>1, <2>2, <2>3
  <1>4. keys[new].status = "absent" /\ new # c
    BY <1>0, <1>3, SerialKey DEF IsFresh, Existing
  <1>5. /\ keys'[c] = old /\ keys'[new] = k
        /\ \A d \in Keys \ {c, new} : keys'[d] = keys[d]
    BY <1>1, <1>3, <1>4 DEF TypeOK
  <1>6. old.status = "revoked" /\ k.activated = keys[c].activated
    <2>1. keys[c] \in Key
      BY <1>1 DEF TypeOK
    <2> QED BY <1>0, <1>2, <2>1 DEF Revoked, Replacement, Key
  <1>7. ActiveRows(new)' = ActiveRows(c)
    BY <1>3 DEF ActiveRows, Rows
  <1>8. widget'.key = new /\ Live(widget)' = Live(widget)
    BY <1>1, <1>3 DEF TypeOK, Widget, Live
  <1>9. ASSUME NEW d \in Keys, NEW p \in Origins
        PROVE  Cardinality({m \in Copies : allowed'[<<d, p, m>>] = "active"}) <= 1
    <2>1. PICK e \in Keys : e = IF d = new THEN c ELSE d
      OBVIOUS
    <2>2. \A m \in Copies : allowed'[<<d, p, m>>] = "active" <=> allowed[<<e, p, m>>] = "active"
      BY <1>3, <2>1 DEF Rows, ActiveRows
    <2>3. {m \in Copies : allowed'[<<d, p, m>>] = "active"}
            = {m \in Copies : allowed[<<e, p, m>>] = "active"}
      BY <2>2
    <2> QED BY <2>3 DEF SerialInv, OriginsInOrder
  <1>10. OriginsInOrder'
    BY <1>2, <1>7, <1>8, <1>9 DEF SerialInv, OriginsInOrder
  <1>11. PublishedIsServable'
    BY <1>2, <1>5, <1>6, <1>7, <1>8 DEF SerialInv, PublishedIsServable
  <1>12. SerialInv'
    BY <1>1, <1>10, <1>11, SerialFinish DEF CutOver
  <1>13. RevokedStay
    BY <1>4, <1>5, <1>6 DEF RevokedStay
  <1>14. Rotated
    <2>1. KeyOrigins' = KeyOrigins
      BY <1>2, <1>7, <1>8 DEF KeyOrigins, ActiveOrigins
    <2>2. tx'[r].phase = "done"
      BY <1>1, SerialKey DEF CutOver, Finish, TypeOK, RequestState
    <2> QED BY <1>1, <1>2, <2>1, <2>2 DEF Rotated
  <1> QED BY <1>12, <1>13, <1>14

\* transition_credential: one of VALID_TRANSITIONS, which keeps an activation and
\* leads nowhere from a revoked key.
LEMMA SerialTransition ==
    ASSUME IInv, SerialInv, NEW r \in InFlight, WriteTransition(r), UNCHANGED regime
    PROVE  SerialInv' /\ RevokedStay
  <1>k. PICK c \in Keys : c = tx[r].key
    BY SerialKey
  <1>0. PICK k : c = tx[r].key /\ k = SetStatus(keys[c], Target(tx[r].op))
    BY <1>k
  <1>1. TypeOK /\ SerialHolds(tx[r])
    BY DEF IInv, SerialInv
  <1>2. ValidTransition(keys[c].status, Target(tx[r].op))
    BY <1>0, <1>1 DEF WriteTransition, At, SerialHolds
  <1>3. keys' = [keys EXCEPT ![c] = k] /\ UNCHANGED <<allowed, widget>>
    BY <1>0 DEF WriteTransition
  <1>4. k.activated = (keys[c].activated \/ Target(tx[r].op) = "active")
    BY <1>0, <1>1 DEF TypeOK, Key, SetStatus
  <1>5. \A d \in Keys : keys[d].activated => keys'[d].activated
    BY <1>1, <1>3, <1>4 DEF TypeOK
  <1>6. OriginsInOrder'
    BY <1>3 DEF SerialInv, OriginsInOrder, ActiveRows
  <1>7. PublishedIsServable'
    BY <1>1, <1>3, <1>5 DEF SerialInv, PublishedIsServable, ActiveRows, Live, TypeOK, Widget
  <1>8. SerialInv'
    BY <1>1, <1>6, <1>7, SerialFinish DEF WriteTransition
  <1>9. RevokedStay
    BY <1>1, <1>2, <1>3 DEF RevokedStay, ValidTransition, TypeOK
  <1> QED BY <1>8, <1>9

\* A publication finds the widget servable, an archived one need not be.
LEMMA SerialWidget ==
    ASSUME IInv, SerialInv, NEW r \in InFlight, Publish(r) \/ Archive(r), UNCHANGED regime
    PROVE  SerialInv'
  <1>1. TypeOK /\ SerialHolds(tx[r]) /\ UNCHANGED <<keys, allowed>>
    BY DEF IInv, SerialInv, Publish, Archive
  <1>2. widget'.key = widget.key
    BY <1>1 DEF Publish, Archive, TypeOK, Widget
  <1>3. OriginsInOrder'
    BY <1>1, <1>2 DEF SerialInv, OriginsInOrder, ActiveRows
  <1>4. CASE Publish(r)
    <2>1. keys[widget.key].activated /\ ActiveRows(widget.key) # {}
      BY <1>1, <1>4 DEF SerialHolds, Publish, At, WidgetOperations
    <2>2. PublishedIsServable'
      BY <1>1, <1>2, <2>1 DEF PublishedIsServable, ActiveRows
    <2> QED BY <1>1, <1>3, <1>4, <2>2, SerialFinish DEF Publish
  <1>5. CASE Archive(r)
    <2>1. ~Live(widget)'
      BY <1>1, <1>5 DEF Archive, Live, TypeOK, Widget
    <2>2. PublishedIsServable'
      BY <2>1 DEF PublishedIsServable
    <2> QED BY <1>1, <1>3, <1>5, <2>2, SerialFinish DEF Archive
  <1> QED BY <1>4, <1>5

\* A step of requests served one by one.
LEMMA SerialStep ==
    ASSUME IInv, SerialInv, Serial, [Next]_vars
    PROVE  /\ SerialInv'
           /\ RevokedStay
           /\ widget'.key # widget.key => Rotated
  <1>1. CASE UNCHANGED vars \/ Finished
    <2>1. UNCHANGED vars
      BY <1>1 DEF Finished
    <2>2. OriginsInOrder' /\ PublishedIsServable'
      BY <2>1, SamePromises DEF SerialInv, vars
    <2>3. ASSUME NEW r \in InFlight PROVE SerialHolds(tx[r])'
      <3>1. PICK t : t = tx[r] /\ t = tx'[r] /\ SerialHolds(t)
        BY <2>1 DEF SerialInv, vars
      <3>2. SerialHolds(t)'
        BY ZenonT(60), <2>1, <3>1 DEF vars, SerialHolds, AtCap, ActiveOrigins, ActiveRows, Live
      <3> QED BY <3>1, <3>2 DEF SerialHolds
    <2>4. InFlight' = InFlight
      BY <2>1 DEF InFlight, vars
    <2>5. SerialInv'
      BY <2>2, <2>3, <2>4 DEF SerialInv
    <2> QED BY <2>1, <2>5 DEF vars, RevokedStay
  <1>2. ASSUME NEW r \in Requests, Load(r), UNCHANGED regime
        PROVE  SerialInv' /\ UNCHANGED <<keys, widget>>
    BY <1>2, SerialLoad DEF Load
  <1>3. ASSUME NEW r \in Requests, Crash(r)
        PROVE  SerialInv' /\ UNCHANGED <<keys, widget>>
    <2>1. r \in InFlight /\ TypeOK
      BY <1>3 DEF Crash, InFlight, IInv
    <2> QED BY <1>3, <2>1, SerialRefuse DEF Crash, Refuse
  <1>4. ASSUME NEW r \in Requests, Step(r), UNCHANGED regime
        PROVE  SerialInv' /\ RevokedStay /\ (widget'.key # widget.key => Rotated)
    <2>1. r \in InFlight
      BY <1>4 DEF Step, InFlight, At, CountOrigins, FindDuplicate, InsertOrigin, CheckFinal,
         DeactivateOrigin, ReadKey, LockKey, ReadOrigins, CutOver, ReadTransition,
         WriteTransition, ReadRotateKey, AddReplacement, CheckPublish, Publish, Archive
    <2>2. ~AddReplacement(r)
      BY <2>1 DEF AddReplacement, At, SerialInv, SerialHolds, Serial, WidgetOperations
    <2>3. CASE \/ CountOrigins(r) \/ FindDuplicate(r) \/ CheckFinal(r) \/ ReadKey(r) \/ LockKey(r)
               \/ ReadOrigins(r) \/ ReadTransition(r) \/ ReadRotateKey(r) \/ CheckPublish(r)
      <3>1. SerialInv'
        BY <1>4, <2>1, <2>3, SerialCount, SerialReads
      <3>2. UNCHANGED <<keys, widget>>
        BY <2>3 DEF CountOrigins, FindDuplicate, CheckFinal, ReadKey, LockKey, ReadOrigins,
           ReadTransition, ReadRotateKey, CheckPublish, Refuse, Goto
      <3> QED BY <3>1, <3>2 DEF RevokedStay
    <2>4. CASE InsertOrigin(r) \/ DeactivateOrigin(r)
      <3>1. SerialInv'
        BY <1>4, <2>1, <2>4, SerialInsert, SerialDeactivate
      <3>2. UNCHANGED <<keys, widget>>
        BY <2>4 DEF InsertOrigin, DeactivateOrigin, Refuse
      <3> QED BY <3>1, <3>2 DEF RevokedStay
    <2>5. CASE CutOver(r)
      BY <1>4, <2>1, <2>5, SerialCutOver
    <2>6. CASE WriteTransition(r)
      BY <1>4, <2>1, <2>6, SerialTransition DEF WriteTransition
    <2>7. CASE Publish(r) \/ Archive(r)
      <3>1. keys' = keys /\ widget'.key = widget.key
        BY <2>7 DEF Publish, Archive, IInv, TypeOK, Widget
      <3> QED BY <1>4, <2>1, <2>7, <3>1, SerialWidget DEF RevokedStay
    <2> QED BY <1>4, <2>2, <2>3, <2>4, <2>5, <2>6, <2>7 DEF Step
  <1> QED BY <1>1, <1>2, <1>3, <1>4 DEF Next, RevokedStay

\* Requests are served in one way throughout.
LEMMA SerialStays == ASSUME [Next]_vars PROVE Serial' = Serial
  BY DEF Next, Finished, vars, Serial

\* The invariant of requests served one after the other.
THEOREM SerialInvariance == Spec => [](Serial => SerialInv)
  <1>1. Init => (Serial => SerialInv)
    BY SerialInit
  <1>2. ASSUME IInv, Serial => SerialInv, [Next]_vars PROVE (Serial => SerialInv)'
    <2>1. CASE Serial
      BY <1>2, <2>1, SerialStep
    <2>2. CASE ~Serial
      BY <1>2, <2>2, SerialStays
    <2> QED BY <2>1, <2>2
  <1> QED BY <1>1, <1>2, Invariance, PTL DEF Spec

\* One request at a time, the widget's key stays below the cap of origins and
\* without duplicates, and a published, enabled widget stays servable.
THEOREM SerialPromises == Spec => []SerialKeeps
  <1>1. (Serial => SerialInv) => SerialKeeps
    BY DEF SerialInv, SerialKeeps
  <1> QED BY <1>1, SerialInvariance, PTL

\* One request at a time, a revoked key stays revoked and a rotation replaces the
\* key its caller expected without losing or reviving an origin.
THEOREM FaithfulRotation == Spec => RotationIsFaithful
  <1>1. ASSUME IInv, Serial => SerialInv, [Next]_vars
        PROVE  [Serial => RevokedStay /\ (widget'.key # widget.key => Rotated)]_vars
    BY <1>1, SerialStep
  <1> QED BY <1>1, Invariance, SerialInvariance, PTL DEF Spec, RotationIsFaithful

=============================================================================
