----------------------------- MODULE WidgetKeys -----------------------------
(***************************************************************************)
(* The public key of one widget and the origins allowed to use it:         *)
(* access/credentials/service.py, the origin and rotation operations of    *)
(* access/widget_admin/service.py, and their routes.                       *)
(*                                                                         *)
(* A request is one READ COMMITTED transaction whose statements interleave *)
(* with those of the others; its later statements act on what its earlier  *)
(* ones read.  The database adds only row locks and the unique constraint  *)
(* on origins.  Audit rows, names, capabilities and expiry are left out;   *)
(* so is the second, audit-only transaction of the two origin operations.  *)
(***************************************************************************)
EXTENDS Naturals, FiniteSets

CONSTANTS Requests,      \* admin requests, each served once
          Regimes,       \* how they may be served: see Regime
          Origins,       \* canonical origins
          DefaultPort,   \* those without an explicit port: stored with NULL
          MaxOrigins,    \* MAX_WIDGET_ORIGINS
          MaxKeys,       \* bound: credentials considered
          MaxCopies      \* bound: rows of one origin on one key

WidgetOperations == {"add", "remove", "rotate", "publish", "archive"}
KeyOperations == {"add_to_key", "remove_from_key", "rotate_key",
                  "activate", "disable", "revoke"}

Operations == WidgetOperations \union KeyOperations

\* How many requests are served at the same time, and what they ask for.
Regime == [workers : Nat \ {0}, operations : SUBSET Operations]

ASSUME RegimesAssumption == Regimes \subseteq Regime
ASSUME DefaultPortAssumption == DefaultPort \subseteq Origins
ASSUME BoundsAssumption ==
    /\ MaxOrigins \in Nat
    /\ MaxKeys \in Nat \ {0}
    /\ MaxCopies \in Nat \ {0}
ASSUME FiniteAssumption == IsFiniteSet(Requests) /\ IsFiniteSet(Origins)

VARIABLES keys,       \* public_credentials
          allowed,    \* credential_allowed_origins
          widget,     \* the widget's row
          tx,         \* what each request holds in its session
          regime      \* how the requests are served, once and for all

vars == <<keys, allowed, widget, tx, regime>>

Keys == 1..MaxKeys
Copies == 1..MaxCopies
NoKey == 0
NoOrigin == "none"

ASSUME OriginsAssumption == NoOrigin \notin Origins

Key == [status : {"absent", "draft", "active", "disabled", "revoked"},
        activated : BOOLEAN,       \* activated_at is set
        parent : 0..MaxKeys,       \* parent_credential_id
        cutover : BOOLEAN]         \* made by a widget rotation

Widget == [key : Keys, published : BOOLEAN, archived : BOOLEAN]

\* One row per credential, origin and copy: rows are never deleted.
Rows == Keys \X Origins \X Copies
RowStates == {"absent", "active", "removed"}

NoCredential == [status |-> "absent", activated |-> FALSE, parent |-> NoKey,
                 cutover |-> FALSE]

Phases == {"idle", "loaded", "counted", "checked", "locked", "copied", "done"}

RequestState ==
    [phase : Phases,
     op : Operations \union {"none"},
     key : 0..MaxKeys,           \* the credential it works on
     expected : 0..MaxKeys,      \* expected_public_credential_id
     live : BOOLEAN,             \* the widget was published and enabled
     origin : Origins \union {NoOrigin},
     copy : Copies,
     activated : BOOLEAN,        \* activated_at as it read it
     rows : SUBSET (Origins \X Copies),  \* the active rows it read
     answer : {"none", "ok", "not_found", "conflict", "invalid", "error"}]

TypeOK ==
    /\ keys \in [Keys -> Key]
    /\ allowed \in [Rows -> RowStates]
    /\ widget \in Widget
    /\ tx \in [Requests -> RequestState]
    /\ regime \in Regimes

-----------------------------------------------------------------------------

ActiveRows(c) == {p \in Origins \X Copies : allowed[<<c, p[1], p[2]>>] = "active"}
ActiveOrigins(c) == {p[1] : p \in ActiveRows(c)}

Existing == {c \in Keys : keys[c].status # "absent"}

\* The identifiers are random; the model numbers the credentials in order.
IsFresh(c) == c \notin Existing /\ \A d \in Keys \ Existing : c <= d

Live(w) == w.published /\ ~w.archived

\* Rotation flushes its update of the old credential, and its insertion of the
\* new one, before it copies the origins: the old row stays locked meanwhile.
HoldsKey(r, c) == tx[r].phase \in {"locked", "copied"} /\ tx[r].key = c
KeyHeld(r, c) == \E q \in Requests \ {r} : HoldsKey(q, c)

InFlight == {r \in Requests : tx[r].phase \notin {"idle", "done"}}

Finish(r, answer) ==
    tx' = [tx EXCEPT ![r] = [@ EXCEPT !.phase = "done", !.answer = answer]]
Refuse(r, answer) == Finish(r, answer) /\ UNCHANGED <<keys, allowed, widget>>
Goto(r, phase) ==
    /\ tx' = [tx EXCEPT ![r] = [@ EXCEPT !.phase = phase]]
    /\ UNCHANGED <<keys, allowed, widget>>

At(r, phase, ops) == tx[r].phase = phase /\ tx[r].op \in ops

-----------------------------------------------------------------------------

\* create_widget leaves a draft key without origins; a widget that was
\* published since had an active key and an origin.
Init ==
    /\ \E s \in {"draft", "active"}, S \in SUBSET Origins, p \in BOOLEAN :
         /\ p => s = "active" /\ S # {}
         /\ Cardinality(S) <= MaxOrigins
         /\ keys = [c \in Keys |-> IF c = 1
                      THEN [status |-> s, activated |-> s = "active",
                            parent |-> NoKey, cutover |-> FALSE]
                      ELSE NoCredential]
         /\ allowed = [w \in Rows |-> IF w[1] = 1 /\ w[2] \in S /\ w[3] = 1
                                      THEN "active" ELSE "absent"]
         /\ widget = [key |-> 1, published |-> p, archived |-> FALSE]
    /\ tx \in [Requests -> [phase : {"idle"}, op : {"none"}, key : {NoKey},
                            expected : {NoKey}, live : {FALSE},
                            origin : {NoOrigin}, copy : {1},
                            activated : {FALSE}, rows : {{}}, answer : {"none"}]]
    /\ regime \in Regimes

Ask(r, op, key, expected, origin, copy) ==
    /\ op \in regime.operations
    /\ tx' = [tx EXCEPT ![r] = [@ EXCEPT !.phase = "loaded", !.op = op,
                !.key = key, !.expected = expected, !.live = Live(widget),
                !.origin = origin, !.copy = copy]]

\* _load_widget_or_404 for the routes of the widget, which go on with the key
\* it names; the routes of a credential name theirs.
Load(r) ==
    /\ tx[r].phase = "idle"
    /\ Cardinality(InFlight) < regime.workers
    /\ \/ /\ ~widget.archived
          /\ \/ \E o \in Origins : Ask(r, "add", widget.key, NoKey, o, 1)
             \/ \E w \in Rows : /\ allowed[w] # "absent"
                                /\ Ask(r, "remove", widget.key, NoKey, w[2], w[3])
             \/ \E e \in Existing : Ask(r, "rotate", widget.key, e, NoOrigin, 1)
             \/ \E op \in {"publish", "archive"} :
                  Ask(r, op, widget.key, NoKey, NoOrigin, 1)
       \/ \E c \in Existing :
            \/ \E o \in Origins : Ask(r, "add_to_key", c, NoKey, o, 1)
            \/ \E w \in Rows : /\ allowed[w] # "absent"
                               /\ Ask(r, "remove_from_key", c, NoKey, w[2], w[3])
            \/ \E op \in {"rotate_key", "activate", "disable", "revoke"} :
                 Ask(r, op, c, NoKey, NoOrigin, 1)
    /\ UNCHANGED <<keys, allowed, widget>>

AtCap(c) == Cardinality(ActiveRows(c)) >= MaxOrigins

\* add_widget_origin: the cap, counted over the rows that are active now.
CountOrigins(r) ==
    /\ At(r, "loaded", {"add"})
    /\ \/ AtCap(tx[r].key) /\ Refuse(r, "invalid")
       \/ /\ ~AtCap(tx[r].key)
          /\ tx' = [tx EXCEPT ![r] = [@ EXCEPT !.phase = "counted",
                                        !.rows = ActiveRows(tx[r].key)]]
          /\ UNCHANGED <<keys, allowed, widget>>

SeenActive(r) == {p[1] : p \in tx[r].rows \union ActiveRows(tx[r].key)}
\* add_origin: an active row of the credential carries the origin.  A row that
\* the session has counted keeps the state it was read with.
IsDuplicate(r) == tx[r].origin \in SeenActive(r)

FindDuplicate(r) ==
    /\ At(r, "counted", {"add"}) \/ At(r, "loaded", {"add_to_key"})
    /\ IF IsDuplicate(r) THEN Refuse(r, "invalid") ELSE Goto(r, "checked")

ViolatesActive(c, o) ==
    /\ o \notin DefaultPort
    /\ \E n \in Copies : allowed[<<c, o, n>>] = "active"

\* uq_credential_allowed_origins_normalised, which no NULL port violates.
Violates(c, o) ==
    /\ o \notin DefaultPort
    /\ \E n \in Copies : allowed[<<c, o, n>>] # "absent"

\* The flush that inserts the origin, and the commit.  The flush stands before
\* the try block, so a violation reaches the client as an error.
InsertOrigin(r) ==
    LET c == tx[r].key
        o == tx[r].origin IN
    /\ At(r, "checked", {"add", "add_to_key"})
    /\ \/ Violates(c, o) /\ Refuse(r, "error")
       \/ /\ ~Violates(c, o)
          /\ \E n \in Copies :
               /\ allowed[<<c, o, n>>] = "absent"
               /\ \A m \in 1..n - 1 : allowed[<<c, o, m>>] # "absent"
               /\ allowed' = [allowed EXCEPT ![<<c, o, n>>] = "active"]
          /\ Finish(r, "ok")
          /\ UNCHANGED <<keys, widget>>

IsFinalOriginOffByOne(r) ==
    /\ tx[r].live
    /\ Cardinality(ActiveRows(tx[r].key)) < 1
\* remove_widget_origin: the guard of the final origin.
IsFinalOrigin(r) ==
    /\ tx[r].live
    /\ Cardinality(ActiveRows(tx[r].key)) <= 1
    /\ <<tx[r].origin, tx[r].copy>> \in ActiveRows(tx[r].key)
CheckFinal(r) ==
    /\ At(r, "loaded", {"remove"})
    /\ IF IsFinalOrigin(r) THEN Refuse(r, "invalid") ELSE Goto(r, "checked")

\* deactivate_origin: no guard of its own.
DeactivateOrigin(r) ==
    LET row == <<tx[r].key, tx[r].origin, tx[r].copy>> IN
    /\ At(r, "checked", {"remove"}) \/ At(r, "loaded", {"remove_from_key"})
    /\ \/ allowed[row] = "absent" /\ Refuse(r, "not_found")
       \/ /\ allowed[row] # "absent"
          /\ allowed' = [allowed EXCEPT ![row] = "removed"]
          /\ Finish(r, "ok")
          /\ UNCHANGED <<keys, widget>>

\* rotate_widget_public_key: the expected key, and a status it may leave.
ExpectedMatches(r) == tx[r].expected = tx[r].key
ReadKey(r) ==
    LET old == keys[tx[r].key] IN
    /\ At(r, "loaded", {"rotate"})
    /\ \/ ~ExpectedMatches(r) /\ Refuse(r, "conflict")
       \/ /\ ExpectedMatches(r)
          /\ old.status = "revoked"
          /\ Refuse(r, "invalid")
       \/ /\ ExpectedMatches(r)
          /\ old.status # "revoked"
          /\ tx' = [tx EXCEPT ![r] = [@ EXCEPT !.phase = "checked",
                                        !.activated = old.activated]]
          /\ UNCHANGED <<keys, allowed, widget>>

\* The flush: waits for the row of the old key, then keeps it.
LockKey(r) ==
    /\ At(r, "checked", {"rotate"})
    /\ ~KeyHeld(r, tx[r].key)
    /\ Goto(r, "locked")

CopiedRowsAll(c) == {p \in Origins \X Copies : allowed[<<c, p[1], p[2]>>] # "absent"}
\* list_origins(active_only=True) of the old key.
CopiedRows(c) == ActiveRows(c)
ReadOrigins(r) ==
    /\ At(r, "locked", {"rotate"})
    /\ tx' = [tx EXCEPT ![r] = [@ EXCEPT !.phase = "copied",
                                  !.rows = CopiedRows(tx[r].key)]]
    /\ UNCHANGED <<keys, allowed, widget>>

Replacement(old, activated) ==
    [status |-> IF activated THEN "active" ELSE "draft",
     activated |-> activated, parent |-> old, cutover |-> TRUE]
Revoked(key) == [key EXCEPT !.status = "revoked"]

\* The commit: the old key revoked, the new one with the copied origins, the
\* widget on the new one.
CutOver(r) ==
    /\ At(r, "copied", {"rotate"})
    /\ \E new \in Keys :
         /\ IsFresh(new)
         /\ keys' = [keys EXCEPT
              ![tx[r].key] = Revoked(@),
              ![new] = Replacement(tx[r].key, tx[r].activated)]
         /\ allowed' = [w \in Rows |->
              IF w[1] # new THEN allowed[w]
              ELSE IF <<w[2], w[3]>> \in tx[r].rows THEN "active" ELSE "absent"]
         /\ widget' = [widget EXCEPT !.key = new]
    /\ Finish(r, "ok")

\* transition_credential: VALID_TRANSITIONS on the status it reads ...
Target(op) == CASE op = "activate" -> "active" [] op = "disable" -> "disabled"
                [] op = "revoke" -> "revoked"
ValidTransition(current, target) ==
    \/ current = "draft" /\ target \in {"active", "revoked"}
    \/ current = "active" /\ target \in {"disabled", "revoked"}
    \/ current = "disabled" /\ target \in {"active", "revoked"}
ReadTransition(r) ==
    LET c == keys[tx[r].key] IN
    /\ At(r, "loaded", {"activate", "disable", "revoke"})
    /\ \/ ~ValidTransition(c.status, Target(tx[r].op)) /\ Refuse(r, "invalid")
       \/ /\ ValidTransition(c.status, Target(tx[r].op))
          /\ Goto(r, "checked")

\* ... and the status it writes, whatever the row has become.
SetStatus(key, target) ==
    [key EXCEPT !.status = target, !.activated = @ \/ target = "active"]
WriteTransition(r) ==
    /\ At(r, "checked", {"activate", "disable", "revoke"})
    /\ ~KeyHeld(r, tx[r].key)
    /\ keys' = [keys EXCEPT ![tx[r].key] = SetStatus(@, Target(tx[r].op))]
    /\ Finish(r, "ok")
    /\ UNCHANGED <<allowed, widget>>

\* rotate_credential: the replacement is a draft, without origins, next to the
\* old key.
ReadRotateKey(r) ==
    /\ At(r, "loaded", {"rotate_key"})
    /\ IF keys[tx[r].key].status = "revoked"
       THEN Refuse(r, "invalid") ELSE Goto(r, "checked")
AddReplacement(r) ==
    /\ At(r, "checked", {"rotate_key"})
    /\ ~KeyHeld(r, tx[r].key)
    /\ \E new \in Keys :
         /\ IsFresh(new)
         /\ keys' = [keys EXCEPT ![new] = [NoCredential EXCEPT
                        !.status = "draft", !.parent = tx[r].key]]
    /\ Finish(r, "ok")
    /\ UNCHANGED <<allowed, widget>>

\* _validate_publishability, as far as it concerns the key and its origins,
\* and the commit of a publication.
Publishable(r) ==
    /\ keys[tx[r].key].status = "active"
    /\ ActiveRows(tx[r].key) # {}
CheckPublish(r) ==
    /\ At(r, "loaded", {"publish"})
    /\ IF Publishable(r) THEN Goto(r, "checked") ELSE Refuse(r, "invalid")
Publish(r) ==
    /\ At(r, "checked", {"publish"})
    /\ widget' = [widget EXCEPT !.published = TRUE]
    /\ Finish(r, "ok")
    /\ UNCHANGED <<keys, allowed>>

\* archive_widget.
Archive(r) ==
    /\ At(r, "loaded", {"archive"})
    /\ widget' = [widget EXCEPT !.archived = TRUE]
    /\ Finish(r, "ok")
    /\ UNCHANGED <<keys, allowed>>

\* A request dies before its commit: the transaction is rolled back.
Crash(r) ==
    /\ tx[r].phase \notin {"idle", "done"}
    /\ Refuse(r, "error")

Finished == (\A r \in Requests : tx[r].phase = "done") /\ UNCHANGED vars

Step(r) ==
    \/ CountOrigins(r) \/ FindDuplicate(r) \/ InsertOrigin(r)
    \/ CheckFinal(r) \/ DeactivateOrigin(r)
    \/ ReadKey(r) \/ LockKey(r) \/ ReadOrigins(r) \/ CutOver(r)
    \/ ReadTransition(r) \/ WriteTransition(r)
    \/ ReadRotateKey(r) \/ AddReplacement(r)
    \/ CheckPublish(r) \/ Publish(r) \/ Archive(r)

Next ==
    \/ Finished
    \/ \E r \in Requests : (Load(r) \/ Step(r) \/ Crash(r)) /\ UNCHANGED regime

Spec == Init /\ [][Next]_vars

-----------------------------------------------------------------------------

(* However many requests overlap. *)

\* A key is active or disabled only if it was activated, itself or through a
\* rotation of an activated key (transition_credential, rotate_widget_public_key).
ActiveWasActivated ==
    \A c \in Keys : keys[c].status \in {"active", "disabled"} => keys[c].activated

\* Two requests that both found no duplicate cannot both add an origin with an
\* explicit port to one key (add_origin and the unique constraint).
ExplicitOnce ==
    \A c \in Keys, o \in Origins \ DefaultPort :
        \A m, n \in Copies :
            allowed[<<c, o, m>>] # "absent" /\ allowed[<<c, o, n>>] # "absent" => m = n

\* What the administration of a key keeps under any overlap of its requests: no
\* unactivated key goes live, and no origin with an explicit port is doubled.
OverlapKeeps == ActiveWasActivated /\ ExplicitOnce

\* The inductive invariant: requests and the widget name existing keys, whoever
\* may disable a key found it active, and what a rotation copies is no duplicate.
IInv ==
    /\ TypeOK
    /\ ActiveWasActivated
    /\ ExplicitOnce
    /\ widget.key \in Existing
    /\ \A r \in Requests :
         /\ tx[r].phase # "idle" => tx[r].key \in Existing
         /\ At(r, "checked", {"disable"}) => keys[tx[r].key].activated
         /\ \A o \in Origins \ DefaultPort : \A m, n \in Copies :
              <<o, m>> \in tx[r].rows /\ <<o, n>> \in tx[r].rows => m = n

(* What the documents promise of the widget's routes: true of requests served *)
(* one after the other.                                                       *)

Serial ==
    /\ regime.workers = 1
    /\ regime.operations \subseteq WidgetOperations \union {"activate", "disable", "revoke"}

\* The widget's key carries at most MAX_WIDGET_ORIGINS active origins and none of
\* them twice, through additions, removals, re-additions and rotations
\* (add_widget_origin, add_origin).
OriginsInOrder ==
    /\ Cardinality(ActiveRows(widget.key)) <= MaxOrigins
    /\ \A c \in Keys, o \in Origins :
         Cardinality({n \in Copies : allowed[<<c, o, n>>] = "active"}) <= 1

\* A published, enabled widget stays servable whatever its administrators do
\* next: its key was activated, also after a rotation, and an origin is left on it
\* (_validate_publishability, remove_widget_origin, rotate_widget_public_key).
PublishedIsServable ==
    Live(widget) => keys[widget.key].activated /\ ActiveRows(widget.key) # {}

\* One request at a time, the cap, the duplicates and the final origin are kept.
SerialKeeps == Serial => OriginsInOrder /\ PublishedIsServable

KeyOrigins == ActiveOrigins(widget.key)
RevokedStay == \A c \in Keys : keys[c].status = "revoked" => keys'[c].status = "revoked"
Rotated ==
    /\ KeyOrigins' = KeyOrigins
    /\ \E r \in Requests : /\ tx[r].phase = "copied" /\ tx'[r].phase = "done"
                           /\ tx[r].expected = widget.key
\* One request at a time, a revoked key stays revoked (VALID_TRANSITIONS), and a
\* rotation replaces the key its caller expected, and neither loses nor revives
\* an origin of the widget (expected_public_credential_id, the copied origins).
RotationIsFaithful ==
    [][Serial => RevokedStay /\ (widget'.key # widget.key => Rotated)]_vars
=============================================================================
