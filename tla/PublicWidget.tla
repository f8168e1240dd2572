---------------------------- MODULE PublicWidget ----------------------------
(***************************************************************************)
(* What a page asks of the public gateway before any message: its widget's *)
(* configuration and a session (api/v1/public_widget.py, access/gateway.py *)
(* and the services they call), while the widget's owners publish, roll    *)
(* back, rotate, disable, archive and edit through both admin APIs.        *)
(*                                                                         *)
(* A request is one database transaction under READ COMMITTED and every    *)
(* statement of it is a step: each sees what is committed at its moment.   *)
(* An admin request is one step here; the interleavings inside it are      *)
(* those of WidgetRevisions and WidgetKeys.                                *)
(***************************************************************************)
EXTENDS Naturals, Sequences, FiniteSets

CONSTANTS Requests,       \* the requests of pages
          Keys,           \* public keys a widget may come to have
          FirstKey,       \* the key it has at first
          Pages,          \* origins of pages, as browsers send them
          Refused,        \* those refused before any lookup: none, malformed, not https
          Wildcard,       \* an allowed origin with a wildcard
          Covered,        \* the pages it covers
          FirstOrigins,   \* bound: what its key may allow at first
          MaxRevision,    \* bound: publications of the widget
          MaxChanges,     \* bound: changes by its owners
          MaxWork,        \* bound: changes and requests together
          None

VARIABLES credential,  \* PublicCredential.status of each key
          tenant,      \* which of the organisation and the workspace are active
          allowed,     \* the active allowed origins of each key
          widget,      \* its key, its active publication, and whether it is archived
          revisions,   \* its publications, in order
          legacy,      \* widget_configurations: one row per key at most
          enabled,     \* keys the operational controls let through
          observed,    \* widget_installation_observations
          cached,      \* what the browser keeps of each page's configuration
          request,     \* what each request holds
          window,      \* what was true during each request (history)
          changes      \* changes so far

owned == <<credential, tenant, allowed, widget, revisions, legacy, enabled, changes>>
vars == <<owned, observed, cached, request, window>>

Kinds == {"config", "config_preflight", "session", "preflight"}
Statuses == {"absent", "draft", "active", "disabled", "revoked"}
Tenants == {"organisation", "workspace"}
Facts == Tenants \cup {"enabled", "credential", "origin", "published"}
Patterns == (Pages \ Refused) \cup {Wildcard}
\* Assumed by Gateway, which instantiates this module.
Admissible ==
  /\ FirstKey \in Keys /\ Pages # {}
  /\ FirstOrigins \subseteq SUBSET Patterns
  /\ MaxRevision \in Nat \ {0} /\ MaxChanges \in Nat /\ MaxWork \in Nat

Configurations ==
  [status : {"absent", "draft", "published"},
   version : 0 .. MaxRevision + MaxChanges,
   content : 0 .. MaxChanges + 1]
NoConfiguration == [status |-> "absent", version |-> 0, content |-> 0]
(* What project_public_widget_configuration shows of a configuration.      *)
Bodies == [version : Nat, content : Nat]

RequestStates ==
  [kind : Kinds, key : Keys, page : Pages,
   tag : [key : Keys, body : Bodies] \cup {None},  \* If-None-Match
   phase : {"idle", "controls", "credential", "organisation", "workspace", "pointer", "revision",
            "legacy", "origin", "rate", "respond", "observe", "listed", "seen",
            "commit", "reorganisation", "reworkspace", "recredential", "done"},
   pointer : 0 .. MaxRevision,                     \* the publication it is to read
   body : Bodies \cup {None},                      \* the configuration it has read
   known : BOOLEAN,                                \* its observation exists already
   answer : {None, "served", "not_modified", "allowed", "created",
             "invalid_widget", "invalid_credential", "disabled_credential",
             "widget_not_published", "origin_refused", "origin_not_allowed",
             "rate_limited", "invalid_session", "safe_internal_error"}]

Idle == [kind |-> "config", key |-> FirstKey, page |-> CHOOSE p \in Pages : TRUE,
         tag |-> None, phase |-> "idle", pointer |-> 0, body |-> None,
         known |-> FALSE, answer |-> None]

TypeOK ==
  /\ credential \in [Keys -> Statuses]
  /\ tenant \subseteq Tenants
  /\ allowed \in [Keys -> SUBSET Patterns]
  /\ widget \in [key : Keys, active : 0 .. MaxRevision, archived : BOOLEAN]
  /\ revisions \in [1 .. MaxRevision -> Configurations]
  /\ legacy \in [Keys -> Configurations]
  /\ enabled \subseteq Keys
  /\ observed \subseteq Keys \X Pages
  /\ cached \in [Pages -> [key : Keys, body : Bodies] \cup {None}]
  /\ request \in [Requests -> RequestStates]
  /\ changes \in 0 .. MaxChanges

-----------------------------------------------------------------------------
(* Configurations: get_configuration_for_credential and its callers.       *)

Points(k) == widget.key = k /\ ~widget.archived /\ widget.active # 0
IsLive(k) == Points(k) /\ revisions[widget.active].status = "published"
Configuration(k) == IF IsLive(k) THEN revisions[widget.active] ELSE legacy[k]
IsPublished(k) == Configuration(k).status = "published"

Body(c) == [version |-> c.version, content |-> c.content]

EtagOfVersion(k, body) == <<k, body.version>>
(* public_widget_config_etag: a digest of the key and the whole body.      *)
Etag(k, body) == <<k, body>>

(* match_origin: an exact record, or a wildcard record that covers it.     *)
Matches(origins, page) ==
  page \in origins \/ (Wildcard \in origins /\ page \in Covered)

-----------------------------------------------------------------------------
(* What is true of a request's key and page now, and so far.               *)

Holding(r) ==
  LET k == request[r].key
      p == request[r].page
  IN tenant
     \cup {f \in {"enabled"} : k \in enabled}
     \cup {f \in {"credential"} : credential[k] = "active"}
     \cup {f \in {"origin"} : p \notin Refused /\ Matches(allowed[k], p)}
     \cup {f \in {"published"} : IsPublished(k)}

IsOpen(r) == request[r].phase \notin {"idle", "done"}
Unseen == [held |-> {}, lapsed |-> {}, bodies |-> {}, unlisted |-> FALSE, unobserved |-> FALSE]

(* What was true at some state of a request, up to this one.               *)
Watched ==
  [r \in Requests |->
     IF ~IsOpen(r) THEN window[r]
     ELSE LET k == request[r].key
              p == request[r].page
              now == Holding(r)
          IN [held |-> window[r].held \cup now,
              lapsed |-> window[r].lapsed \cup (Facts \ now),
              bodies |-> window[r].bodies \cup
                           (IF IsPublished(k) THEN {Body(Configuration(k))} ELSE {}),
              unlisted |-> \/ window[r].unlisted
                           \/ p \notin allowed[k] \/ widget.key # k \/ widget.archived,
              unobserved |-> window[r].unobserved \/ <<k, p>> \notin observed]]

-----------------------------------------------------------------------------
(* A request.                                                              *)

Asks(r, kind) == request[r].kind = kind
At(r, phase) == request[r].phase = phase
Set(r, with) == request' = [request EXCEPT ![r] = with]
Goto(r, phase) == Set(r, [request[r] EXCEPT !.phase = phase])
Answer(r, answer) ==
  Set(r, [request[r] EXCEPT !.phase = "done", !.answer = answer, !.pointer = 0, !.known = FALSE,
                            !.tag = IF answer = "not_modified" THEN @ ELSE None])
Only(r) == UNCHANGED <<owned, observed, cached>>

Work == changes + Cardinality({r \in Requests : request[r].phase # "idle"})

(* Bound: only reads of a configuration come in twos; no request sees      *)
(* anything of another kind that other requests leave.                     *)
MayOverlap(kind) ==
  \A q \in Requests : request[q].phase # "idle" => kind = "config" /\ request[q].kind = "config"

(* The routes: what each looks up and checks, in its order.  A session     *)
(* needs its configuration before its origin is checked (the enricher of   *)
(* the gateway), a configuration is read last, after the rate limit        *)
(* (its projector); its preflight reads it too, and the others neither     *)
(* read it nor are limited.                                                *)
Resolution == <<"controls", "credential", "organisation", "workspace">>
ReadConfig == Resolution \o <<"origin", "rate", "pointer", "respond", "observe">>
PreflightConfig == Resolution \o <<"origin", "rate", "pointer", "respond">>
StartSession ==
  Resolution \o <<"pointer", "origin", "rate", "reorganisation", "reworkspace", "recredential">>
Preflight == Resolution \o <<"origin", "respond">>
Route == [config |-> ReadConfig, config_preflight |-> PreflightConfig,
          session |-> StartSession, preflight |-> Preflight]

After(r, phase) ==
  LET route == Route[request[r].kind]
  IN route[1 + CHOOSE i \in 1 .. Len(route) - 1 : route[i] = phase]
Continue(r, phase) == Goto(r, After(r, phase))

(* A browser sends back the tag of what it keeps of the same address.      *)
Arrive(r) ==
  /\ At(r, "idle")
  /\ Work < MaxWork
  /\ \E kind \in Kinds, k \in Keys, p \in Pages :
       /\ credential[k] # "absent"
       /\ MayOverlap(kind)
       /\ LET tag == IF kind = "config" /\ cached[p] # None /\ cached[p].key = k
                     THEN cached[p] ELSE None
          IN Set(r, [Idle EXCEPT !.kind = kind, !.key = k, !.page = p, !.tag = tag,
                                 !.phase = "controls"])
  /\ Only(r)

(* _operational_policy_error: the switches of this process.                *)
Screen(r) ==
  /\ At(r, "controls")
  /\ IF request[r].key \in enabled THEN Continue(r, "controls") ELSE Answer(r, "invalid_widget")
  /\ Only(r)

(* DatabaseCredentialRegistry.resolve and validate_usable.                 *)
ResolveCredential(r) ==
  /\ At(r, "credential")
  /\ LET status == credential[request[r].key]
     IN CASE status = "active" -> Continue(r, "credential")
          [] status = "disabled" -> Answer(r, "disabled_credential")
          [] OTHER -> Answer(r, "invalid_credential")
  /\ Only(r)

ResolveTenant(r) ==
  /\ \/ /\ At(r, "organisation")
        /\ IF "organisation" \in tenant THEN Continue(r, "organisation") ELSE Answer(r, "disabled_credential")
     \/ /\ At(r, "workspace")
        /\ IF "workspace" \in tenant THEN Continue(r, "workspace") ELSE Answer(r, "disabled_credential")
  /\ Only(r)

(* get_configuration_for_credential: the widget, the publication it points *)
(* to if it is still published, else the row of the key.                   *)
ReadWidget(r) ==
  /\ At(r, "pointer")
  /\ LET k == request[r].key
     IN Set(r, [request[r] EXCEPT !.pointer = IF Points(k) THEN widget.active ELSE 0,
                                  !.phase = IF Points(k) THEN "revision" ELSE "legacy"])
  /\ Only(r)

Take(r, c) == Set(r, [request[r] EXCEPT !.body = Body(c), !.phase = After(r, "pointer")])

ReadAnyRevision(r) ==
  /\ At(r, "revision")
  /\ Take(r, revisions[request[r].pointer])
  /\ Only(r)

ReadRevision(r) ==
  /\ At(r, "revision")
  /\ LET revision == revisions[request[r].pointer]
     IN IF revision.status = "published" THEN Take(r, revision) ELSE Goto(r, "legacy")
  /\ Only(r)

ReadLegacy(r) ==
  /\ At(r, "legacy")
  /\ LET row == legacy[request[r].key]
     IN IF row.status = "published" THEN Take(r, row) ELSE Answer(r, "widget_not_published")
  /\ Only(r)

CheckOrigin(r) ==
  /\ At(r, "origin")
  /\ LET p == request[r].page
     IN CASE p \in Refused -> Answer(r, "origin_refused")
          [] p \notin Refused /\ Matches(allowed[request[r].key], p) -> Continue(r, "origin")
          [] OTHER -> Answer(r, "origin_not_allowed")
  /\ Only(r)

(* RateLimitService.enforce, of which RateLimit models the decision.       *)
Enforce(r) ==
  /\ At(r, "rate")
  /\ Continue(r, "rate") \/ Answer(r, "rate_limited")
  /\ Only(r)

(* A preflight ends here; a read is compared with what the browser has.    *)
Respond(r) ==
  /\ At(r, "respond")
  /\ LET q == request[r]
     IN CASE q.kind \in {"preflight", "config_preflight"} -> Answer(r, "allowed")
          [] q.kind = "config" /\ q.tag # None /\ Etag(q.key, q.body) = Etag(q.tag.key, q.tag.body) ->
               Answer(r, "not_modified")
          [] OTHER -> Continue(r, "respond")
  /\ Only(r)

(* The response reaches the browser, which keeps it.                       *)
Serve(r) ==
  /\ Answer(r, "served")
  /\ cached' = [cached EXCEPT ![request[r].page] =
                  [key |-> request[r].key, body |-> request[r].body]]

(* record_installation_observation: only of a widget that still has the    *)
(* key, and of an origin listed as the browser writes it.                  *)
FindWidget(r) ==
  /\ At(r, "observe")
  /\ IF widget.key = request[r].key /\ ~widget.archived
       THEN Goto(r, "listed") /\ UNCHANGED cached
       ELSE Serve(r)
  /\ UNCHANGED <<owned, observed>>

FindOrigin(r) ==
  /\ At(r, "listed")
  /\ IF request[r].page \in allowed[request[r].key]
       THEN Goto(r, "seen") /\ UNCHANGED cached
       ELSE Serve(r)
  /\ UNCHANGED <<owned, observed>>

FindObservation(r) ==
  /\ At(r, "seen")
  /\ Set(r, [request[r] EXCEPT !.phase = "commit",
               !.known = <<request[r].key, request[r].page>> \in observed])
  /\ Only(r)

ObserveUncommitted(r) ==
  /\ At(r, "commit")
  /\ Serve(r)
  /\ UNCHANGED <<owned, observed>>

(* uq_widget_installation_observation_origin refuses the second of two     *)
(* first observations, and the whole answer with it.                       *)
Observe(r) ==
  /\ At(r, "commit")
  /\ LET seen == <<request[r].key, request[r].page>>
     IN IF seen \in observed /\ ~request[r].known
          THEN Answer(r, "safe_internal_error") /\ UNCHANGED <<observed, cached>>
          ELSE Serve(r) /\ observed' = observed \cup {seen}
  /\ UNCHANGED owned

(* create_session: _verify_tenant_and_credential reads everything again;   *)
(* the session is inserted and committed with the last of it.              *)
CreateSession(r) ==
  /\ \/ /\ At(r, "reorganisation")
        /\ IF "organisation" \in tenant THEN Continue(r, "reorganisation") ELSE Answer(r, "invalid_session")
     \/ /\ At(r, "reworkspace")
        /\ IF "workspace" \in tenant THEN Continue(r, "reworkspace") ELSE Answer(r, "invalid_session")
     \/ /\ At(r, "recredential")
        /\ Answer(r, IF credential[request[r].key] = "active" THEN "created" ELSE "invalid_session")
  /\ Only(r)

Step(r) ==
  \/ Arrive(r) \/ Screen(r) \/ ResolveCredential(r) \/ ResolveTenant(r)
  \/ ReadWidget(r) \/ ReadRevision(r) \/ ReadLegacy(r)
  \/ CheckOrigin(r) \/ Enforce(r) \/ Respond(r)
  \/ FindWidget(r) \/ FindOrigin(r) \/ FindObservation(r) \/ Observe(r)
  \/ CreateSession(r)

-----------------------------------------------------------------------------
(* The owners.                                                             *)

Change ==
  /\ changes < MaxChanges /\ Work < MaxWork
  /\ changes' = changes + 1
  /\ UNCHANGED <<observed, cached, request>>
Leave(others) == UNCHANGED others
Fresh == changes + 2   \* a content nobody has had yet

(* publish_widget and rollback_widget: a further publication, of a new     *)
(* content or of that of an earlier one.                                   *)
Publish ==
  /\ Change
  /\ ~widget.archived /\ credential[widget.key] = "active" /\ allowed[widget.key] # {}
  /\ \E n \in 1 .. MaxRevision :
       /\ revisions[n].status = "absent" /\ \A m \in 1 .. n - 1 : revisions[m].status # "absent"
       /\ \E content \in {Fresh} \cup {revisions[m].content : m \in
                            {m \in 1 .. n - 1 : revisions[m].status = "published"}} :
            revisions' = [revisions EXCEPT ![n] =
                           [status |-> "published", version |-> n, content |-> content]]
       /\ widget' = [widget EXCEPT !.active = n]
  /\ Leave(<<credential, tenant, allowed, legacy, enabled>>)

(* archive_widget.                                                         *)
Archive ==
  /\ Change
  /\ ~widget.archived
  /\ widget' = [widget EXCEPT !.archived = TRUE]
  /\ Leave(<<credential, tenant, allowed, revisions, legacy, enabled>>)

(* rotate_widget_public_key: the new key takes over the origins at once.   *)
Rotate ==
  /\ Change
  /\ credential[widget.key] \in {"active", "disabled"} /\ ~widget.archived
  /\ \E k \in Keys :
       /\ credential[k] = "absent"
       /\ credential' = [credential EXCEPT ![widget.key] = "revoked", ![k] = "active"]
       /\ allowed' = [allowed EXCEPT ![k] = allowed[widget.key]]
       /\ widget' = [widget EXCEPT !.key = k]
  /\ Leave(<<tenant, revisions, legacy, enabled>>)

(* transition_credential.                                                  *)
Transition ==
  /\ Change
  /\ \E k \in Keys :
       \E status \in CASE credential[k] = "active" -> {"disabled", "revoked"}
                       [] credential[k] = "disabled" -> {"active", "revoked"}
                       [] OTHER -> {} :
         credential' = [credential EXCEPT ![k] = status]
  /\ Leave(<<tenant, allowed, widget, revisions, legacy, enabled>>)

(* add_origin and deactivate_origin.                                       *)
EditOrigins ==
  /\ Change
  /\ \E k \in Keys, p \in Patterns :
       /\ credential[k] # "absent"
       /\ allowed' = [allowed EXCEPT ![k] = IF p \in @ THEN @ \ {p} ELSE @ \cup {p}]
  /\ Leave(<<credential, tenant, widget, revisions, legacy, enabled>>)

(* upsert_draft_configuration, of the credentials API: the configuration   *)
(* it finds may be the live publication.                                   *)
PutConfiguration ==
  /\ Change
  /\ \E k \in Keys :
       /\ credential[k] # "absent"
       /\ IF IsLive(k)
            THEN /\ revisions' = [revisions EXCEPT ![widget.active] =
                                    [@ EXCEPT !.status = "draft", !.content = Fresh]]
                 /\ UNCHANGED legacy
            ELSE /\ legacy' = [legacy EXCEPT ![k] =
                                 [@ EXCEPT !.status = "draft", !.content = Fresh]]
                 /\ UNCHANGED revisions
  /\ Leave(<<credential, tenant, allowed, widget, enabled>>)

(* publish_configuration: a publication has no version to be advanced, and *)
(* the request fails; a row is published under its next version.           *)
PublishConfiguration ==
  /\ Change
  /\ \E k \in Keys :
       /\ ~IsLive(k) /\ legacy[k].status # "absent"
       /\ legacy' = [legacy EXCEPT ![k] =
                       [legacy[k] EXCEPT !.status = "published", !.version = @ + 1]]
  /\ Leave(<<credential, tenant, allowed, widget, revisions, enabled>>)

(* An operator's: a status in the database, or the controls of a process.  *)
Operate ==
  /\ Change
  /\ \/ /\ \E t \in Tenants : tenant' = IF t \in tenant THEN tenant \ {t} ELSE tenant \cup {t}
        /\ UNCHANGED enabled
     \/ /\ \E k \in Keys : enabled' = IF k \in enabled THEN enabled \ {k} ELSE enabled \cup {k}
        /\ UNCHANGED tenant
  /\ Leave(<<credential, allowed, widget, revisions, legacy>>)

Owners == \/ Publish \/ Archive \/ Rotate \/ Transition \/ EditOrigins
          \/ PutConfiguration \/ PublishConfiguration \/ Operate

-----------------------------------------------------------------------------

(* A widget published once, with the row it was made from (migration 0010) *)
(* or a draft row written before; or one not published, with or without a  *)
(* row; visited by a page, or not yet.                                     *)
Init ==
  /\ credential = [k \in Keys |-> IF k = FirstKey THEN "active" ELSE "absent"]
  /\ tenant = Tenants
  /\ \E origins \in FirstOrigins :
       allowed = [k \in Keys |-> IF k = FirstKey THEN origins ELSE {}]
  /\ \E first \in {NoConfiguration, [status |-> "published", version |-> 1, content |-> 0]} :
       /\ revisions = [n \in 1 .. MaxRevision |-> IF n = 1 THEN first ELSE NoConfiguration]
       /\ widget = [key |-> FirstKey, archived |-> FALSE,
                    active |-> IF first = NoConfiguration THEN 0 ELSE 1]
       /\ \E row \in {first, [status |-> "draft", version |-> 0, content |-> 1]} :
            legacy = [k \in Keys |-> IF k = FirstKey THEN row ELSE NoConfiguration]
  /\ enabled = Keys
  /\ \E visited \in SUBSET {p \in Pages : revisions[1].status = "published" /\ p \in allowed[FirstKey]} :
       /\ observed = {FirstKey} \X visited
       /\ cached = [p \in Pages |-> IF p \in visited
                                     THEN [key |-> FirstKey, body |-> Body(revisions[1])]
                                     ELSE None]
  /\ request = [r \in Requests |-> Idle]
  /\ window = [r \in Requests |-> Unseen]
  /\ changes = 0

(* No request is under way: the bounds end the instance here.              *)
Finished == (\A r \in Requests : ~IsOpen(r)) /\ UNCHANGED vars

Next == \/ (Owners \/ \E r \in Requests : Step(r)) /\ window' = Watched
        \/ Finished

Spec == Init /\ [][Next]_vars

-----------------------------------------------------------------------------
(* Properties.                                                             *)

Answered(r, answers) == request[r].phase = "done" /\ request[r].answer \in answers

NeededFor(r) ==
  CASE Asks(r, "preflight") -> Facts \ {"published"}
    [] OTHER -> Facts

(* Whoever is let in was entitled to it, the configuration it was given    *)
(* being the widget's at some moment of its request.                       *)
AdmissionIsJust(r) ==
  Answered(r, {"served", "not_modified", "allowed", "created"}) =>
    /\ NeededFor(r) \subseteq window[r].held
    /\ request[r].body # None => request[r].body \in window[r].bodies

(* The fact a refusal names failed at some moment of the request.  A       *)
(* failure inside is another first visit at the same time, nothing else.   *)
RefusalIsJust(r) ==
  LET lapsed == window[r].lapsed
  IN /\ Answered(r, {"invalid_widget"}) => "enabled" \in lapsed
     /\ Answered(r, {"invalid_credential"}) => "credential" \in lapsed
     /\ Answered(r, {"disabled_credential", "invalid_session"}) =>
          lapsed \cap ({"credential"} \cup Tenants) # {}
     /\ Answered(r, {"widget_not_published"}) => "published" \in lapsed
     /\ Answered(r, {"origin_refused", "origin_not_allowed"}) => "origin" \in lapsed
     /\ Answered(r, {"safe_internal_error"}) =>
          /\ window[r].unobserved
          /\ \E q \in Requests \ {r} :
               /\ Answered(q, {"served"})
               /\ request[q].key = request[r].key /\ request[q].page = request[r].page

(* Nobody is let in or turned away for a reason that was never true while  *)
(* the request ran, although its facts are read one after another, the     *)
(* configuration in three statements, and owners change them in between.   *)
AnswersAreJust == \A r \in Requests : AdmissionIsJust(r) /\ RefusalIsJust(r)

(* A browser told that nothing has changed holds a configuration that was  *)
(* the widget's during its request, whichever API has written it since.    *)
NotModifiedIsTrue ==
  \A r \in Requests :
    Answered(r, {"not_modified"}) => request[r].tag.body \in window[r].bodies

(* The installation of a page that was given the configuration under a     *)
(* listed origin is known, also when later visits find nothing new.        *)
VisitsAreObserved ==
  \A r \in Requests :
    Answered(r, {"served"}) =>
      window[r].unlisted \/ <<request[r].key, request[r].page>> \in observed

(* What a publication says never changes ("Published revisions remain      *)
(* immutable", the release checklist).                                     *)
PublishedRevisionsStay ==
  [][\A n \in 1 .. MaxRevision :
       revisions[n].status = "published" => revisions'[n] = revisions[n]]_vars
=============================================================================
