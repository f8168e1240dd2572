------------------------------- MODULE Prompts -------------------------------
(***************************************************************************)
(* Layered prompts: the review of versions, their deployment to a widget   *)
(* or to the whole platform, rollback, the seeding of the platform's own   *)
(* template, experiments, and the resolution of what a widget's requests   *)
(* are answered with, through a cache that every process keeps.            *)
(*                                                                         *)
(* A request runs in a thread of a process.  Threads interleave at their   *)
(* database statements: a row is read without a lock, a decision is taken  *)
(* on it, and the commit later writes the columns the handler has changed, *)
(* and those only.  A process may restart, which loses its cache and the   *)
(* requests it was serving.  Tick is the passing of time; TTL of them are  *)
(* the cache's 30 seconds.                                                 *)
(***************************************************************************)
EXTENDS Integers, Sequences, FiniteSets

CONSTANTS
  Versions,          \* prompt versions, the platform's among them
  PlatformVersions,  \* versions of the platform_core layer
  Widgets, Platform, \* where a version is deployed
  Keys,              \* scopes a prompt is resolved for: a widget's, or the platform's alone
  Processes, Threads,
  Home,              \* the process of a thread
  Experiments,
  TTL,               \* _CACHE_TTL_SECONDS, in ticks
  MaxRows,           \* bound: deployment rows of a scope
  None

Scopes == Widgets \cup {Platform}

ASSUME PromptsAssumption ==
  /\ PlatformVersions \subseteq Versions
  /\ Keys \subseteq Scopes
  /\ Home \in [Threads -> Processes]
  /\ TTL \in Nat \ {0} /\ MaxRows \in Nat \ {0}
  /\ None \notin Versions \cup Threads
  /\ Platform \notin Widgets

VARIABLES
  versions,     \* prompt_versions: their status
  seeds,        \* platform_core templates, each named by the version it was seeded with
  deployments,  \* prompt_deployments of a scope: the active and the previous version
  experiments,  \* prompt_experiments
  cache,        \* _deployment_cache of a process
  threads,      \* the requests being served
  approved,     \* history: versions a reviewer approved, or seeded
  left,         \* history: ticks since a version was last active in a scope
  killed        \* history: experiments someone killed

vars == <<versions, seeds, deployments, experiments, cache, threads, approved, left, killed>>

Statuses == {"draft", "under_evaluation", "approved", "active", "superseded",
             "rolled_back", "rejected"}
Deployed == Versions \cup {None}
Row      == [active : Versions, previous : Deployed]
Found    == [platform : Deployed, widget : Deployed, age : 0 .. TTL]
Timing   == [status : {"draft", "running", "completed", "killed"}, end : {"unset", "ahead", "past"}]
Request  ==
  [op : {"transition"}, version : Versions, to : Statuses]
    \cup [op : {"seed"}, at : {"template", "seeded"}, version : Deployed]
    \cup [op : {"deploy"}, at : {"find", "write", "written"}, scope : Scopes, version : Versions,
          row : 0 .. MaxRows, seen : Row \cup {None}, supersedes : BOOLEAN]
    \cup [op : {"rollback"}, at : {"write", "written"}, scope : Scopes, row : 1 .. MaxRows,
          seen : Row, failed : Statuses, restored : Statuses]
    \cup [op : {"resolve"}, at : {"platform", "widget", "store"}, scope : Scopes, found : Found]
    \cup [op : {"start", "kill", "complete"}, experiment : Experiments, seen : Timing]
Experiment == [timing : Timing, limited : BOOLEAN, gate : {"pending", "passed", "failed"}]

ASSUME NoneAssumption == None \notin Row \cup Found \cup Request \cup Experiment

TypeOK ==
  /\ versions \in [Versions -> Statuses \cup {"absent"}]
  /\ seeds \subseteq PlatformVersions
  /\ deployments \in [Scopes -> Seq(Row)]
  /\ experiments \in [Experiments -> Experiment \cup {None}]
  /\ cache \in [Processes -> [Keys -> Found \cup {None}]]
  /\ threads \in [Threads -> Request \cup {None}]
  /\ approved \subseteq Versions
  /\ left \in [Scopes -> [Deployed -> 0 .. TTL]]
  /\ killed \subseteq Experiments

-----------------------------------------------------------------------------
(* Requests, and columns written only when they have changed.              *)

Idle(t)           == threads[t] = None
At(t, op, at)     == ~Idle(t) /\ threads[t].op = op /\ threads[t].at = at
Serve(t, request) == threads' = [threads EXCEPT ![t] = request]
Done(t)           == threads' = [threads EXCEPT ![t] = None]

\* The column's value after a commit that sets new on an object loaded with seen.
Written(new, seen, now) == IF new = seen THEN now ELSE new

LayerOf(v, s) == (v \in PlatformVersions) <=> (s = Platform)

\* What a lookup of the scope's deployments may have found.
Current(rows) == IF rows = <<>> THEN {None} ELSE {rows[i].active : i \in DOMAIN rows}

Redeploy(s, rows) ==
  /\ deployments' = [deployments EXCEPT ![s] = rows]
  /\ left' = [left EXCEPT ![s] = [v \in Deployed |-> IF v \in Current(rows) THEN 0 ELSE @[v]]]

\* invalidate_cache: this process' entries of the widget and of no widget; all, for the platform.
Invalidate(p, s) ==
  cache' = [cache EXCEPT ![p] = [k \in Keys |-> IF s = Platform \/ k \in {s, Platform} THEN None ELSE @[k]]]

-----------------------------------------------------------------------------
(* Versions and their review.                                              *)

CreateVersion(v) ==
  /\ versions[v] = "absent"
  /\ v \in PlatformVersions => seeds # {}
  /\ versions' = [versions EXCEPT ![v] = "draft"]
  /\ UNCHANGED <<seeds, deployments, experiments, cache, threads, approved, left, killed>>

PreDeployTransitions ==
  {<<"draft", "under_evaluation">>, <<"under_evaluation", "approved">>,
   <<"under_evaluation", "rejected">>, <<"under_evaluation", "draft">>, <<"approved", "rejected">>}

AskTransition(t, v) ==
  /\ Idle(t)
  /\ \E to \in Statuses :
       /\ <<versions[v], to>> \in PreDeployTransitions
       /\ Serve(t, [op |-> "transition", version |-> v, to |-> to])
  /\ UNCHANGED <<versions, seeds, deployments, experiments, cache, approved, left, killed>>

CommitTransition(t) ==
  /\ ~Idle(t) /\ threads[t].op = "transition"
  /\ versions' = [versions EXCEPT ![threads[t].version] = threads[t].to]
  /\ approved' = approved \cup {v \in {threads[t].version} : threads[t].to = "approved"}
  /\ Done(t)
  /\ UNCHANGED <<seeds, deployments, experiments, cache, left, killed>>

\* Listing the templates seeds the platform's, unless there is one; two make the lookup raise.
AskTemplates(t) ==
  /\ Idle(t) /\ seeds = {}
  /\ Serve(t, [op |-> "seed", at |-> "template", version |-> None])
  /\ UNCHANGED <<versions, seeds, deployments, experiments, cache, approved, left, killed>>

SeedTemplate(t) ==
  /\ At(t, "seed", "template")
  /\ \E v \in PlatformVersions :
       /\ versions[v] = "absent"
       /\ versions' = [versions EXCEPT ![v] = "approved"]
       /\ seeds' = seeds \cup {v}
       /\ approved' = approved \cup {v}
       /\ Serve(t, [op |-> "seed", at |-> "seeded", version |-> v])
  /\ UNCHANGED <<deployments, experiments, cache, left, killed>>

-----------------------------------------------------------------------------
(* Deploying and rolling back.                                             *)

Deploy(s, v) == [op |-> "deploy", at |-> "find", scope |-> s, version |-> v,
                 row |-> 0, seen |-> None, supersedes |-> FALSE]

DeployableUnreviewed(v) == versions[v] \in {"approved", "under_evaluation"}

Deployable(v) == versions[v] = "approved"

AskDeployment(t, s, v) ==
  /\ Idle(t) /\ LayerOf(v, s) /\ Deployable(v)
  /\ Serve(t, Deploy(s, v))
  /\ UNCHANGED <<versions, seeds, deployments, experiments, cache, approved, left, killed>>

DeploySeed(t) ==
  /\ At(t, "seed", "seeded")
  /\ IF Deployable(threads[t].version)
       THEN Serve(t, Deploy(Platform, threads[t].version))
       ELSE Done(t)
  /\ UNCHANGED <<versions, seeds, deployments, experiments, cache, approved, left, killed>>

\* get_active_deployment: two rows of one scope make it raise.
FindDeployment(t) ==
  LET s == threads[t].scope  rows == deployments[threads[t].scope] IN
  /\ At(t, "deploy", "find")
  /\ \/ /\ rows = <<>>
        /\ threads' = [threads EXCEPT ![t].at = "write"]
     \/ /\ Len(rows) = 1
        /\ threads' = [threads EXCEPT
             ![t].at = "write", ![t].row = 1, ![t].seen = rows[1],
             ![t].supersedes = versions[rows[1].active] = "active"]
     \/ /\ Len(rows) > 1
        /\ Done(t)
  /\ UNCHANGED <<versions, seeds, deployments, experiments, cache, approved, left, killed>>

CommitDeployment(t) ==
  LET r == threads[t]  rows == deployments[threads[t].scope] IN
  /\ At(t, "deploy", "write")
  /\ \/ /\ r.row = 0 /\ Len(rows) < MaxRows
        /\ Redeploy(r.scope, Append(rows, [active |-> r.version, previous |-> None]))
        /\ versions' = [versions EXCEPT ![r.version] = "active"]
     \/ /\ r.row > 0
        /\ Redeploy(r.scope, [rows EXCEPT
             ![r.row].active = Written(r.version, r.seen.active, @),
             ![r.row].previous = Written(r.seen.active, r.seen.previous, @)])
        /\ versions' = [v \in Versions |->
             IF v = r.version THEN "active"
             ELSE IF v = r.seen.active /\ r.supersedes THEN "superseded" ELSE versions[v]]
  /\ threads' = [threads EXCEPT ![t].at = "written"]
  /\ UNCHANGED <<seeds, experiments, cache, approved, killed>>

AskRollback(t, s) ==
  /\ Idle(t)
  /\ \E i \in DOMAIN deployments[s] :
       LET row == deployments[s][i] IN
       /\ row.previous # None
       /\ Serve(t, [op |-> "rollback", at |-> "write", scope |-> s, row |-> i, seen |-> row,
                    failed |-> versions[row.active], restored |-> versions[row.previous]])
  /\ UNCHANGED <<versions, seeds, deployments, experiments, cache, approved, left, killed>>

CommitRollback(t) ==
  LET r == threads[t]  old == threads[t].seen  rows == deployments[threads[t].scope] IN
  /\ At(t, "rollback", "write")
  /\ Redeploy(r.scope, [rows EXCEPT
       ![r.row].active = Written(old.previous, old.active, @),
       ![r.row].previous = Written(old.active, old.previous, @)])
  /\ versions' = [v \in Versions |->
       CASE v = old.previous -> Written("active", r.restored, versions[v])
         [] v = old.active /\ v # old.previous -> Written("rolled_back", r.failed, versions[v])
         [] OTHER -> versions[v]]
  /\ threads' = [threads EXCEPT ![t].at = "written"]
  /\ UNCHANGED <<seeds, experiments, cache, approved, killed>>

InvalidateCache(t) ==
  /\ At(t, "deploy", "written") \/ At(t, "rollback", "written")
  /\ Invalidate(Home[t], threads[t].scope)
  /\ Done(t)
  /\ UNCHANGED <<versions, seeds, deployments, experiments, approved, left, killed>>

-----------------------------------------------------------------------------
(* Resolving the prompt of a request; a cached answer takes no step.       *)

Valid(entry) == entry # None /\ entry.age < TTL

Resolve(t, s) ==
  /\ Idle(t) /\ ~Valid(cache[Home[t]][s])
  /\ Serve(t, [op |-> "resolve", at |-> "platform", scope |-> s,
               found |-> [platform |-> None, widget |-> None, age |-> 0]])
  /\ UNCHANGED <<versions, seeds, deployments, experiments, cache, approved, left, killed>>

\* Two platform rows make the lookup raise: the caller falls back to the code's default.
ReadPlatform(t) ==
  LET rows == deployments[Platform] IN
  /\ At(t, "resolve", "platform")
  /\ IF Len(rows) > 1
       THEN Done(t)
       ELSE \E v \in Current(rows) :
              threads' = [threads EXCEPT ![t].found.platform = v,
                ![t].at = IF threads[t].scope = Platform THEN "store" ELSE "widget"]
  /\ UNCHANGED <<versions, seeds, deployments, experiments, cache, approved, left, killed>>

\* Of two rows, the last one wins, in an order the query does not fix.
ReadWidget(t) ==
  /\ At(t, "resolve", "widget")
  /\ \E v \in Current(deployments[threads[t].scope]) :
       threads' = [threads EXCEPT ![t].found.widget = v, ![t].at = "store"]
  /\ UNCHANGED <<versions, seeds, deployments, experiments, cache, approved, left, killed>>

StoreAsOfNow(t) ==
  /\ At(t, "resolve", "store")
  /\ cache' = [cache EXCEPT ![Home[t]][threads[t].scope] = [threads[t].found EXCEPT !.age = 0]]
  /\ Done(t)
  /\ UNCHANGED <<versions, seeds, deployments, experiments, approved, left, killed>>

\* The entry bears the time at which the lookup began.
Store(t) ==
  /\ At(t, "resolve", "store")
  /\ cache' = [cache EXCEPT ![Home[t]][threads[t].scope] = threads[t].found]
  /\ Done(t)
  /\ UNCHANGED <<versions, seeds, deployments, experiments, approved, left, killed>>

-----------------------------------------------------------------------------
(* Experiments.                                                            *)

Live(e) ==
  /\ experiments[e] # None
  /\ experiments[e].timing.status = "running"
  /\ experiments[e].timing.end # "past"

\* limited: with a max_duration_hours.
CreateExperiment(e) ==
  /\ experiments[e] = None
  /\ \E limited \in BOOLEAN : experiments' = [experiments EXCEPT
       ![e] = [timing |-> [status |-> "draft", end |-> "unset"], limited |-> limited, gate |-> "pending"]]
  /\ UNCHANGED <<versions, seeds, deployments, cache, threads, approved, left, killed>>

\* No endpoint records a result: only a caller of the repository does.
RecordGate(e) ==
  /\ experiments[e] # None
  /\ \E result \in {"passed", "failed"} :
       experiments' = [experiments EXCEPT ![e].gate = result]
  /\ UNCHANGED <<versions, seeds, deployments, cache, threads, approved, left, killed>>

AskExperiment(t, e, op) ==
  /\ Idle(t) /\ experiments[e] # None
  /\ op = "start" => experiments[e].gate = "passed"
  /\ Serve(t, [op |-> op, experiment |-> e, seen |-> experiments[e].timing])
  /\ UNCHANGED <<versions, seeds, deployments, experiments, cache, approved, left, killed>>

Write(e, seen, status, end) ==
  experiments' = [experiments EXCEPT
    ![e].timing.status = Written(status, seen.status, @),
    ![e].timing.end = Written(end, seen.end, @)]

CommitStart(t) ==
  LET e == threads[t].experiment  seen == threads[t].seen IN
  /\ ~Idle(t) /\ threads[t].op = "start"
  /\ Write(e, seen, "running", IF seen.end = "unset" /\ experiments[e].limited THEN "ahead" ELSE seen.end)
  /\ Done(t)
  /\ UNCHANGED <<versions, seeds, deployments, cache, approved, left, killed>>

CommitKillWithoutAnEnd(t) ==
  LET e == threads[t].experiment IN
  /\ ~Idle(t) /\ threads[t].op = "kill"
  /\ Write(e, threads[t].seen, "killed", threads[t].seen.end)
  /\ killed' = killed \cup {e}
  /\ Done(t)
  /\ UNCHANGED <<versions, seeds, deployments, cache, approved, left>>

CommitKill(t) ==
  LET e == threads[t].experiment IN
  /\ ~Idle(t) /\ threads[t].op = "kill"
  /\ experiments' = [experiments EXCEPT
       ![e].timing.status = Written("killed", threads[t].seen.status, @),
       ![e].timing.end = "past"]
  /\ killed' = killed \cup {e}
  /\ Done(t)
  /\ UNCHANGED <<versions, seeds, deployments, cache, approved, left>>

CommitComplete(t) ==
  LET e == threads[t].experiment  seen == threads[t].seen IN
  /\ ~Idle(t) /\ threads[t].op = "complete"
  /\ Write(e, seen, "completed", IF seen.end = "unset" THEN "past" ELSE seen.end)
  /\ Done(t)
  /\ UNCHANGED <<versions, seeds, deployments, cache, approved, left, killed>>

Expire(e) ==
  /\ experiments[e] # None /\ experiments[e].timing.end = "ahead"
  /\ experiments' = [experiments EXCEPT ![e].timing.end = "past"]
  /\ UNCHANGED <<versions, seeds, deployments, cache, threads, approved, left, killed>>

-----------------------------------------------------------------------------
(* Time, and processes that restart.                                       *)

\* An entry past its time is never served: it is as good as none.
Older(age) == IF age < TTL THEN age + 1 ELSE TTL

Tick ==
  /\ cache' = [p \in Processes |-> [k \in Keys |->
       IF Valid(cache[p][k]) THEN [cache[p][k] EXCEPT !.age = Older(@)] ELSE None]]
  /\ threads' = [t \in Threads |->
       IF ~Idle(t) /\ threads[t].op = "resolve"
         THEN [threads[t] EXCEPT !.found.age = Older(@)] ELSE threads[t]]
  /\ left' = [s \in Scopes |-> [v \in Deployed |->
       IF v \in Current(deployments[s]) THEN 0 ELSE Older(left[s][v])]]
  /\ UNCHANGED <<versions, seeds, deployments, experiments, approved, killed>>

Restart(p) ==
  /\ cache' = [cache EXCEPT ![p] = [k \in Keys |-> None]]
  /\ threads' = [t \in Threads |-> IF Home[t] = p THEN None ELSE threads[t]]
  /\ UNCHANGED <<versions, seeds, deployments, experiments, approved, left, killed>>

Init ==
  /\ versions = [v \in Versions |-> "absent"]
  /\ seeds = {}
  /\ deployments = [s \in Scopes |-> <<>>]
  /\ experiments = [e \in Experiments |-> None]
  /\ cache = [p \in Processes |-> [k \in Keys |-> None]]
  /\ threads = [t \in Threads |-> None]
  /\ approved = {}
  /\ left = [s \in Scopes |-> [v \in Deployed |-> IF v = None THEN 0 ELSE TTL]]
  /\ killed = {}

Step(t) ==
  \/ \E v \in Versions : AskTransition(t, v)
  \/ CommitTransition(t)
  \/ AskTemplates(t) \/ SeedTemplate(t) \/ DeploySeed(t)
  \/ \E s \in Scopes, v \in Versions : AskDeployment(t, s, v)
  \/ FindDeployment(t) \/ CommitDeployment(t)
  \/ \E s \in Scopes : AskRollback(t, s)
  \/ CommitRollback(t) \/ InvalidateCache(t)
  \/ \E s \in Keys : Resolve(t, s)
  \/ ReadPlatform(t) \/ ReadWidget(t) \/ Store(t)
  \/ \E e \in Experiments, op \in {"start", "kill", "complete"} : AskExperiment(t, e, op)
  \/ CommitStart(t) \/ CommitKill(t) \/ CommitComplete(t)

Next ==
  \/ \E t \in Threads : Step(t)
  \/ \E v \in Versions : CreateVersion(v)
  \/ \E e \in Experiments : CreateExperiment(e) \/ RecordGate(e) \/ Expire(e)
  \/ \E p \in Processes : Restart(p)
  \/ Tick

Spec == Init /\ [][Next]_vars

-----------------------------------------------------------------------------
(* Properties.                                                             *)

\* The review cannot be passed by on the way to a deployment: whatever one names,
\* to serve or to roll back to, and whatever a cache still holds of one, was
\* approved once, however transitions, deployments and rollbacks overlap
\* (prompt_repository.py:434).  It does not speak of what a request is answered
\* with beside the deployments: a live experiment puts its control or candidate
\* version in their place (resolution.py:112), whose approval neither its
\* creation nor its start checks, and so does an explicit override.
OnlyReviewedIsDeployed ==
  /\ \A s \in Scopes : \A i \in DOMAIN deployments[s] :
       {deployments[s][i].active, deployments[s][i].previous} \subseteq approved \cup {None}
  /\ \A p \in Processes, k \in Keys :
       cache[p][k] # None => {cache[p][k].platform, cache[p][k].widget} \subseteq approved \cup {None}

\* A process serves no mapping that ceased to hold more than the TTL ago, though
\* no invalidation reaches another process, nor a lookup under way in its own
\* (resolution.py:192): what a valid entry maps a scope to was deployed there
\* at some moment since the entry's time.
ServedWithinTTL ==
  \A p \in Processes, k \in Keys :
    Valid(cache[p][k]) =>
      /\ left[Platform][cache[p][k].platform] <= cache[p][k].age
      /\ k # Platform => left[k][cache[p][k].widget] <= cache[p][k].age

\* A killed experiment takes no more traffic, even if it is started again or a
\* start overtakes the kill (prompt_repository.py:598), as long as it was
\* created without a duration.
KilledStaysDead == \A e \in killed : ~experiments[e].limited => ~Live(e)
=============================================================================
