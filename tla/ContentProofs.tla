--------------------------- MODULE ContentProofs ----------------------------
(***************************************************************************)
(* Theorems about what the assistants answer with: prompt versions         *)
(* (Prompts), with the inductive invariant PInv; documents (Documents),    *)
(* with DInv; and the answers made from both (Answers), with AInv and, for *)
(* the decision whether to answer, RightInv.                               *)
(***************************************************************************)
EXTENDS Prompts, Library, Answering, FiniteSetTheorems, SequenceTheorems, WellFoundedInduction, TLAPS

(***************************************************************************)
(* Prompts, for every number of versions, widgets, processes, threads and  *)
(* experiments, and every TTL.                                             *)
(*                                                                         *)
(* A request works on what it has read, so the invariant says what of that *)
(* is still true when it commits (ThreadHolds): a version it deploys or    *)
(* rolls back to was approved, rows are only added, and what a lookup      *)
(* found ceased to be deployed no longer ago than the lookup began.        *)
(***************************************************************************)
Serving(t, ops) == ~Idle(t) /\ threads[t].op \in ops
Experimenting(t) == Serving(t, {"start", "kill", "complete"})

\* What is deployed goes on from a version that was approved.
DeploymentHolds(t) ==
  /\ threads[t].version \in approved
  /\ threads[t].row > 0 =>
       /\ threads[t].row \in DOMAIN deployments[threads[t].scope]
       /\ threads[t].seen \in Row /\ threads[t].seen.active \in approved

RollbackHolds(t) ==
  /\ threads[t].row \in DOMAIN deployments[threads[t].scope]
  /\ {threads[t].seen.active, threads[t].seen.previous} \subseteq approved

\* What a lookup has found is no older than the lookup.
LookupHolds(t) ==
  LET found == threads[t].found  s == threads[t].scope IN
  /\ {found.platform, found.widget} \subseteq approved \cup {None}
  /\ threads[t].at \in {"widget", "store"} => left[Platform][found.platform] <= found.age
  /\ threads[t].at = "store" /\ s # Platform => left[s][found.widget] <= found.age

ThreadHolds(t) ==
  /\ At(t, "seed", "seeded") => threads[t].version \in approved
  /\ Serving(t, {"deploy"}) => DeploymentHolds(t)
  /\ Serving(t, {"rollback"}) => RollbackHolds(t)
  /\ Serving(t, {"resolve"}) => LookupHolds(t)
  /\ Experimenting(t) => experiments[threads[t].experiment] # None

VersionHolds(v) ==
  /\ versions[v] = "approved" => v \in approved
  /\ v \in approved => versions[v] # "absent"

ScopeHolds(s) ==
  /\ Len(deployments[s]) <= MaxRows
  /\ \A i \in DOMAIN deployments[s] :
       /\ deployments[s][i].active \in approved
       /\ deployments[s][i].previous \in approved \cup {None}
  /\ \A v \in Current(deployments[s]) : left[s][v] = 0

EntryHolds(p, k) ==
  /\ cache[p][k] # None => {cache[p][k].platform, cache[p][k].widget} \subseteq approved \cup {None}
  /\ Valid(cache[p][k]) =>
       /\ left[Platform][cache[p][k].platform] <= cache[p][k].age
       /\ k # Platform => left[k][cache[p][k].widget] <= cache[p][k].age

\* The end a kill has set is never taken back from an experiment without a duration.
ExperimentHolds(e) ==
  e \in killed =>
    /\ experiments[e] # None
    /\ ~experiments[e].limited => experiments[e].timing.end = "past"

PInv ==
  /\ TypeOK
  /\ \A t \in Threads : ThreadHolds(t)
  /\ \A v \in Versions : VersionHolds(v)
  /\ \A s \in Scopes : ScopeHolds(s)
  /\ \A p \in Processes, k \in Keys : EntryHolds(p, k)
  /\ \A e \in Experiments : ExperimentHolds(e)

-----------------------------------------------------------------------------
(* What the helpers return.                                                *)

\* What the type invariant says of a thread that is served.
LEMMA Shapes ==
  ASSUME TypeOK, NEW t \in Threads
  PROVE  /\ ~Idle(t) => threads[t] \in Request
         /\ Serving(t, {"transition"}) =>
              threads[t] \in [op : {"transition"}, version : Versions, to : Statuses]
         /\ Serving(t, {"seed"}) =>
              threads[t] \in [op : {"seed"}, at : {"template", "seeded"}, version : Deployed]
         /\ Serving(t, {"deploy"}) =>
              threads[t] \in [op : {"deploy"}, at : {"find", "write", "written"}, scope : Scopes,
                version : Versions, row : 0 .. MaxRows, seen : Row \cup {None}, supersedes : BOOLEAN]
         /\ Serving(t, {"rollback"}) =>
              threads[t] \in [op : {"rollback"}, at : {"write", "written"}, scope : Scopes,
                row : 1 .. MaxRows, seen : Row, failed : Statuses, restored : Statuses]
         /\ Serving(t, {"resolve"}) =>
              threads[t] \in [op : {"resolve"}, at : {"platform", "widget", "store"},
                scope : Scopes, found : Found]
         /\ Experimenting(t) =>
              threads[t] \in [op : {"start", "kill", "complete"}, experiment : Experiments, seen : Timing]
<1>1. ~Idle(t) => threads[t] \in Request
  BY DEF TypeOK, Idle
<1> QED BY <1>1 DEF Serving, Experimenting, Request

LEMMA ServingAt ==
  ASSUME NEW t \in Threads, NEW op, NEW at, At(t, op, at)
  PROVE  Serving(t, {op}) /\ threads[t].op = op /\ threads[t].at = at /\ ~Idle(t)
  BY DEF At, Serving

LEMMA IsSequence ==
  ASSUME NEW S, NEW n \in Nat, NEW f \in [1 .. n -> S]
  PROVE  f \in Seq(S) /\ Len(f) = n
  OBVIOUS

Replace(rows, i, a, b) == [rows EXCEPT ![i].active = a, ![i].previous = b]

\* Rows keep their number when one of them is changed.
LEMMA Replaced ==
  ASSUME NEW rows \in Seq(Row), NEW i \in DOMAIN rows, NEW a \in Versions, NEW b \in Deployed
  PROVE  /\ Replace(rows, i, a, b) \in Seq(Row)
         /\ Len(Replace(rows, i, a, b)) = Len(rows)
         /\ DOMAIN Replace(rows, i, a, b) = DOMAIN rows
         /\ Replace(rows, i, a, b)[i] = [active |-> a, previous |-> b]
         /\ \A j \in DOMAIN rows \ {i} : Replace(rows, i, a, b)[j] = rows[j]
<1> DEFINE new == Replace(rows, i, a, b)
<1>1. rows[i] \in Row /\ rows \in [1 .. Len(rows) -> Row] /\ Len(rows) \in Nat
  OBVIOUS
<1> DEFINE m == [active |-> a, previous |-> rows[i].previous]
           r == [[rows[i] EXCEPT !.active = a] EXCEPT !.previous = b]
<1>2. r = [active |-> a, previous |-> b]
  <2>1. [rows[i] EXCEPT !.active = a] = m
    BY <1>1 DEF Row
  <2>2. [m EXCEPT !.previous = b] = [active |-> a, previous |-> b]
    OBVIOUS
  <2> QED BY <2>1, <2>2
<1>3. r \in Row
  BY <1>2 DEF Row
<1>4. new = [rows EXCEPT ![i] = r]
  BY <1>1 DEF Replace
<1>5. new \in [1 .. Len(rows) -> Row]
  BY <1>1, <1>3, <1>4
<1>6. new \in Seq(Row) /\ Len(new) = Len(rows)
  BY <1>1, <1>5, IsSequence
<1> QED BY <1>1, <1>2, <1>4, <1>6

First(rows, v) == Append(rows, [active |-> v, previous |-> None])

\* A row more, of the version that is deployed.
LEMMA Appended ==
  ASSUME NEW rows \in Seq(Row), NEW v \in Versions
  PROVE  /\ First(rows, v) \in Seq(Row) /\ Len(First(rows, v)) = Len(rows) + 1
         /\ DOMAIN rows \subseteq DOMAIN First(rows, v)
         /\ \A j \in DOMAIN First(rows, v) :
              \/ First(rows, v)[j] = [active |-> v, previous |-> None]
              \/ j \in DOMAIN rows /\ First(rows, v)[j] = rows[j]
<1> DEFINE e == [active |-> v, previous |-> None]
           new == First(rows, v)
<1>1. e \in Row
  BY DEF Row, Deployed
<1> HIDE DEF e
<1>2. new \in Seq(Row) /\ Len(new) = Len(rows) + 1 /\ new[Len(new)] = e
  BY <1>1 DEF e, First
<1>3. \A j \in 1 .. Len(rows) : new[j] = rows[j]
  BY <1>1 DEF e, First
<1> QED BY <1>2, <1>3 DEF e

\* Ages grow together.
LEMMA OlderKeeps ==
  ASSUME NEW a \in 0 .. TTL, NEW b \in 0 .. TTL
  PROVE  /\ Older(a) \in 0 .. TTL
         /\ a <= b => Older(a) <= Older(b)
  BY PromptsAssumption DEF Older

LEMMA Consts ==
  /\ TTL \in Nat \ {0} /\ MaxRows \in Nat \ {0} /\ None \notin Versions
  /\ Versions \subseteq Deployed /\ None \in Deployed
  /\ Platform \in Scopes /\ Keys \subseteq Scopes /\ Home \in [Threads -> Processes]
  /\ PlatformVersions \subseteq Versions
  BY PromptsAssumption DEF Deployed, Scopes

-----------------------------------------------------------------------------
(* Frames: what one thread's step leaves to the others.                    *)

\* The thread t becomes work, the others stay.
Turns(t, work) ==
  /\ threads' \in [Threads -> Request \cup {None}]
  /\ threads'[t] = work
  /\ \A u \in Threads \ {t} : threads'[u] = threads[u]

LEMMA ServeTurns ==
  ASSUME TypeOK, NEW t \in Threads, NEW work \in Request \cup {None},
         Serve(t, work) \/ (Done(t) /\ work = None)
  PROVE  Turns(t, work)
  BY DEF TypeOK, Serve, Done, Turns

\* Reviews are not undone, rows are added, what is deployed anew is deployed
\* now, and experiments stay.
Advances ==
  /\ approved \subseteq approved'
  /\ \A s \in Scopes : DOMAIN deployments[s] \subseteq DOMAIN deployments'[s]
  /\ \A s \in Scopes, v \in Deployed : left'[s][v] <= left[s][v]
  /\ \A e \in Experiments : experiments[e] # None => experiments'[e] # None

LEMMA ThreadStays ==
  ASSUME TypeOK, TypeOK', Advances, NEW t \in Threads, threads'[t] = threads[t], ThreadHolds(t)
  PROVE  ThreadHolds(t)'
<1>1. At(t, "seed", "seeded")' => threads'[t].version \in approved'
  BY DEF ThreadHolds, At, Idle, Advances
<1>2. Serving(t, {"deploy"})' => DeploymentHolds(t)'
  <2>1. Serving(t, {"deploy"})' => Serving(t, {"deploy"}) /\ threads[t].scope \in Scopes
    BY Shapes DEF Serving, Idle
  <2> QED BY <2>1 DEF ThreadHolds, DeploymentHolds, Advances
<1>3. Serving(t, {"rollback"})' => RollbackHolds(t)'
  <2>1. Serving(t, {"rollback"})' => Serving(t, {"rollback"}) /\ threads[t].scope \in Scopes
    BY Shapes DEF Serving, Idle
  <2> QED BY <2>1 DEF ThreadHolds, RollbackHolds, Advances
<1>4. Serving(t, {"resolve"})' => LookupHolds(t)'
  <2> SUFFICES ASSUME Serving(t, {"resolve"})' PROVE LookupHolds(t)'
    OBVIOUS
  <2> DEFINE found == threads[t].found
             s == threads[t].scope
  <2>1. Serving(t, {"resolve"})
    BY DEF Serving, Idle
  <2>2. LookupHolds(t) /\ found \in Found /\ s \in Scopes
    BY <2>1, Shapes DEF ThreadHolds
  <2>3. found.platform \in Deployed /\ found.widget \in Deployed /\ found.age \in 0 .. TTL
    BY <2>2 DEF Found
  <2>4. \A q \in Scopes, v \in Deployed :
          left[q][v] \in Int /\ left'[q][v] \in Int /\ left'[q][v] <= left[q][v]
    BY DEF TypeOK, Advances
  <2>5. found.age \in Int /\ Platform \in Scopes
    BY <2>3, Consts
  <2> HIDE DEF found, s
  <2>6. /\ left[Platform][found.platform] <= found.age => left'[Platform][found.platform] <= found.age
        /\ left[s][found.widget] <= found.age => left'[s][found.widget] <= found.age
    BY <2>2, <2>3, <2>4, <2>5
  <2> QED BY <2>2, <2>6 DEF LookupHolds, Advances, found, s
<1>5. Experimenting(t)' => experiments'[threads'[t].experiment] # None
  <2>1. Experimenting(t)' => Experimenting(t) /\ threads[t].experiment \in Experiments
    BY Shapes DEF Serving, Idle, Experimenting
  <2> QED BY <2>1 DEF ThreadHolds, Advances
<1> QED BY <1>1, <1>2, <1>3, <1>4, <1>5 DEF ThreadHolds

\* A cache's entry that stays is as good as it was.
LEMMA EntryStays ==
  ASSUME TypeOK, TypeOK', Advances, NEW p \in Processes, NEW k \in Keys,
         cache'[p][k] = cache[p][k], EntryHolds(p, k)
  PROVE  EntryHolds(p, k)'
<1> DEFINE found == cache[p][k]
<1>1. CASE found = None
  BY <1>1 DEF EntryHolds, Valid
<1>2. CASE found # None
  <2>1. found \in Found
    BY <1>2 DEF TypeOK
  <2>2. found.platform \in Deployed /\ found.widget \in Deployed /\ found.age \in 0 .. TTL
    BY <2>1 DEF Found
  <2>3. \A q \in Scopes, v \in Deployed :
          left[q][v] \in Int /\ left'[q][v] \in Int /\ left'[q][v] <= left[q][v]
    BY DEF TypeOK, Advances
  <2>4. found.age \in Int /\ Platform \in Scopes /\ k \in Scopes
    BY <2>2, Consts
  <2> HIDE DEF found
  <2>5. /\ left[Platform][found.platform] <= found.age => left'[Platform][found.platform] <= found.age
        /\ left[k][found.widget] <= found.age => left'[k][found.widget] <= found.age
    BY <2>2, <2>3, <2>4
  <2> QED BY <2>5 DEF EntryHolds, Valid, Advances, found
<1> QED BY <1>1, <1>2

\* A step of t that changes the threads alone.
LEMMA RequestStep ==
  ASSUME PInv, NEW t \in Threads, NEW work \in Request \cup {None}, Turns(t, work),
         UNCHANGED <<versions, seeds, deployments, experiments, cache, approved, left, killed>>,
         ThreadHolds(t)'
  PROVE  PInv'
<1>1. TypeOK /\ TypeOK'
  BY DEF PInv, TypeOK, Turns
<1>2. Advances
  BY <1>1 DEF Advances, TypeOK
<1>3. \A u \in Threads : ThreadHolds(u)'
  <2>1. \A u \in Threads \ {t} : threads'[u] = threads[u] /\ ThreadHolds(u)
    BY DEF Turns, PInv
  <2> QED BY <1>1, <1>2, <2>1, ThreadStays
<1>4. /\ \A v \in Versions : VersionHolds(v)'
      /\ \A s \in Scopes : ScopeHolds(s)'
      /\ \A e \in Experiments : ExperimentHolds(e)'
  BY DEF PInv, VersionHolds, ScopeHolds, ExperimentHolds, Current
<1>5. \A p \in Processes, k \in Keys : EntryHolds(p, k)'
  BY DEF PInv, EntryHolds, Valid
<1> QED BY <1>1, <1>3, <1>4, <1>5 DEF PInv

\* A thread that has answered relies on nothing.
LEMMA RestHolds ==
  ASSUME NEW t \in Threads, threads'[t] = None PROVE ThreadHolds(t)'
  BY DEF ThreadHolds, At, Serving, Experimenting, Idle

\* What a step of t must show when it changes more than the threads.
LEMMA CommitStep ==
  ASSUME PInv, TypeOK', Advances, NEW t \in Threads,
         \A u \in Threads \ {t} : threads'[u] = threads[u],
         ThreadHolds(t)',
         \A v \in Versions : VersionHolds(v)',
         \A s \in Scopes : ScopeHolds(s)',
         \A p \in Processes, k \in Keys : cache'[p][k] = cache[p][k] \/ EntryHolds(p, k)',
         \A e \in Experiments : ExperimentHolds(e)'
  PROVE  PInv'
<1>1. TypeOK
  BY DEF PInv
<1>2. \A u \in Threads : ThreadHolds(u)'
  BY <1>1, ThreadStays DEF PInv
<1>3. \A p \in Processes, k \in Keys : EntryHolds(p, k)'
  BY <1>1, EntryStays DEF PInv
<1> QED BY <1>2, <1>3 DEF PInv

\* Reviews are only added to.
LEMMA Reviewed ==
  ASSUME PInv, approved \subseteq approved', UNCHANGED <<deployments, left>>
  PROVE  /\ \A s \in Scopes : ScopeHolds(s)'
         /\ UNCHANGED experiments => Advances
  BY DEF PInv, TypeOK, ScopeHolds, Current, Advances

LEMMA ExperimentsStay ==
  ASSUME PInv, UNCHANGED <<experiments, killed>>
  PROVE  \A e \in Experiments : ExperimentHolds(e)'
  BY DEF PInv, ExperimentHolds

-----------------------------------------------------------------------------
(* Versions and their review.                                              *)

LEMMA CreateVersionStep ==
  ASSUME PInv, NEW v \in Versions, CreateVersion(v) PROVE PInv'
<1>1. TypeOK /\ TypeOK'
  BY DEF PInv, TypeOK, CreateVersion, Statuses
<1>2. Advances /\ (\A s \in Scopes : ScopeHolds(s)') /\ \A e \in Experiments : ExperimentHolds(e)'
  BY Reviewed, ExperimentsStay DEF CreateVersion
<1>3. \A u \in Versions : VersionHolds(u)'
  BY <1>1 DEF PInv, VersionHolds, CreateVersion, TypeOK
<1>4. \A t \in Threads : ThreadHolds(t)'
  BY <1>1, <1>2, ThreadStays DEF PInv, CreateVersion
<1>5. \A p \in Processes, k \in Keys : EntryHolds(p, k)'
  BY <1>1, <1>2, EntryStays DEF PInv, CreateVersion
<1> QED BY <1>1, <1>2, <1>3, <1>4, <1>5 DEF PInv

LEMMA AskTransitionStep ==
  ASSUME PInv, NEW t \in Threads, NEW v \in Versions, AskTransition(t, v) PROVE PInv'
<1>1. PICK to \in Statuses : Serve(t, [op |-> "transition", version |-> v, to |-> to])
  BY DEF AskTransition
<1> DEFINE work == [op |-> "transition", version |-> v, to |-> to]
<1>2. work \in Request /\ work.op = "transition"
  BY DEF Request
<1>3. Turns(t, work)
  BY <1>1, <1>2, ServeTurns DEF PInv
<1> HIDE DEF work
<1>4. ThreadHolds(t)'
  BY <1>2, <1>3 DEF Turns, ThreadHolds, At, Serving, Experimenting
<1> QED BY <1>2, <1>3, <1>4, RequestStep DEF AskTransition

LEMMA CommitTransitionStep ==
  ASSUME PInv, NEW t \in Threads, CommitTransition(t) PROVE PInv'
<1> DEFINE v == threads[t].version
           to == threads[t].to
<1>1. TypeOK /\ v \in Versions /\ to \in Statuses
  BY Shapes DEF PInv, CommitTransition, Serving
<1>2. Turns(t, None)
  BY <1>1, ServeTurns DEF CommitTransition
<1> HIDE DEF v, to
<1>3. /\ versions' = [versions EXCEPT ![v] = to]
      /\ approved' = approved \cup {u \in {v} : to = "approved"}
      /\ UNCHANGED <<seeds, deployments, experiments, cache, left, killed>>
  BY DEF CommitTransition, v, to
<1>4. TypeOK'
  BY <1>1, <1>2, <1>3 DEF TypeOK, Turns
<1>5. Advances /\ (\A s \in Scopes : ScopeHolds(s)') /\ \A e \in Experiments : ExperimentHolds(e)'
  BY <1>3, Reviewed, ExperimentsStay
<1>6. \A u \in Versions : VersionHolds(u)'
  BY <1>1, <1>3 DEF PInv, VersionHolds, TypeOK, Statuses
<1>7. ThreadHolds(t)'
  BY <1>2, RestHolds DEF Turns
<1> QED BY <1>2, <1>3, <1>4, <1>5, <1>6, <1>7, CommitStep DEF Turns

LEMMA AskTemplatesStep ==
  ASSUME PInv, NEW t \in Threads, AskTemplates(t) PROVE PInv'
<1> DEFINE work == [op |-> "seed", at |-> "template", version |-> None]
<1>1. work \in Request /\ work.op = "seed" /\ work.at = "template"
  BY DEF Request, Deployed
<1>2. Turns(t, work)
  BY <1>1, ServeTurns DEF PInv, AskTemplates
<1> HIDE DEF work
<1>3. ThreadHolds(t)'
  BY <1>1, <1>2 DEF Turns, ThreadHolds, At, Serving, Experimenting
<1> QED BY <1>1, <1>2, <1>3, RequestStep DEF AskTemplates

LEMMA SeedTemplateStep ==
  ASSUME PInv, NEW t \in Threads, SeedTemplate(t) PROVE PInv'
<1>1. PICK v \in PlatformVersions :
        /\ versions[v] = "absent"
        /\ versions' = [versions EXCEPT ![v] = "approved"]
        /\ seeds' = seeds \cup {v}
        /\ approved' = approved \cup {v}
        /\ Serve(t, [op |-> "seed", at |-> "seeded", version |-> v])
  BY DEF SeedTemplate
<1> DEFINE work == [op |-> "seed", at |-> "seeded", version |-> v]
<1>2. work \in Request /\ work.op = "seed" /\ work.version = v /\ v \in Versions /\ TypeOK
  BY Consts DEF Request, PInv
<1>3. Turns(t, work)
  BY <1>1, <1>2, ServeTurns
<1> HIDE DEF work
<1>4. UNCHANGED <<deployments, experiments, cache, left, killed>>
  BY DEF SeedTemplate
<1>5. TypeOK'
  BY <1>1, <1>2, <1>3, <1>4 DEF TypeOK, Turns, Statuses
<1>6. Advances /\ (\A s \in Scopes : ScopeHolds(s)') /\ \A e \in Experiments : ExperimentHolds(e)'
  BY <1>1, <1>4, Reviewed, ExperimentsStay
<1>7. \A u \in Versions : VersionHolds(u)'
  BY <1>1, <1>2 DEF PInv, VersionHolds, TypeOK
<1>8. ThreadHolds(t)'
  BY <1>1, <1>2, <1>3 DEF Turns, ThreadHolds, At, Serving, Experimenting
<1> QED BY <1>3, <1>4, <1>5, <1>6, <1>7, <1>8, CommitStep DEF Turns

-----------------------------------------------------------------------------
(* Deploying and rolling back.                                             *)

\* A deployment at its first statement rests on an approved version.
LEMMA DeployServed ==
  ASSUME PInv, NEW t \in Threads, NEW s \in Scopes, NEW v \in Versions, v \in approved,
         Serve(t, Deploy(s, v)),
         UNCHANGED <<versions, seeds, deployments, experiments, cache, approved, left, killed>>
  PROVE  PInv'
<1> DEFINE work == Deploy(s, v)
<1>1. /\ work \in Request /\ work.op = "deploy" /\ work.version = v /\ work.row = 0
      /\ TypeOK
  BY Consts DEF Request, Deploy, PInv
<1>2. Turns(t, work)
  BY <1>1, ServeTurns
<1> HIDE DEF work
<1>3. ThreadHolds(t)'
  BY <1>1, <1>2 DEF Turns, ThreadHolds, At, Serving, Experimenting, DeploymentHolds
<1> QED BY <1>1, <1>2, <1>3, RequestStep

LEMMA AskDeploymentStep ==
  ASSUME PInv, NEW t \in Threads, NEW s \in Scopes, NEW v \in Versions, AskDeployment(t, s, v)
  PROVE  PInv'
<1>1. v \in approved
  BY DEF PInv, VersionHolds, AskDeployment, Deployable
<1> QED BY <1>1, DeployServed DEF AskDeployment

LEMMA DeploySeedStep ==
  ASSUME PInv, NEW t \in Threads, DeploySeed(t) PROVE PInv'
<1>1. Serving(t, {"seed"}) /\ threads[t].version \in approved /\ TypeOK
  BY ServingAt DEF DeploySeed, PInv, ThreadHolds
<1>2. threads[t].version \in Versions /\ Platform \in Scopes
  BY <1>1, Consts DEF TypeOK
<1>3. CASE Serve(t, Deploy(Platform, threads[t].version))
  BY <1>1, <1>2, <1>3, DeployServed DEF DeploySeed
<1>4. CASE Done(t)
  <2>1. Turns(t, None)
    BY <1>1, <1>4, ServeTurns
  <2> QED BY <2>1, RestHolds, RequestStep DEF Turns, DeploySeed
<1> QED BY <1>3, <1>4 DEF DeploySeed

\* A deployment under way, as the record it is.
Deployment(at, s, v, row, seen, supersedes) ==
  [op |-> "deploy", at |-> at, scope |-> s, version |-> v, row |-> row, seen |-> seen,
   supersedes |-> supersedes]

LEMMA DeploymentIs ==
  ASSUME NEW at \in {"find", "write", "written"}, NEW s \in Scopes, NEW v \in Versions,
         NEW row \in 0 .. MaxRows, NEW seen \in Row \cup {None}, NEW b \in BOOLEAN
  PROVE  Deployment(at, s, v, row, seen, b) \in Request
  BY DEF Deployment, Request

LEMMA DeploymentWas ==
  ASSUME TypeOK, NEW t \in Threads, Serving(t, {"deploy"})
  PROVE  /\ threads[t] = Deployment(threads[t].at, threads[t].scope, threads[t].version,
                                    threads[t].row, threads[t].seen, threads[t].supersedes)
         /\ threads[t].at \in {"find", "write", "written"} /\ threads[t].scope \in Scopes
         /\ threads[t].version \in Versions /\ threads[t].row \in 0 .. MaxRows
         /\ threads[t].seen \in Row \cup {None} /\ threads[t].supersedes \in BOOLEAN
<1>1. threads[t] \in [op : {"deploy"}, at : {"find", "write", "written"}, scope : Scopes,
        version : Versions, row : 0 .. MaxRows, seen : Row \cup {None}, supersedes : BOOLEAN]
  BY Shapes
<1> QED BY <1>1 DEF Deployment

\* The thread moves to at with the row it has found.
LEMMA DeploymentTurns ==
  ASSUME TypeOK, NEW t \in Threads, Serving(t, {"deploy"}), NEW at \in {"write", "written"},
         NEW row \in 0 .. MaxRows, NEW seen \in Row \cup {None}, NEW b \in BOOLEAN,
         \/ threads' = [threads EXCEPT ![t].at = at, ![t].row = row, ![t].seen = seen,
                                       ![t].supersedes = b]
         \/ /\ threads' = [threads EXCEPT ![t].at = at]
            /\ row = threads[t].row /\ seen = threads[t].seen /\ b = threads[t].supersedes
  PROVE  Turns(t, Deployment(at, threads[t].scope, threads[t].version, row, seen, b))
<1> DEFINE r == threads[t]
           D(x, n, e, c) == Deployment(x, r.scope, r.version, n, e, c)
<1>1. r = D(r.at, r.row, r.seen, r.supersedes)
  BY DeploymentWas
<1>2. D(at, row, seen, b) \in Request
  BY DeploymentWas, DeploymentIs
<1>3. [r EXCEPT !.at = at] = D(at, r.row, r.seen, r.supersedes)
  BY <1>1 DEF Deployment
<1>4. [D(at, r.row, r.seen, r.supersedes) EXCEPT !.row = row] = D(at, row, r.seen, r.supersedes)
  BY DEF Deployment
<1>5. [D(at, row, r.seen, r.supersedes) EXCEPT !.seen = seen] = D(at, row, seen, r.supersedes)
  BY DEF Deployment
<1>6. [D(at, row, seen, r.supersedes) EXCEPT !.supersedes = b] = D(at, row, seen, b)
  BY DEF Deployment
<1>7. [[[[r EXCEPT !.at = at] EXCEPT !.row = row] EXCEPT !.seen = seen] EXCEPT !.supersedes = b]
        = D(at, row, seen, b)
  BY <1>3, <1>4, <1>5, <1>6
<1>8. threads' = [threads EXCEPT ![t] = D(at, row, seen, b)]
  <2>1. CASE threads' = [threads EXCEPT ![t].at = at, ![t].row = row, ![t].seen = seen,
                                        ![t].supersedes = b]
    <3>1. threads' = [threads EXCEPT ![t] =
            [[[[r EXCEPT !.at = at] EXCEPT !.row = row] EXCEPT !.seen = seen] EXCEPT !.supersedes = b]]
      BY <2>1 DEF TypeOK
    <3> QED BY <3>1, <1>7
  <2>2. CASE /\ threads' = [threads EXCEPT ![t].at = at]
             /\ row = threads[t].row /\ seen = threads[t].seen /\ b = threads[t].supersedes
    BY <2>2, <1>3
  <2> QED BY <2>1, <2>2
<1> HIDE DEF D, r
<1> QED BY <1>2, <1>8 DEF TypeOK, Turns, D, r

LEMMA FindDeploymentStep ==
  ASSUME PInv, NEW t \in Threads, FindDeployment(t) PROVE PInv'
<1> DEFINE s == threads[t].scope
           rows == deployments[s]
<1>1. /\ TypeOK /\ Serving(t, {"deploy"}) /\ DeploymentHolds(t) /\ s \in Scopes
      /\ threads[t].version \in Versions
  BY ServingAt, DeploymentWas DEF FindDeployment, PInv, ThreadHolds
<1>2. rows \in Seq(Row)
  BY <1>1 DEF TypeOK
<1>3. UNCHANGED <<versions, seeds, deployments, experiments, cache, approved, left, killed>>
  BY DEF FindDeployment
<1>4. CASE rows = <<>> /\ threads' = [threads EXCEPT ![t].at = "write"]
  <2> DEFINE work == Deployment("write", s, threads[t].version, threads[t].row, threads[t].seen,
                                threads[t].supersedes)
  <2>1. Turns(t, work)
    BY <1>1, <1>4, DeploymentWas, DeploymentTurns
  <2>2. /\ work.op = "deploy" /\ work.scope = s /\ work.version = threads[t].version
        /\ work.row = threads[t].row /\ work.seen = threads[t].seen
        /\ work \in Request
    BY <1>1, DeploymentWas, DeploymentIs DEF Deployment
  <2> HIDE DEF work
  <2>3. ThreadHolds(t)'
    BY <1>1, <1>3, <2>1, <2>2 DEF Turns, ThreadHolds, At, Serving, Experimenting, DeploymentHolds
  <2> QED BY <1>3, <2>1, <2>2, <2>3, RequestStep
<1>5. CASE Len(rows) = 1 /\ threads' = [threads EXCEPT
             ![t].at = "write", ![t].row = 1, ![t].seen = rows[1],
             ![t].supersedes = versions[rows[1].active] = "active"]
  <2> DEFINE b == versions[rows[1].active] = "active"
             work == Deployment("write", s, threads[t].version, 1, rows[1], b)
  <2>1. 1 \in DOMAIN rows /\ rows[1] \in Row /\ 1 \in 0 .. MaxRows /\ b \in BOOLEAN
    BY <1>2, <1>5, Consts
  <2>2. Turns(t, work)
    BY <1>1, <1>5, <2>1, DeploymentTurns
  <2>3. /\ work.op = "deploy" /\ work.scope = s /\ work.version = threads[t].version
        /\ work.row = 1 /\ work.seen = rows[1] /\ work \in Request
    BY <1>1, <2>1, DeploymentIs DEF Deployment
  <2>4. rows[1].active \in approved
    BY <1>1, <2>1 DEF PInv, ScopeHolds
  <2> HIDE DEF work, b
  <2>5. ThreadHolds(t)'
    BY <1>1, <1>3, <2>1, <2>2, <2>3, <2>4
       DEF Turns, ThreadHolds, At, Serving, Experimenting, DeploymentHolds
  <2> QED BY <1>3, <2>2, <2>3, <2>5, RequestStep
<1>6. CASE Done(t)
  <2>1. Turns(t, None)
    BY <1>1, <1>6, ServeTurns
  <2> QED BY <1>3, <2>1, RestHolds, RequestStep DEF Turns
<1> QED BY <1>4, <1>5, <1>6 DEF FindDeployment

\* Rows of a scope that are deployed anew.
LEMMA Redeployed ==
  ASSUME PInv, NEW s \in Scopes, NEW rows \in Seq(Row), Redeploy(s, rows), UNCHANGED approved,
         DOMAIN deployments[s] \subseteq DOMAIN rows, Len(rows) <= MaxRows,
         \A i \in DOMAIN rows : /\ rows[i].active \in approved
                                /\ rows[i].previous \in approved \cup {None}
  PROVE  /\ deployments' \in [Scopes -> Seq(Row)]
         /\ left' \in [Scopes -> [Deployed -> 0 .. TTL]]
         /\ UNCHANGED experiments => Advances
         /\ \A q \in Scopes : ScopeHolds(q)'
<1>1. /\ deployments \in [Scopes -> Seq(Row)] /\ left \in [Scopes -> [Deployed -> 0 .. TTL]]
      /\ 0 \in 0 .. TTL
  BY Consts DEF PInv, TypeOK
<1>2. /\ deployments' = [deployments EXCEPT ![s] = rows]
      /\ left' = [left EXCEPT ![s] = [v \in Deployed |-> IF v \in Current(rows) THEN 0 ELSE left[s][v]]]
  BY DEF Redeploy
<1>3. Current(rows) \subseteq Deployed
  <2>1. \A i \in DOMAIN rows : rows[i] \in Row
    OBVIOUS
  <2>2. \A i \in DOMAIN rows : rows[i].active \in Deployed
    BY <2>1 DEF Row, Deployed
  <2>3. None \in Deployed
    BY Consts
  <2> QED BY <2>2, <2>3 DEF Current
<1>4. left' \in [Scopes -> [Deployed -> 0 .. TTL]]
  BY <1>1, <1>2
<1>5. \A q \in Scopes, v \in Deployed : left'[q][v] <= left[q][v]
  BY <1>1, <1>2
<1>6. ASSUME NEW q \in Scopes PROVE ScopeHolds(q)'
  <2>1. CASE q = s
    <3>1. deployments'[q] = rows /\ \A v \in Current(rows) : left'[q][v] = 0
      BY <1>1, <1>2, <1>3, <2>1
    <3>2. Current(deployments'[q]) = Current(rows)
      BY <3>1
    <3> QED BY <3>1, <3>2 DEF ScopeHolds, Current
  <2>2. CASE q # s
    <3>1. deployments'[q] = deployments[q] /\ left'[q] = left[q]
      BY <1>1, <1>2, <2>2
    <3> QED BY <3>1 DEF PInv, ScopeHolds, Current
  <2> QED BY <2>1, <2>2
<1>7. UNCHANGED experiments => Advances
  BY <1>1, <1>2, <1>5 DEF Advances
<1> QED BY <1>1, <1>2, <1>4, <1>6, <1>7

\* What a commit leaves of the reviews: nothing becomes approved or vanishes.
LEMMA StatusesStay ==
  ASSUME PInv, versions' \in [Versions -> Statuses \cup {"absent"}], UNCHANGED approved,
         \A v \in Versions :
           /\ versions'[v] = "approved" => versions[v] = "approved"
           /\ v \in approved => versions'[v] # "absent"
  PROVE  \A v \in Versions : VersionHolds(v)'
  BY DEF PInv, VersionHolds

LEMMA CommitDeploymentStep ==
  ASSUME PInv, NEW t \in Threads, CommitDeployment(t) PROVE PInv'
<1> DEFINE r == threads[t]
           s == r.scope
           rows == deployments[s]
           work == Deployment("written", s, r.version, r.row, r.seen, r.supersedes)
<1>1. /\ TypeOK /\ Serving(t, {"deploy"}) /\ DeploymentHolds(t) /\ s \in Scopes
      /\ r.version \in Versions /\ r.row \in 0 .. MaxRows
  BY ServingAt, DeploymentWas DEF CommitDeployment, PInv, ThreadHolds
<1>2. /\ rows \in Seq(Row) /\ versions \in [Versions -> Statuses \cup {"absent"}]
      /\ Len(rows) <= MaxRows
      /\ \A i \in DOMAIN rows : /\ rows[i].active \in approved
                                /\ rows[i].previous \in approved \cup {None}
  BY <1>1 DEF TypeOK, PInv, ScopeHolds
<1>3. /\ UNCHANGED <<seeds, experiments, cache, approved, killed>>
      /\ threads' = [threads EXCEPT ![t].at = "written"]
  BY DEF CommitDeployment
<1>4. Turns(t, work)
  BY <1>1, <1>3, DeploymentWas, DeploymentTurns
<1>5. /\ work.op = "deploy" /\ work.scope = s /\ work.version = r.version
      /\ work.row = r.row /\ work.seen = r.seen
  BY DEF Deployment
<1>6. ASSUME NEW new \in Seq(Row), Redeploy(s, new), Len(new) <= MaxRows,
             DOMAIN rows \subseteq DOMAIN new,
             \A i \in DOMAIN new : /\ new[i].active \in approved
                                   /\ new[i].previous \in approved \cup {None},
             versions' \in [Versions -> Statuses \cup {"absent"}],
             \A v \in Versions : versions'[v] \in {"active", "superseded", versions[v]}
      PROVE  PInv'
  <2>1. /\ deployments' \in [Scopes -> Seq(Row)] /\ left' \in [Scopes -> [Deployed -> 0 .. TTL]]
        /\ Advances /\ \A q \in Scopes : ScopeHolds(q)'
    BY <1>1, <1>3, <1>6, Redeployed
  <2>2. TypeOK'
    BY <1>1, <1>3, <1>4, <1>6, <2>1 DEF TypeOK, Turns
  <2>3. \A v \in Versions : VersionHolds(v)'
    BY <1>3, <1>6, StatusesStay DEF PInv, VersionHolds
  <2>4. \A e \in Experiments : ExperimentHolds(e)'
    BY <1>3, ExperimentsStay
  <2>5. ThreadHolds(t)'
    <3> HIDE DEF work
    <3> QED BY <1>1, <1>3, <1>4, <1>5, <2>1
               DEF Turns, ThreadHolds, At, Serving, Experimenting, DeploymentHolds, Advances
  <2> QED BY <1>3, <1>4, <2>1, <2>2, <2>3, <2>4, <2>5, CommitStep DEF Turns
<1>7. CASE /\ r.row = 0 /\ Len(rows) < MaxRows
           /\ Redeploy(s, Append(rows, [active |-> r.version, previous |-> None]))
           /\ versions' = [versions EXCEPT ![r.version] = "active"]
  <2> DEFINE new == First(rows, r.version)
  <2>1. /\ new \in Seq(Row) /\ Len(new) = Len(rows) + 1 /\ DOMAIN rows \subseteq DOMAIN new
        /\ \A j \in DOMAIN new :
             \/ new[j] = [active |-> r.version, previous |-> None]
             \/ j \in DOMAIN rows /\ new[j] = rows[j]
    BY <1>1, <1>2, Appended
  <2>0. Redeploy(s, new)
    BY <1>7 DEF First
  <2> HIDE DEF new
  <2>2. \A i \in DOMAIN new : /\ new[i].active \in approved
                              /\ new[i].previous \in approved \cup {None}
    BY <1>1, <1>2, <2>1 DEF DeploymentHolds
  <2>3. Len(new) <= MaxRows
    BY <1>2, <1>7, <2>1, Consts
  <2>4. /\ versions' \in [Versions -> Statuses \cup {"absent"}]
        /\ \A v \in Versions : versions'[v] \in {"active", "superseded", versions[v]}
    BY <1>1, <1>2, <1>7 DEF Statuses
  <2> QED BY <1>6, <2>0, <2>1, <2>2, <2>3, <2>4
<1>8. CASE /\ r.row > 0
           /\ Redeploy(s, [rows EXCEPT
                ![r.row].active = Written(r.version, r.seen.active, @),
                ![r.row].previous = Written(r.seen.active, r.seen.previous, @)])
           /\ versions' = [v \in Versions |->
                IF v = r.version THEN "active"
                ELSE IF v = r.seen.active /\ r.supersedes THEN "superseded" ELSE versions[v]]
  <2> DEFINE a == Written(r.version, r.seen.active, rows[r.row].active)
             b == Written(r.seen.active, r.seen.previous, rows[r.row].previous)
             new == Replace(rows, r.row, a, b)
  <2>1. r.row \in DOMAIN rows /\ r.seen \in Row /\ r.seen.active \in approved /\ r.version \in approved
    BY <1>1, <1>8 DEF DeploymentHolds
  <2>2. approved \subseteq Versions /\ Versions \subseteq Deployed /\ None \in Deployed
    BY <1>1, Consts DEF TypeOK
  <2>3. a \in approved /\ b \in approved \cup {None}
    BY <1>2, <2>1 DEF Written
  <2>4. Redeploy(s, new)
    <3>1. [rows EXCEPT ![r.row].active = Written(r.version, r.seen.active, @),
                       ![r.row].previous = Written(r.seen.active, r.seen.previous, @)] = new
      BY <1>2, <2>1 DEF Row, Replace
    <3> QED BY <1>8, <3>1
  <2> HIDE DEF a, b
  <2>5. /\ new \in Seq(Row) /\ Len(new) = Len(rows) /\ DOMAIN new = DOMAIN rows
        /\ new[r.row] = [active |-> a, previous |-> b]
        /\ \A j \in DOMAIN rows \ {r.row} : new[j] = rows[j]
    BY <1>2, <2>1, <2>2, <2>3, Replaced
  <2> HIDE DEF new
  <2>6. \A i \in DOMAIN new : /\ new[i].active \in approved
                              /\ new[i].previous \in approved \cup {None}
    BY <1>2, <2>3, <2>5
  <2>7. /\ versions' \in [Versions -> Statuses \cup {"absent"}]
        /\ \A v \in Versions : versions'[v] \in {"active", "superseded", versions[v]}
    BY <1>2, <1>8 DEF Statuses
  <2> QED BY <1>2, <1>6, <2>4, <2>5, <2>6, <2>7
<1> QED BY <1>7, <1>8 DEF CommitDeployment

\* A rollback under way, as the record it is.
Rollback(at, s, row, seen, failed, restored) ==
  [op |-> "rollback", at |-> at, scope |-> s, row |-> row, seen |-> seen,
   failed |-> failed, restored |-> restored]

LEMMA RollbackIs ==
  ASSUME NEW at \in {"write", "written"}, NEW s \in Scopes, NEW row \in 1 .. MaxRows,
         NEW seen \in Row, NEW f \in Statuses, NEW g \in Statuses
  PROVE  Rollback(at, s, row, seen, f, g) \in Request
  BY DEF Rollback, Request

LEMMA AskRollbackStep ==
  ASSUME PInv, NEW t \in Threads, NEW s \in Scopes, AskRollback(t, s) PROVE PInv'
<1> DEFINE rows == deployments[s]
<1>1. PICK i \in DOMAIN rows :
        /\ rows[i].previous # None
        /\ Serve(t, [op |-> "rollback", at |-> "write", scope |-> s, row |-> i, seen |-> rows[i],
                     failed |-> versions[rows[i].active], restored |-> versions[rows[i].previous]])
  BY DEF AskRollback
<1>2. TypeOK /\ rows \in Seq(Row) /\ Len(rows) <= MaxRows
  BY DEF PInv, TypeOK, ScopeHolds
<1>3. rows[i] \in Row /\ i \in 1 .. MaxRows
  BY <1>2, Consts
<1>4. /\ rows[i].active \in approved /\ rows[i].previous \in approved
      /\ approved \subseteq Versions
  BY <1>1 DEF PInv, ScopeHolds, TypeOK
<1>5. versions[rows[i].active] \in Statuses /\ versions[rows[i].previous] \in Statuses
  BY <1>2, <1>4 DEF PInv, VersionHolds, TypeOK
<1> DEFINE work == Rollback("write", s, i, rows[i], versions[rows[i].active],
                            versions[rows[i].previous])
<1>6. /\ work \in Request /\ work.op = "rollback" /\ work.scope = s /\ work.row = i
      /\ work.seen = rows[i]
  <2>1. work \in Request
    BY <1>3, <1>5, RollbackIs
  <2> QED BY <2>1 DEF Rollback
<1>7. Turns(t, work)
  <2>1. Serve(t, work)
    BY <1>1 DEF Rollback
  <2> HIDE DEF work
  <2> QED BY <1>2, <1>6, <2>1, ServeTurns
<1>8. UNCHANGED <<versions, seeds, deployments, experiments, cache, approved, left, killed>>
  BY DEF AskRollback
<1> HIDE DEF work
<1>9. ThreadHolds(t)'
  BY <1>4, <1>6, <1>7, <1>8 DEF Turns, ThreadHolds, At, Serving, Experimenting, RollbackHolds
<1> QED BY <1>6, <1>7, <1>8, <1>9, RequestStep

LEMMA CommitRollbackStep ==
  ASSUME PInv, NEW t \in Threads, CommitRollback(t) PROVE PInv'
<1> DEFINE r == threads[t]
           s == r.scope
           old == r.seen
           rows == deployments[s]
           work == Rollback("written", s, r.row, old, r.failed, r.restored)
<1>1. /\ TypeOK /\ Serving(t, {"rollback"}) /\ RollbackHolds(t)
      /\ r \in [op : {"rollback"}, at : {"write", "written"}, scope : Scopes,
                row : 1 .. MaxRows, seen : Row, failed : Statuses, restored : Statuses]
  BY ServingAt, Shapes DEF CommitRollback, PInv, ThreadHolds
<1>2. /\ s \in Scopes /\ r.row \in 1 .. MaxRows /\ old \in Row /\ r.failed \in Statuses
      /\ r.restored \in Statuses
  BY <1>1
<1>3. /\ rows \in Seq(Row) /\ versions \in [Versions -> Statuses \cup {"absent"}]
      /\ Len(rows) <= MaxRows
      /\ \A i \in DOMAIN rows : /\ rows[i].active \in approved
                                /\ rows[i].previous \in approved \cup {None}
  BY <1>1, <1>2 DEF TypeOK, PInv, ScopeHolds
<1>4. /\ UNCHANGED <<seeds, experiments, cache, approved, killed>>
      /\ threads' = [threads EXCEPT ![t].at = "written"]
  BY DEF CommitRollback
<1>5. work \in Request /\ work.op = "rollback" /\ work.scope = s /\ work.row = r.row /\ work.seen = old
  <2>1. work \in Request
    BY <1>2, RollbackIs
  <2> QED BY <2>1 DEF Rollback
<1>6. Turns(t, work)
  <2>1. [r EXCEPT !.at = "written"] = work
    BY <1>1 DEF Rollback
  <2> HIDE DEF work
  <2> QED BY <1>1, <1>4, <1>5, <2>1 DEF TypeOK, Turns
<1> DEFINE a == Written(old.previous, old.active, rows[r.row].active)
           b == Written(old.active, old.previous, rows[r.row].previous)
           new == Replace(rows, r.row, a, b)
<1>7. /\ r.row \in DOMAIN rows /\ old.active \in approved /\ old.previous \in approved
      /\ approved \subseteq Versions /\ Versions \subseteq Deployed /\ None \in Deployed
  BY <1>1, Consts DEF RollbackHolds, TypeOK
<1>8. a \in approved /\ b \in approved \cup {None}
  BY <1>3, <1>7 DEF Written
<1>9. Redeploy(s, new)
  <2>1. [rows EXCEPT ![r.row].active = Written(old.previous, old.active, @),
                     ![r.row].previous = Written(old.active, old.previous, @)] = new
    BY <1>3, <1>7 DEF Row, Replace
  <2> QED BY <2>1 DEF CommitRollback
<1> HIDE DEF a, b
<1>10. /\ new \in Seq(Row) /\ Len(new) = Len(rows) /\ DOMAIN new = DOMAIN rows
       /\ new[r.row] = [active |-> a, previous |-> b]
       /\ \A j \in DOMAIN rows \ {r.row} : new[j] = rows[j]
  BY <1>3, <1>7, <1>8, Replaced
<1> HIDE DEF new
<1>11. \A i \in DOMAIN new : /\ new[i].active \in approved
                             /\ new[i].previous \in approved \cup {None}
  BY <1>3, <1>8, <1>10
<1>12. /\ deployments' \in [Scopes -> Seq(Row)] /\ left' \in [Scopes -> [Deployed -> 0 .. TTL]]
       /\ Advances /\ \A q \in Scopes : ScopeHolds(q)'
  BY <1>2, <1>3, <1>4, <1>9, <1>10, <1>11, Redeployed
<1>13. versions' = [v \in Versions |->
         CASE v = old.previous -> Written("active", r.restored, versions[v])
           [] v = old.active /\ v # old.previous -> Written("rolled_back", r.failed, versions[v])
           [] OTHER -> versions[v]]
  BY DEF CommitRollback
<1>14. \A v \in Versions : versions'[v] \in {"active", "rolled_back", versions[v]}
  BY <1>13 DEF Written
<1>15. versions' \in [Versions -> Statuses \cup {"absent"}]
  <2>1. \A v \in Versions : versions'[v] \in Statuses \cup {"absent"}
    BY <1>3, <1>14 DEF Statuses
  <2> QED BY <1>13, <2>1
<1>16. \A v \in Versions : VersionHolds(v)'
  BY <1>4, <1>14, <1>15, StatusesStay DEF PInv, VersionHolds
<1>17. TypeOK'
  BY <1>1, <1>4, <1>6, <1>12, <1>15 DEF TypeOK, Turns
<1>18. \A e \in Experiments : ExperimentHolds(e)'
  BY <1>4, ExperimentsStay
<1>19. ThreadHolds(t)'
  <2> HIDE DEF work
  <2> QED BY <1>2, <1>4, <1>5, <1>6, <1>7, <1>12
             DEF Turns, ThreadHolds, At, Serving, Experimenting, RollbackHolds, Advances
<1> QED BY <1>4, <1>6, <1>12, <1>16, <1>17, <1>18, <1>19, CommitStep DEF Turns

LEMMA InvalidateCacheStep ==
  ASSUME PInv, NEW t \in Threads, InvalidateCache(t) PROVE PInv'
<1>1. TypeOK /\ t \in DOMAIN Home /\ Home[t] \in Processes
  BY Consts DEF PInv
<1>2. /\ UNCHANGED <<versions, seeds, deployments, experiments, approved, left, killed>>
      /\ Done(t)
      /\ \E s : cache' = [cache EXCEPT ![Home[t]] = [k \in Keys |->
           IF s = Platform \/ k \in {s, Platform} THEN None ELSE cache[Home[t]][k]]]
  BY <1>1 DEF InvalidateCache, Invalidate, TypeOK
<1>3. Turns(t, None)
  BY <1>1, <1>2, ServeTurns
<1>4. cache' \in [Processes -> [Keys -> Found \cup {None}]]
  BY <1>1, <1>2 DEF TypeOK
<1>5. \A p \in Processes, k \in Keys : cache'[p][k] \in {None, cache[p][k]}
  BY <1>1, <1>2 DEF TypeOK
<1>6. TypeOK'
  BY <1>1, <1>2, <1>3, <1>4 DEF TypeOK, Turns
<1>7. /\ Advances /\ (\A s \in Scopes : ScopeHolds(s)') /\ (\A e \in Experiments : ExperimentHolds(e)')
      /\ \A v \in Versions : VersionHolds(v)'
  BY <1>2, Reviewed, ExperimentsStay DEF PInv, VersionHolds
<1>8. \A p \in Processes, k \in Keys : cache'[p][k] = cache[p][k] \/ EntryHolds(p, k)'
  BY <1>5 DEF EntryHolds, Valid
<1>9. ThreadHolds(t)'
  BY <1>3, RestHolds DEF Turns
<1> QED BY <1>3, <1>6, <1>7, <1>8, <1>9, CommitStep DEF Turns

-----------------------------------------------------------------------------
(* Resolving, and the cache.                                               *)

\* A lookup under way, as the record it is.
Lookup(at, s, v, w, age) ==
  [op |-> "resolve", at |-> at, scope |-> s, found |-> [platform |-> v, widget |-> w, age |-> age]]

LEMMA LookupIs ==
  ASSUME NEW at \in {"platform", "widget", "store"}, NEW s \in Scopes, NEW v \in Deployed,
         NEW w \in Deployed, NEW age \in 0 .. TTL
  PROVE  Lookup(at, s, v, w, age) \in Request
<1>1. [platform |-> v, widget |-> w, age |-> age] \in Found
  BY DEF Found
<1> QED BY <1>1 DEF Lookup, Request

LEMMA LookupWas ==
  ASSUME TypeOK, NEW t \in Threads, Serving(t, {"resolve"})
  PROVE  /\ threads[t] = Lookup(threads[t].at, threads[t].scope, threads[t].found.platform,
                                threads[t].found.widget, threads[t].found.age)
         /\ threads[t].at \in {"platform", "widget", "store"} /\ threads[t].scope \in Scopes
         /\ threads[t].found \in Found /\ threads[t].found.platform \in Deployed
         /\ threads[t].found.widget \in Deployed /\ threads[t].found.age \in 0 .. TTL
<1>1. threads[t] \in [op : {"resolve"}, at : {"platform", "widget", "store"},
                      scope : Scopes, found : Found]
  BY Shapes
<1>2. /\ threads[t].at \in {"platform", "widget", "store"} /\ threads[t].scope \in Scopes
      /\ threads[t].found \in Found
      /\ threads[t] = [op |-> "resolve", at |-> threads[t].at, scope |-> threads[t].scope,
                       found |-> threads[t].found]
  BY <1>1
<1>3. /\ threads[t].found.platform \in Deployed
      /\ threads[t].found.widget \in Deployed /\ threads[t].found.age \in 0 .. TTL
      /\ threads[t].found = [platform |-> threads[t].found.platform,
                             widget |-> threads[t].found.widget, age |-> threads[t].found.age]
  BY <1>2 DEF Found
<1> QED BY <1>2, <1>3 DEF Lookup

\* A thread that has become a lookup, and what it must have found to hold.
LEMMA LookupTurned ==
  ASSUME NEW t \in Threads, NEW at, NEW s, NEW v, NEW w, NEW age,
         threads'[t] = Lookup(at, s, v, w, age),
         {v, w} \subseteq approved' \cup {None},
         at \in {"widget", "store"} => left'[Platform][v] <= age,
         at = "store" /\ s # Platform => left'[s][w] <= age
  PROVE  ThreadHolds(t)'
  BY DEF ThreadHolds, LookupHolds, Lookup, At, Serving, Experimenting

LEMMA ResolveStep ==
  ASSUME PInv, NEW t \in Threads, NEW s \in Keys, Resolve(t, s) PROVE PInv'
<1> DEFINE work == Lookup("platform", s, None, None, 0)
<1>1. work \in Request
  BY Consts, LookupIs
<1>2. Serve(t, work)
  BY DEF Resolve, Lookup
<1>3. Turns(t, work)
  <2> HIDE DEF work
  <2> QED BY <1>1, <1>2, ServeTurns DEF PInv
<1>4. ThreadHolds(t)'
  BY <1>3, LookupTurned DEF Turns
<1> HIDE DEF work
<1> QED BY <1>1, <1>3, <1>4, RequestStep DEF Resolve

\* What a lookup finds in a scope was approved, and is deployed now.
LEMMA CurrentHolds ==
  ASSUME PInv, NEW s \in Scopes, NEW v \in Current(deployments[s])
  PROVE  v \in approved \cup {None} /\ v \in Deployed /\ left[s][v] = 0
<1>1. v \in approved \cup {None} /\ left[s][v] = 0
  BY DEF PInv, ScopeHolds, Current
<1>2. approved \subseteq Versions
  BY DEF PInv, TypeOK
<1> QED BY <1>1, <1>2 DEF Deployed

LEMMA ReadPlatformStep ==
  ASSUME PInv, NEW t \in Threads, ReadPlatform(t) PROVE PInv'
<1> DEFINE r == threads[t]
<1>1. /\ TypeOK /\ Serving(t, {"resolve"}) /\ LookupHolds(t)
      /\ r.scope \in Scopes /\ r.found.widget \in Deployed /\ r.found.age \in 0 .. TTL
      /\ r.found.platform \in Deployed
  BY ServingAt, LookupWas DEF ReadPlatform, PInv, ThreadHolds
<1>2. UNCHANGED <<versions, seeds, deployments, experiments, cache, approved, left, killed>>
  BY DEF ReadPlatform
<1>3. CASE Done(t)
  <2>1. Turns(t, None)
    BY <1>1, <1>3, ServeTurns
  <2> QED BY <1>2, <2>1, RestHolds, RequestStep DEF Turns
<1>4. ASSUME NEW v \in Current(deployments[Platform]), NEW at \in {"store", "widget"},
             at = "store" => r.scope = Platform,
             threads' = [threads EXCEPT ![t].found.platform = v, ![t].at = at]
      PROVE  PInv'
  <2> DEFINE work == Lookup(at, r.scope, v, r.found.widget, r.found.age)
             m == Lookup(r.at, r.scope, v, r.found.widget, r.found.age)
  <2>1. v \in approved \cup {None} /\ v \in Deployed /\ left[Platform][v] = 0
    BY Consts, CurrentHolds
  <2>2. work \in Request
    BY <1>1, <2>1, LookupIs
  <2>3. [[r EXCEPT !.found.platform = v] EXCEPT !.at = at] = work
    <3>1. r = Lookup(r.at, r.scope, r.found.platform, r.found.widget, r.found.age)
      BY <1>1, LookupWas
    <3>2. [Lookup(r.at, r.scope, r.found.platform, r.found.widget, r.found.age)
             EXCEPT !.found.platform = v] = m
      BY DEF Lookup
    <3>3. [m EXCEPT !.at = at] = work
      BY DEF Lookup
    <3> QED BY <3>1, <3>2, <3>3
  <2>4. Turns(t, work)
    <3>1. threads' = [threads EXCEPT ![t] = [[r EXCEPT !.found.platform = v] EXCEPT !.at = at]]
      BY <1>1, <1>4 DEF TypeOK
    <3> HIDE DEF work
    <3> QED BY <1>1, <2>2, <2>3, <3>1 DEF TypeOK, Turns
  <2>5. ThreadHolds(t)'
    <3>1. {v, r.found.widget} \subseteq approved' \cup {None}
      BY <1>1, <1>2, <2>1 DEF LookupHolds
    <3>2. left'[Platform][v] <= r.found.age
      BY <1>1, <1>2, <2>1
    <3>3. threads'[t] = Lookup(at, r.scope, v, r.found.widget, r.found.age)
      BY <2>4 DEF Turns
    <3>4. ~(at = "store" /\ r.scope # Platform)
      BY <1>4
    <3> QED BY <3>1, <3>2, <3>3, <3>4, LookupTurned
  <2> HIDE DEF work
  <2> QED BY <1>2, <2>2, <2>4, <2>5, RequestStep
<1> QED BY <1>3, <1>4 DEF ReadPlatform

LEMMA ReadWidgetStep ==
  ASSUME PInv, NEW t \in Threads, ReadWidget(t) PROVE PInv'
<1> DEFINE r == threads[t]
<1>1. /\ TypeOK /\ Serving(t, {"resolve"}) /\ LookupHolds(t) /\ r.at = "widget"
      /\ r.scope \in Scopes /\ r.found.widget \in Deployed /\ r.found.age \in 0 .. TTL
      /\ r.found.platform \in Deployed
  BY ServingAt, LookupWas DEF ReadWidget, PInv, ThreadHolds
<1>2. UNCHANGED <<versions, seeds, deployments, experiments, cache, approved, left, killed>>
  BY DEF ReadWidget
<1>3. PICK v \in Current(deployments[r.scope]) :
        threads' = [threads EXCEPT ![t].found.widget = v, ![t].at = "store"]
  BY DEF ReadWidget
<1> DEFINE work == Lookup("store", r.scope, r.found.platform, v, r.found.age)
           m == Lookup(r.at, r.scope, r.found.platform, v, r.found.age)
<1>4. v \in approved \cup {None} /\ v \in Deployed /\ left[r.scope][v] = 0
  BY <1>1, CurrentHolds
<1>5. work \in Request
  BY <1>1, <1>4, LookupIs
<1>6. [[r EXCEPT !.found.widget = v] EXCEPT !.at = "store"] = work
  <2>1. r = Lookup(r.at, r.scope, r.found.platform, r.found.widget, r.found.age)
    BY <1>1, LookupWas
  <2>2. [Lookup(r.at, r.scope, r.found.platform, r.found.widget, r.found.age)
           EXCEPT !.found.widget = v] = m
    BY DEF Lookup
  <2>3. [m EXCEPT !.at = "store"] = work
    BY DEF Lookup
  <2> QED BY <2>1, <2>2, <2>3
<1>7. Turns(t, work)
  <2>1. threads' = [threads EXCEPT ![t] = [[r EXCEPT !.found.widget = v] EXCEPT !.at = "store"]]
    BY <1>1, <1>3 DEF TypeOK
  <2> HIDE DEF work
  <2> QED BY <1>1, <1>5, <1>6, <2>1 DEF TypeOK, Turns
<1>8. ThreadHolds(t)'
  <2>1. {r.found.platform, v} \subseteq approved' \cup {None}
    BY <1>1, <1>2, <1>4 DEF LookupHolds
  <2>2. left'[Platform][r.found.platform] <= r.found.age /\ left'[r.scope][v] <= r.found.age
    BY <1>1, <1>2, <1>4 DEF LookupHolds
  <2> QED BY <1>7, <2>1, <2>2, LookupTurned DEF Turns
<1> HIDE DEF work
<1> QED BY <1>2, <1>5, <1>7, <1>8, RequestStep

LEMMA StoreStep ==
  ASSUME PInv, NEW t \in Threads, Store(t) PROVE PInv'
<1> DEFINE r == threads[t]
           h == Home[t]
<1>1. /\ TypeOK /\ Serving(t, {"resolve"}) /\ LookupHolds(t) /\ r.at = "store"
      /\ r.scope \in Scopes /\ r.found \in Found /\ h \in Processes
  BY ServingAt, LookupWas, Consts DEF Store, PInv, ThreadHolds
<1>2. /\ UNCHANGED <<versions, seeds, deployments, experiments, approved, left, killed>>
      /\ cache' = [cache EXCEPT ![h][r.scope] = r.found]
      /\ Done(t)
  BY DEF Store
<1>3. Turns(t, None)
  BY <1>1, <1>2, ServeTurns
<1>4. /\ cache' \in [Processes -> [Keys -> Found \cup {None}]]
      /\ \A p \in Processes, k \in Keys :
           \/ cache'[p][k] = cache[p][k]
           \/ cache'[p][k] = r.found /\ k = r.scope
  <2>1. cache \in [Processes -> [Keys -> Found \cup {None}]]
    BY <1>1 DEF TypeOK
  <2> HIDE DEF r, h
  <2> QED BY <1>1, <1>2, <2>1
<1>5. TypeOK'
  BY <1>1, <1>2, <1>3, <1>4 DEF TypeOK, Turns
<1>6. /\ Advances /\ (\A s \in Scopes : ScopeHolds(s)') /\ (\A e \in Experiments : ExperimentHolds(e)')
      /\ \A v \in Versions : VersionHolds(v)'
  BY <1>2, Reviewed, ExperimentsStay DEF PInv, VersionHolds
<1>7. \A p \in Processes, k \in Keys : cache'[p][k] = cache[p][k] \/ EntryHolds(p, k)'
  BY <1>1, <1>2, <1>4 DEF EntryHolds, Valid, LookupHolds
<1>8. ThreadHolds(t)'
  BY <1>3, RestHolds DEF Turns
<1> QED BY <1>3, <1>5, <1>6, <1>7, <1>8, CommitStep DEF Turns

-----------------------------------------------------------------------------
(* Experiments.                                                            *)

\* An experiment stays, and so does the end of one that was killed.
LEMMA ExperimentStep ==
  ASSUME PInv, NEW e \in Experiments, NEW new \in Experiment,
         experiments' = [experiments EXCEPT ![e] = new],
         e \in killed' => (~new.limited => new.timing.end = "past"),
         killed' \subseteq killed \cup {e},
         UNCHANGED <<versions, seeds, deployments, cache, approved, left>>
  PROVE  /\ Advances
         /\ \A v \in Versions : VersionHolds(v)'
         /\ \A s \in Scopes : ScopeHolds(s)'
         /\ \A f \in Experiments : ExperimentHolds(f)'
         /\ experiments' \in [Experiments -> Experiment \cup {None}]
         /\ killed' \subseteq Experiments
<1>1. /\ TypeOK /\ new # None
      /\ experiments \in [Experiments -> Experiment \cup {None}]
  BY NoneAssumption DEF PInv, TypeOK
<1>2. \A f \in Experiments : experiments'[f] = IF f = e THEN new ELSE experiments[f]
  BY <1>1
<1>3. Advances
  BY <1>1, <1>2 DEF Advances, TypeOK
<1>4. (\A v \in Versions : VersionHolds(v)') /\ \A s \in Scopes : ScopeHolds(s)'
  BY Reviewed DEF PInv, VersionHolds
<1>5. \A f \in Experiments : ExperimentHolds(f)'
  BY <1>1, <1>2 DEF PInv, ExperimentHolds
<1> QED BY <1>1, <1>3, <1>4, <1>5 DEF TypeOK

Update(x, status, end) == [[x EXCEPT !.timing.status = status] EXCEPT !.timing.end = end]

\* What an update makes of an experiment's timing.
LEMMA ExperimentIs ==
  ASSUME NEW x \in Experiment, NEW status \in {"draft", "running", "completed", "killed"},
         NEW end \in {"unset", "ahead", "past"}
  PROVE  /\ Update(x, status, end) \in Experiment
         /\ Update(x, status, end).limited = x.limited
         /\ Update(x, status, end).timing.end = end
<1> DEFINE y(u, d) == [timing |-> [status |-> u, end |-> d], limited |-> x.limited, gate |-> x.gate]
<1>1. x.timing \in Timing /\ x.limited \in BOOLEAN /\ x.gate \in {"pending", "passed", "failed"}
  BY DEF Experiment
<1>2. x.timing = [status |-> x.timing.status, end |-> x.timing.end]
  BY <1>1 DEF Timing
<1>3. x = y(x.timing.status, x.timing.end)
  BY <1>2 DEF Experiment
<1>4. [y(x.timing.status, x.timing.end) EXCEPT !.timing.status = status] = y(status, x.timing.end)
  OBVIOUS
<1>5. [y(status, x.timing.end) EXCEPT !.timing.end = end] = y(status, end)
  OBVIOUS
<1>6. [status |-> status, end |-> end] \in Timing
  BY DEF Timing
<1>7. y(status, end) \in Experiment
  BY <1>1, <1>6 DEF Experiment
<1>8. Update(x, status, end) = y(status, end)
  <2> HIDE DEF y
  <2> QED BY <1>3, <1>4, <1>5 DEF Update
<1>9. y(status, end).limited = x.limited /\ y(status, end).timing.end = end
  OBVIOUS
<1> HIDE DEF y
<1> QED BY <1>7, <1>8, <1>9

LEMMA CreateExperimentStep ==
  ASSUME PInv, NEW e \in Experiments, CreateExperiment(e) \/ RecordGate(e) \/ Expire(e)
  PROVE  PInv'
<1>1. /\ TypeOK /\ experiments \in [Experiments -> Experiment \cup {None}]
      /\ ExperimentHolds(e)
  BY DEF PInv, TypeOK
<1>2. UNCHANGED <<versions, seeds, deployments, cache, threads, approved, left, killed>>
  BY DEF CreateExperiment, RecordGate, Expire
<1>3. \E new \in Experiment :
        /\ experiments' = [experiments EXCEPT ![e] = new]
        /\ e \in killed => (~new.limited => new.timing.end = "past")
  <2>1. CASE CreateExperiment(e)
    <3>1. PICK limited \in BOOLEAN : experiments' = [experiments EXCEPT
            ![e] = [timing |-> [status |-> "draft", end |-> "unset"], limited |-> limited,
                    gate |-> "pending"]]
      BY <2>1 DEF CreateExperiment
    <3>2. [timing |-> [status |-> "draft", end |-> "unset"], limited |-> limited,
           gate |-> "pending"] \in Experiment
      BY DEF Experiment, Timing
    <3>3. e \notin killed
      BY <1>1, <2>1 DEF CreateExperiment, ExperimentHolds
    <3> QED BY <3>1, <3>2, <3>3
  <2>2. CASE RecordGate(e)
    <3>1. PICK result \in {"passed", "failed"} :
            experiments' = [experiments EXCEPT ![e].gate = result]
      BY <2>2 DEF RecordGate
    <3>2. experiments[e] \in Experiment
      BY <1>1, <2>2 DEF RecordGate
    <3> DEFINE new == [experiments[e] EXCEPT !.gate = result]
    <3>3. new \in Experiment /\ new.limited = experiments[e].limited /\ new.timing = experiments[e].timing
      BY <3>2 DEF Experiment
    <3>4. experiments' = [experiments EXCEPT ![e] = new]
      BY <3>1, <1>1
    <3> HIDE DEF new
    <3> QED BY <1>1, <3>3, <3>4 DEF ExperimentHolds
  <2>3. CASE Expire(e)
    <3>1. experiments[e] \in Experiment
      BY <1>1, <2>3 DEF Expire
    <3> DEFINE x == experiments[e]
               new == [x EXCEPT !.timing.end = "past"]
               y(d) == [timing |-> [status |-> x.timing.status, end |-> d],
                        limited |-> x.limited, gate |-> x.gate]
    <3>2. x.timing \in Timing /\ x.timing = [status |-> x.timing.status, end |-> x.timing.end]
      <4>1. x.timing \in Timing
        BY <3>1 DEF Experiment
      <4> QED BY <4>1 DEF Timing
    <3>3. x = y(x.timing.end)
      BY <3>1, <3>2 DEF Experiment
    <3>4. [y(x.timing.end) EXCEPT !.timing.end = "past"] = y("past")
      OBVIOUS
    <3>5. y("past") \in Experiment /\ y("past").timing.end = "past"
      <4>1. [status |-> x.timing.status, end |-> "past"] \in Timing
        BY <3>2 DEF Timing
      <4> QED BY <3>1, <4>1 DEF Experiment
    <3>6. experiments' = [experiments EXCEPT ![e] = new]
      BY <2>3, <1>1 DEF Expire
    <3>7. new = y("past")
      <4> HIDE DEF y
      <4> QED BY <3>3, <3>4
    <3> HIDE DEF y, new
    <3> QED BY <3>5, <3>6, <3>7
  <2> QED BY <2>1, <2>2, <2>3
<1>4. PICK new \in Experiment :
        /\ experiments' = [experiments EXCEPT ![e] = new]
        /\ e \in killed => (~new.limited => new.timing.end = "past")
  BY <1>3
<1>5. /\ Advances /\ (\A v \in Versions : VersionHolds(v)') /\ (\A s \in Scopes : ScopeHolds(s)')
      /\ (\A f \in Experiments : ExperimentHolds(f)')
      /\ experiments' \in [Experiments -> Experiment \cup {None}]
  BY <1>2, <1>4, ExperimentStep
<1>6. TypeOK'
  BY <1>1, <1>2, <1>5 DEF TypeOK
<1>7. \A t \in Threads : ThreadHolds(t)'
  BY <1>1, <1>2, <1>5, <1>6, ThreadStays DEF PInv
<1>8. \A p \in Processes, k \in Keys : EntryHolds(p, k)'
  BY <1>1, <1>2, <1>5, <1>6, EntryStays DEF PInv
<1> QED BY <1>5, <1>6, <1>7, <1>8 DEF PInv

LEMMA AskExperimentStep ==
  ASSUME PInv, NEW t \in Threads, NEW e \in Experiments, NEW op \in {"start", "kill", "complete"},
         AskExperiment(t, e, op)
  PROVE  PInv'
<1> DEFINE work == [op |-> op, experiment |-> e, seen |-> experiments[e].timing]
<1>1. experiments[e] \in Experiment /\ TypeOK
  BY DEF AskExperiment, PInv, TypeOK
<1>2. work \in Request /\ work.op = op /\ work.experiment = e
  <2>1. experiments[e].timing \in Timing
    BY <1>1 DEF Experiment
  <2> QED BY <2>1 DEF Request
<1>3. Serve(t, work)
  BY DEF AskExperiment
<1> HIDE DEF work
<1>4. Turns(t, work)
  BY <1>1, <1>2, <1>3, ServeTurns
<1>5. ThreadHolds(t)'
  BY <1>2, <1>4 DEF AskExperiment, Turns, ThreadHolds, At, Serving, Experimenting
<1> QED BY <1>2, <1>4, <1>5, RequestStep DEF AskExperiment

\* A commit of t that updates its experiment.
LEMMA ExperimentCommit ==
  ASSUME PInv, NEW t \in Threads, Experimenting(t), Done(t),
         NEW status \in {"draft", "running", "completed", "killed"},
         NEW end \in {"unset", "ahead", "past"},
         experiments' = [experiments EXCEPT
           ![threads[t].experiment] = Update(experiments[threads[t].experiment], status, end)],
         killed' \subseteq killed \cup {threads[t].experiment},
         threads[t].experiment \in killed' =>
           (~experiments[threads[t].experiment].limited => end = "past"),
         UNCHANGED <<versions, seeds, deployments, cache, approved, left>>
  PROVE  PInv'
<1> DEFINE e == threads[t].experiment
           new == Update(experiments[e], status, end)
<1>1. TypeOK /\ e \in Experiments /\ experiments[e] \in Experiment
  BY Shapes DEF PInv, ThreadHolds, TypeOK
<1>2. /\ new \in Experiment /\ new.limited = experiments[e].limited /\ new.timing.end = end
  BY <1>1, ExperimentIs
<1> HIDE DEF e, new
<1>3. /\ experiments' = [experiments EXCEPT ![e] = new]
      /\ e \in killed' => (~new.limited => new.timing.end = "past")
      /\ killed' \subseteq killed \cup {e}
  BY <1>2 DEF e, new
<1>4. /\ Advances /\ (\A v \in Versions : VersionHolds(v)') /\ (\A s \in Scopes : ScopeHolds(s)')
      /\ (\A f \in Experiments : ExperimentHolds(f)')
      /\ experiments' \in [Experiments -> Experiment \cup {None}] /\ killed' \subseteq Experiments
  BY <1>1, <1>2, <1>3, ExperimentStep
<1>5. Turns(t, None)
  BY <1>1, ServeTurns
<1>6. TypeOK'
  BY <1>1, <1>4, <1>5 DEF TypeOK, Turns
<1>7. ThreadHolds(t)'
  BY <1>5, RestHolds DEF Turns
<1> QED BY <1>4, <1>5, <1>6, <1>7, CommitStep DEF Turns

\* What Write makes of an experiment.
LEMMA Writes ==
  ASSUME TypeOK, NEW e \in Experiments, experiments[e] # None, NEW seen, NEW status, NEW end,
         Write(e, seen, status, end)
  PROVE  experiments' = [experiments EXCEPT ![e] =
           Update(experiments[e], Written(status, seen.status, experiments[e].timing.status),
                  Written(end, seen.end, experiments[e].timing.end))]
<1> DEFINE x == experiments[e]
           u == Written(status, seen.status, x.timing.status)
           m == [x EXCEPT !.timing.status = u]
<1>1. x \in Experiment /\ experiments \in [Experiments -> Experiment \cup {None}]
  BY DEF TypeOK
<1>2. m.timing.end = x.timing.end
  <2>1. x.timing \in Timing
    BY <1>1 DEF Experiment
  <2> QED BY <1>1, <2>1 DEF Experiment, Timing
<1>3. experiments' = [experiments EXCEPT ![e] =
        [m EXCEPT !.timing.end = Written(end, seen.end, m.timing.end)]]
  BY ZenonT(60), <1>1 DEF Write
<1> QED BY <1>2, <1>3 DEF Update

LEMMA TimingIs ==
  ASSUME PInv, NEW t \in Threads, Experimenting(t)
  PROVE  /\ threads[t].experiment \in Experiments
         /\ experiments[threads[t].experiment] \in Experiment
         /\ experiments[threads[t].experiment] # None
         /\ experiments[threads[t].experiment].timing \in Timing
         /\ threads[t].seen \in Timing
         /\ ExperimentHolds(threads[t].experiment)
<1>1. /\ TypeOK /\ threads[t].experiment \in Experiments /\ threads[t].seen \in Timing
      /\ experiments[threads[t].experiment] # None
  BY Shapes DEF PInv, ThreadHolds
<1>2. experiments[threads[t].experiment] \in Experiment
  BY <1>1 DEF TypeOK
<1> QED BY <1>1, <1>2 DEF PInv, Experiment

LEMMA CommitStartStep ==
  ASSUME PInv, NEW t \in Threads, CommitStart(t) PROVE PInv'
<1> DEFINE e == threads[t].experiment
           seen == threads[t].seen
           x == experiments[e]
           d == IF seen.end = "unset" /\ x.limited THEN "ahead" ELSE seen.end
           u == Written("running", seen.status, x.timing.status)
           w == Written(d, seen.end, x.timing.end)
<1>1. Experimenting(t) /\ Done(t) /\ Write(e, seen, "running", d)
  BY DEF CommitStart, Experimenting, Serving
<1>2. /\ e \in Experiments /\ x \in Experiment /\ x # None /\ x.timing \in Timing /\ seen \in Timing
      /\ ExperimentHolds(e) /\ TypeOK
  BY <1>1, TimingIs DEF PInv
<1>3. /\ u \in {"draft", "running", "completed", "killed"} /\ w \in {"unset", "ahead", "past"}
      /\ ~x.limited => w = x.timing.end
  BY <1>2 DEF Timing, Written
<1>4. experiments' = [experiments EXCEPT ![e] = Update(x, u, w)]
  <2> HIDE DEF d
  <2> QED BY <1>1, <1>2, Writes
<1>5. UNCHANGED <<versions, seeds, deployments, cache, approved, left, killed>>
  BY DEF CommitStart
<1>6. e \in killed' => (~x.limited => w = "past")
  BY <1>2, <1>3, <1>5 DEF ExperimentHolds
<1> HIDE DEF u, w
<1> QED BY <1>1, <1>3, <1>4, <1>5, <1>6, ExperimentCommit

LEMMA CommitCompleteStep ==
  ASSUME PInv, NEW t \in Threads, CommitComplete(t) PROVE PInv'
<1> DEFINE e == threads[t].experiment
           seen == threads[t].seen
           x == experiments[e]
           d == IF seen.end = "unset" THEN "past" ELSE seen.end
           u == Written("completed", seen.status, x.timing.status)
           w == Written(d, seen.end, x.timing.end)
<1>1. Experimenting(t) /\ Done(t) /\ Write(e, seen, "completed", d)
  BY DEF CommitComplete, Experimenting, Serving
<1>2. /\ e \in Experiments /\ x \in Experiment /\ x # None /\ x.timing \in Timing /\ seen \in Timing
      /\ ExperimentHolds(e) /\ TypeOK
  BY <1>1, TimingIs DEF PInv
<1>3. /\ u \in {"draft", "running", "completed", "killed"} /\ w \in {"unset", "ahead", "past"}
      /\ w = "past" \/ w = x.timing.end
  BY <1>2 DEF Timing, Written
<1>4. experiments' = [experiments EXCEPT ![e] = Update(x, u, w)]
  <2> HIDE DEF d
  <2> QED BY <1>1, <1>2, Writes
<1>5. UNCHANGED <<versions, seeds, deployments, cache, approved, left, killed>>
  BY DEF CommitComplete
<1>6. e \in killed' => (~x.limited => w = "past")
  BY <1>2, <1>3, <1>5 DEF ExperimentHolds
<1> HIDE DEF u, w
<1> QED BY <1>1, <1>3, <1>4, <1>5, <1>6, ExperimentCommit

LEMMA CommitKillStep ==
  ASSUME PInv, NEW t \in Threads, CommitKill(t) PROVE PInv'
<1> DEFINE e == threads[t].experiment
           seen == threads[t].seen
           x == experiments[e]
           u == Written("killed", seen.status, x.timing.status)
<1>1. Experimenting(t) /\ Done(t)
  BY DEF CommitKill, Experimenting, Serving
<1>2. /\ e \in Experiments /\ x \in Experiment /\ x.timing \in Timing /\ seen \in Timing /\ TypeOK
  BY <1>1, TimingIs DEF PInv
<1>3. u \in {"draft", "running", "completed", "killed"}
  BY <1>2 DEF Timing, Written
<1>4. experiments' = [experiments EXCEPT ![e] = Update(x, u, "past")]
  BY <1>2 DEF CommitKill, Update, TypeOK
<1>5. UNCHANGED <<versions, seeds, deployments, cache, approved, left>> /\ killed' = killed \cup {e}
  BY DEF CommitKill
<1> HIDE DEF u
<1> QED BY <1>1, <1>3, <1>4, <1>5, ExperimentCommit

-----------------------------------------------------------------------------
(* Time, and processes that restart.                                       *)

LEMMA TickStep ==
  ASSUME PInv, Tick PROVE PInv'
<1>1. /\ TypeOK /\ UNCHANGED <<versions, seeds, deployments, experiments, approved, killed>>
      /\ left \in [Scopes -> [Deployed -> 0 .. TTL]]
      /\ cache \in [Processes -> [Keys -> Found \cup {None}]]
      /\ threads \in [Threads -> Request \cup {None}]
  BY DEF PInv, TypeOK, Tick
<1>2. ASSUME NEW s \in Scopes, NEW v \in Deployed
      PROVE  /\ left'[s][v] \in 0 .. TTL
             /\ v \in Current(deployments[s]) => left'[s][v] = 0
             /\ \A age \in 0 .. TTL : left[s][v] <= age => left'[s][v] <= Older(age)
  <2>1. left'[s][v] = IF v \in Current(deployments[s]) THEN 0 ELSE Older(left[s][v])
    BY DEF Tick
  <2>2. left[s][v] \in 0 .. TTL /\ 0 \in 0 .. TTL
    BY <1>1, Consts
  <2>3. \A age \in 0 .. TTL : 0 <= Older(age)
    BY OlderKeeps
  <2> QED BY <2>1, <2>2, <2>3, OlderKeeps
<1>3. left' \in [Scopes -> [Deployed -> 0 .. TTL]]
  BY <1>2 DEF Tick
<1>4. ASSUME NEW f \in Found
      PROVE  /\ [f EXCEPT !.age = Older(f.age)] \in Found
             /\ [f EXCEPT !.age = Older(f.age)] =
                  [platform |-> f.platform, widget |-> f.widget, age |-> Older(f.age)]
             /\ f.platform \in Deployed /\ f.widget \in Deployed /\ f.age \in 0 .. TTL
  <2>1. f.age \in 0 .. TTL
    BY DEF Found
  <2>2. Older(f.age) \in 0 .. TTL
    BY <2>1, OlderKeeps
  <2> QED BY <2>1, <2>2 DEF Found
<1>5. ASSUME NEW p \in Processes, NEW k \in Keys
      PROVE  cache'[p][k] \in Found \cup {None} /\ EntryHolds(p, k)'
  <2> DEFINE f == cache[p][k]
  <2>1. CASE ~Valid(f)
    <3>1. cache'[p][k] = None
      BY <2>1 DEF Tick
    <3> QED BY <3>1 DEF EntryHolds, Valid
  <2>2. CASE Valid(f)
    <3>1. f \in Found /\ f # None /\ EntryHolds(p, k)
      BY <1>1, <2>2 DEF Valid, PInv
    <3>2. /\ f.platform \in Deployed /\ f.widget \in Deployed /\ f.age \in 0 .. TTL
          /\ Platform \in Scopes /\ k \in Scopes
      BY <1>4, <3>1, Consts
    <3>3. /\ cache'[p][k] = [platform |-> f.platform, widget |-> f.widget, age |-> Older(f.age)]
          /\ cache'[p][k] \in Found
      <4>1. cache'[p][k] = [f EXCEPT !.age = Older(f.age)]
        BY <2>2 DEF Tick
      <4> HIDE DEF f
      <4> QED BY <1>4, <3>1, <4>1
    <3>4. /\ left[Platform][f.platform] <= f.age
          /\ k # Platform => left[k][f.widget] <= f.age
      BY <2>2, <3>1 DEF EntryHolds
    <3> HIDE DEF f
    <3>5. /\ left'[Platform][f.platform] <= Older(f.age)
          /\ k # Platform => left'[k][f.widget] <= Older(f.age)
      BY <1>2, <3>2, <3>4
    <3>6. {f.platform, f.widget} \subseteq approved' \cup {None}
      BY <1>1, <3>1 DEF EntryHolds, f
    <3> QED BY <3>3, <3>5, <3>6 DEF EntryHolds, Valid
  <2> QED BY <2>1, <2>2
<1>6. ASSUME NEW t \in Threads, Serving(t, {"resolve"})
      PROVE  threads'[t] \in Request /\ ThreadHolds(t)'
  <2> DEFINE f == threads[t].found
             work == Lookup(threads[t].at, threads[t].scope, f.platform, f.widget, Older(f.age))
  <2>1. /\ threads[t] = Lookup(threads[t].at, threads[t].scope, f.platform, f.widget, f.age)
        /\ threads[t].at \in {"platform", "widget", "store"} /\ threads[t].scope \in Scopes
        /\ f \in Found /\ f.platform \in Deployed
        /\ f.widget \in Deployed /\ f.age \in 0 .. TTL /\ LookupHolds(t) /\ Platform \in Scopes
    BY <1>1, <1>6, LookupWas, Consts DEF PInv, ThreadHolds
  <2>2. threads'[t] = [threads[t] EXCEPT !.found.age = Older(f.age)]
    BY <1>6 DEF Tick, Serving
  <2>3. threads'[t] = work
    BY <2>1, <2>2 DEF Lookup
  <2>4. work \in Request
    BY <2>1, OlderKeeps, LookupIs
  <2>5. /\ threads[t].at \in {"widget", "store"} => left'[Platform][f.platform] <= Older(f.age)
        /\ threads[t].at = "store" /\ threads[t].scope # Platform =>
             left'[threads[t].scope][f.widget] <= Older(f.age)
    BY <1>2, <2>1 DEF LookupHolds
  <2>6. {f.platform, f.widget} \subseteq approved' \cup {None}
    BY <1>1, <2>1 DEF LookupHolds
  <2>7. ThreadHolds(t)'
    BY <2>3, <2>5, <2>6, LookupTurned
  <2> QED BY <2>3, <2>4, <2>7
<1>7. ASSUME NEW t \in Threads, ~Serving(t, {"resolve"})
      PROVE  threads'[t] = threads[t] /\ ThreadHolds(t)'
  <2>1. threads'[t] = threads[t]
    BY <1>7 DEF Tick, Serving
  <2> QED BY <1>1, <1>7, <2>1
          DEF PInv, ThreadHolds, At, Serving, Experimenting, Idle, DeploymentHolds, RollbackHolds
<1>8. TypeOK'
  <2>1. threads' \in [Threads -> Request \cup {None}]
    BY <1>1, <1>6, <1>7 DEF Tick
  <2>2. cache' \in [Processes -> [Keys -> Found \cup {None}]]
    BY <1>5 DEF Tick
  <2> QED BY <1>1, <1>3, <2>1, <2>2 DEF TypeOK
<1>9. ASSUME NEW s \in Scopes PROVE ScopeHolds(s)'
  <2>1. \A v \in Current(deployments[s]) : v \in Deployed
    BY CurrentHolds
  <2>2. \A v \in Current(deployments'[s]) : left'[s][v] = 0
    BY <1>1, <1>2, <2>1
  <2> QED BY <1>1, <2>2 DEF PInv, ScopeHolds
<1>10. /\ \A v \in Versions : VersionHolds(v)'
       /\ \A e \in Experiments : ExperimentHolds(e)'
  BY <1>1 DEF PInv, VersionHolds, ExperimentHolds
<1> QED BY <1>5, <1>6, <1>7, <1>8, <1>9, <1>10 DEF PInv

LEMMA RestartStep ==
  ASSUME PInv, NEW q \in Processes, Restart(q) PROVE PInv'
<1>1. /\ TypeOK /\ UNCHANGED <<versions, seeds, deployments, experiments, approved, left, killed>>
  BY DEF PInv, Restart
<1>2. /\ cache' \in [Processes -> [Keys -> Found \cup {None}]]
      /\ \A p \in Processes, k \in Keys : cache'[p][k] \in {None, cache[p][k]}
  BY <1>1 DEF Restart, TypeOK
<1>3. /\ threads' \in [Threads -> Request \cup {None}]
      /\ \A t \in Threads : threads'[t] \in {None, threads[t]}
  BY <1>1 DEF Restart, TypeOK
<1>4. TypeOK'
  BY <1>1, <1>2, <1>3 DEF TypeOK
<1>5. /\ Advances /\ (\A s \in Scopes : ScopeHolds(s)') /\ (\A e \in Experiments : ExperimentHolds(e)')
      /\ \A v \in Versions : VersionHolds(v)'
  BY <1>1, Reviewed, ExperimentsStay DEF PInv, VersionHolds
<1>6. \A t \in Threads : ThreadHolds(t)'
  BY <1>1, <1>3, <1>4, <1>5, RestHolds, ThreadStays DEF PInv
<1>7. ASSUME NEW p \in Processes, NEW k \in Keys PROVE EntryHolds(p, k)'
  <2>1. CASE cache'[p][k] = None
    BY <2>1 DEF EntryHolds, Valid
  <2>2. CASE cache'[p][k] = cache[p][k]
    BY <1>1, <1>4, <1>5, <2>2, EntryStays DEF PInv
  <2> QED BY <1>2, <2>1, <2>2
<1> QED BY <1>4, <1>5, <1>6, <1>7 DEF PInv

-----------------------------------------------------------------------------
(* The theorems.                                                           *)

LEMMA InitPInv == Init => PInv
<1> SUFFICES ASSUME Init PROVE PInv
  OBVIOUS
<1>1. TypeOK
  <2>1. deployments \in [Scopes -> Seq(Row)]
    BY DEF Init
  <2>2. left \in [Scopes -> [Deployed -> 0 .. TTL]]
    BY Consts DEF Init
  <2> QED BY <2>1, <2>2 DEF Init, TypeOK
<1>2. \A t \in Threads : ThreadHolds(t)
  BY DEF Init, ThreadHolds, At, Serving, Experimenting, Idle
<1>3. \A v \in Versions : VersionHolds(v)
  BY DEF Init, VersionHolds
<1>4. ASSUME NEW s \in Scopes PROVE ScopeHolds(s)
  <2>1. deployments[s] = <<>> /\ left[s][None] = 0
    BY Consts DEF Init
  <2> QED BY <2>1, Consts DEF ScopeHolds, Current
<1>5. \A p \in Processes, k \in Keys : EntryHolds(p, k)
  BY DEF Init, EntryHolds, Valid
<1>6. \A e \in Experiments : ExperimentHolds(e)
  BY DEF Init, ExperimentHolds
<1> QED BY <1>1, <1>2, <1>3, <1>4, <1>5, <1>6 DEF PInv

LEMMA NextPInv == PInv /\ [Next]_vars => PInv'
<1> SUFFICES ASSUME PInv, [Next]_vars PROVE PInv'
  OBVIOUS
<1>1. ASSUME NEW t \in Threads, Step(t) PROVE PInv'
  BY <1>1, AskTransitionStep, CommitTransitionStep, AskTemplatesStep, SeedTemplateStep,
     DeploySeedStep, AskDeploymentStep, FindDeploymentStep, CommitDeploymentStep, AskRollbackStep,
     CommitRollbackStep, InvalidateCacheStep, ResolveStep, ReadPlatformStep, ReadWidgetStep,
     StoreStep, AskExperimentStep, CommitStartStep, CommitKillStep, CommitCompleteStep
     DEF Step
<1>2. ASSUME NEW v \in Versions, CreateVersion(v) PROVE PInv'
  BY <1>2, CreateVersionStep
<1>3. ASSUME NEW e \in Experiments, CreateExperiment(e) \/ RecordGate(e) \/ Expire(e) PROVE PInv'
  BY <1>3, CreateExperimentStep
<1>4. ASSUME NEW p \in Processes, Restart(p) PROVE PInv'
  BY <1>4, RestartStep
<1>5. CASE Tick
  BY <1>5, TickStep
<1>6. CASE UNCHANGED vars
  <2>1. TypeOK'
    BY <1>6 DEF PInv, TypeOK, vars
  <2> QED BY <1>6, <2>1
          DEF PInv, vars, ThreadHolds, At, Serving, Experimenting, Idle, DeploymentHolds,
              RollbackHolds, LookupHolds, VersionHolds, ScopeHolds, Current, EntryHolds, Valid,
              ExperimentHolds
<1> QED BY <1>1, <1>2, <1>3, <1>4, <1>5, <1>6 DEF Next

\* What every request may rely on of what it has read holds in every state.
THEOREM PromptsInvariance == Spec => []PInv
  BY InitPInv, NextPInv, PTL DEF Spec

\* Rows, requests and caches keep their shapes.
THEOREM PromptsTypes == Spec => []TypeOK
<1>1. PInv => TypeOK
  BY DEF PInv
<1> QED BY <1>1, PromptsInvariance, PTL

\* The review cannot be passed by on the way to a deployment or a cache's entry,
\* whatever transitions, deployments and rollbacks overlap.
THEOREM Reviews == Spec => []OnlyReviewedIsDeployed
<1>1. PInv => OnlyReviewedIsDeployed
  BY DEF PInv, ScopeHolds, EntryHolds, OnlyReviewedIsDeployed
<1> QED BY <1>1, PromptsInvariance, PTL

\* No cache serves what ceased to be deployed more than the TTL ago.
THEOREM Freshness == Spec => []ServedWithinTTL
<1>1. PInv => ServedWithinTTL
  BY DEF PInv, EntryHolds, ServedWithinTTL
<1> QED BY <1>1, PromptsInvariance, PTL

\* A killed experiment without a duration takes no traffic again, whatever
\* starts and completions overtake the kill.
THEOREM Death == Spec => []KilledStaysDead
<1>1. PInv => KilledStaysDead
  BY DEF PInv, TypeOK, ExperimentHolds, KilledStaysDead, Live
<1> QED BY <1>1, PromptsInvariance, PTL

-----------------------------------------------------------------------------
(***************************************************************************)
(* Documents, for every number of documents and handlers, every text and   *)
(* every chunk setting.                                                    *)
(*                                                                         *)
(* Handlers check a status once and write over it later, so the invariant  *)
(* says which rows and files a handler at each statement may count on      *)
(* (RowHolds, and what holds of a handler), which are the same whoever     *)
(* else commits; and that chunks are all of one split of the text the file *)
(* holds (IsSplit), so that a second split or embedding finds them whole.  *)
(***************************************************************************)

\* The chunks are a split of a text of n words, whatever has embedded them.
IsSplit(rows, n, s) ==
  /\ Len(rows) = Len(Ingestion!SplitText(n, s))
  /\ \A i \in 1 .. Len(rows) :
       rows[i].from = Ingestion!SplitText(n, s)[i].from /\ rows[i].to = Ingestion!SplitText(n, s)[i].to

Saving(h, d) == handlers[h] # LibraryNone /\ handlers[h].op = "upload" /\ handlers[h].at = "file" /\ handlers[h].doc = d

\* What a handler has read of its document still holds: rows do not disappear, an upload
\* has its file and its document to itself, an extraction that is about to commit has
\* saved the text, and an embedding has loaded as many chunks as there are.
HandlerHolds(h) ==
  LET q == handlers[h] IN
  q # LibraryNone =>
    /\ Saving(h, q.doc) =>
         /\ documents[q.doc].status = "absent" /\ editions[q.doc].status = "absent"
         /\ Ingestion!Original(q.doc) \in files
         /\ \A o \in Handlers : Saving(o, q.doc) => o = h
    /\ q.op = "document" => documents[q.doc].status # "absent" /\ q.target \in Ingestion!DocumentStatuses
    /\ q.op \in {"extract", "chunk", "embed", "version"} => editions[q.doc].status # "absent"
    /\ q.op = "version" => q.target \in Ingestion!VersionStatuses
    /\ q.op = "embed" =>
         /\ q.by \in Providers
         /\ chunks[q.doc] # <<>> /\ DOMAIN q.seen = DOMAIN chunks[q.doc]
    /\ q.op = "extract" /\ q.at = "work" => Ingestion!Extracted(q.doc) \in files

RowHolds(d) ==
  /\ editions[d].status # "absent" => documents[d].status # "absent" /\ Ingestion!Original(d) \in files
  /\ editions[d].text => Ingestion!Extracted(d) \in files
  /\ chunks[d] # <<>> =>
       /\ editions[d].status # "absent"
       /\ \E s \in Settings : IsSplit(chunks[d], words[d], s)
  /\ d \notin spoiled => \A i, j \in DOMAIN chunks[d] : chunks[d][i].by = chunks[d][j].by

DInv ==
  /\ Ingestion!TypeOK
  /\ \A h \in Handlers : HandlerHolds(h)
  /\ \A d \in Uploads : RowHolds(d)

-----------------------------------------------------------------------------
(* Splitting.                                                              *)

\* The instance's Cardinality is the library's.
LEMMA SameCardinality == \A S : Ingestion!Cardinality(S) = Cardinality(S)
BY DEF Ingestion!Cardinality, Cardinality

LEMMA Multiples ==
  ASSUME NEW step \in Nat \ {0}, NEW k \in Nat
  PROVE  /\ k * step \in Nat /\ k <= k * step /\ (k + 1) * step = k * step + step
         /\ \A j \in Nat : k < j => k * step + step <= j * step
<1>1. k * step \in Nat /\ (k + 1) * step = k * step + step
  OBVIOUS
<1>2. k <= k * step
  <2>1. PICK e \in Nat : step = e + 1
    <3>1. step - 1 \in Nat /\ step = (step - 1) + 1
      OBVIOUS
    <3> QED
      BY <3>1
  <2>2. k * (e + 1) = k * e + k /\ k * e \in Nat
    OBVIOUS
  <2> QED
    BY <2>1, <2>2
<1>3. ASSUME NEW j \in Nat, k < j PROVE k * step + step <= j * step
  <2>1. PICK e \in Nat : j = k + 1 + e
    <3>1. j - k - 1 \in Nat /\ j = k + 1 + (j - k - 1)
      BY <1>3
    <3> QED
      BY <3>1
  <2>2. (k + 1 + e) * step = k * step + step + e * step /\ e * step \in Nat
    OBVIOUS
  <2> QED
    BY <1>1, <2>1, <2>2
<1> QED
  BY <1>1, <1>2, <1>3

\* The first window that reaches the end is the last one.
LEMMA LastWindow ==
  ASSUME NEW n \in Nat \ {0}, NEW size \in Nat, NEW step \in Nat \ {0}
  PROVE  \E m \in Nat : /\ m * step + size >= n
                        /\ \A k \in 0 .. m - 1 : k * step + size < n
<1> DEFINE Reach == {k \in Nat : k * step + size >= n}
<1>1. n \in Reach
  <2>1. n <= n * step /\ n * step \in Nat
    BY Multiples
  <2> QED
    BY <2>1
<1>2. PICK m \in Reach : \A k \in Reach : <<k, m>> \notin OpToRel(<, Nat)
  <2> HIDE DEF Reach
  <2>1. Reach \subseteq Nat
    BY DEF Reach
  <2> QED
    BY <1>1, <2>1, NatLessThanWellFounded, WFMin
<1>3. ASSUME NEW k \in 0 .. m - 1 PROVE k * step + size < n
  <2>1. k \in Nat /\ m \in Nat /\ k < m
    OBVIOUS
  <2>2. k \notin Reach
    BY <1>2, <2>1, Zenon DEF OpToRel
  <2>3. k * step \in Nat
    BY <2>1, Multiples
  <2> QED
    BY <2>1, <2>2, <2>3
<1> QED
  BY <1>3

LEMMA StartsAre ==
  ASSUME NEW n \in Nat \ {0}, NEW s \in [size : Nat, overlap : Nat], s.overlap < s.size,
         NEW step, step = s.size - s.overlap
  PROVE  \E m \in Nat : /\ Ingestion!Starts(n, s) = {k * step : k \in 0 .. m}
                        /\ m * step < n /\ m * step + s.size >= n
                        /\ \A k \in 0 .. m - 1 : k * step + s.size < n
<1>1. step \in Nat \ {0} /\ s.size \in Nat /\ s.overlap \in Nat /\ s.size = step + s.overlap
  OBVIOUS
<1>2. PICK m \in Nat : m * step + s.size >= n /\ \A k \in 0 .. m - 1 : k * step + s.size < n
  BY <1>1, LastWindow
<1>3. ASSUME NEW k \in 0 .. m, k # 0 PROVE k * step + s.overlap < n
  <2>1. k - 1 \in Nat /\ k - 1 \in 0 .. m - 1
    BY <1>3
  <2>2. ((k - 1) + 1) * step = (k - 1) * step + step /\ (k - 1) * step \in Nat
    BY <1>1, <2>1, Multiples
  <2>3. (k - 1) * step + s.size < n
    BY <1>2, <2>1
  <2>4. (k - 1) + 1 = k
    BY <2>1
  <2>5. k * step = (k - 1) * step + step
    BY <2>2, <2>4
  <2> QED
    BY <1>1, <2>2, <2>3, <2>5
<1>4. ASSUME NEW k \in 0 .. m PROVE k * step \in Ingestion!Starts(n, s)
  <2>1. k \in Nat /\ k * step \in Nat /\ k <= k * step
    BY <1>1, Multiples
  <2>2. k = 0 => k * step = 0
    BY <1>1
  <2>3. k * step < n
    BY <1>1, <1>3, <2>1, <2>2
  <2>4. k \in 0 .. n /\ k * step \in 0 .. n - 1
    BY <2>1, <2>3
  <2> QED
    BY <1>1, <1>3, <2>2, <2>4 DEF Ingestion!Starts
<1>5. ASSUME NEW start \in Ingestion!Starts(n, s) PROVE \E k \in 0 .. m : start = k * step
  <2>1. PICK k \in 0 .. n : start = k * step
    BY <1>1, <1>5 DEF Ingestion!Starts
  <2>2. start = 0 \/ start + s.overlap < n
    BY <1>5 DEF Ingestion!Starts
  <2>3. ASSUME k > m PROVE FALSE
    <3>1. m * step + step <= k * step /\ m * step \in Nat /\ k * step \in Nat
      BY <1>1, <2>3, Multiples
    <3> QED
      BY <1>1, <1>2, <2>1, <2>2, <3>1
  <2> QED
    BY <2>1, <2>3
<1>6. m * step < n
  <2>1. m = 0 => m * step = 0
    BY <1>1
  <2>2. m # 0 => m * step + s.overlap < n /\ m * step \in Nat
    BY <1>1, <1>3, Multiples
  <2> QED
    BY <1>1, <2>1, <2>2
<1>7. Ingestion!Starts(n, s) = {k * step : k \in 0 .. m}
  <2>1. Ingestion!Starts(n, s) \subseteq {k * step : k \in 0 .. m}
    BY <1>5
  <2>2. {k * step : k \in 0 .. m} \subseteq Ingestion!Starts(n, s)
    BY <1>4
  <2> QED
    BY <2>1, <2>2
<1>8. m \in Nat /\ m * step + s.size >= n /\ \A k \in 0 .. m - 1 : k * step + s.size < n
  BY <1>2
<1> QED
  BY <1>6, <1>7, <1>8

LEMMA SplitIs ==
  ASSUME NEW n \in Nat \ {0}, NEW s \in [size : Nat, overlap : Nat], s.overlap < s.size,
         NEW step, step = s.size - s.overlap
  PROVE  \E m \in Nat :
           /\ Len(Ingestion!SplitText(n, s)) = m + 1
           /\ DOMAIN Ingestion!SplitText(n, s) = 1 .. m + 1
           /\ Ingestion!SplitText(n, s)
                = [i \in 1 .. m + 1 |-> [from |-> (i - 1) * step + 1,
                                         to |-> Ingestion!Lesser((i - 1) * step + s.size, n), by |-> Ingestion!Unembedded]]
           /\ m * step < n /\ m * step + s.size >= n
           /\ \A k \in 0 .. m - 1 : k * step + s.size < n
<1>1. step \in Nat \ {0}
  OBVIOUS
<1>2. PICK m \in Nat : /\ Ingestion!Starts(n, s) = {k * step : k \in 0 .. m}
                       /\ m * step < n /\ m * step + s.size >= n
                       /\ \A k \in 0 .. m - 1 : k * step + s.size < n
  BY ZenonT(60), StartsAre
<1>3. Cardinality(Ingestion!Starts(n, s)) = m + 1
  <2> DEFINE f == [k \in 0 .. m |-> k * step]
  <2>1. f \in [0 .. m -> Ingestion!Starts(n, s)]
    BY <1>2
  <2>2. \A start \in Ingestion!Starts(n, s) : \E k \in 0 .. m : f[k] = start
    BY <1>2
  <2>3. ASSUME NEW j \in 0 .. m, NEW k \in 0 .. m, f[j] = f[k] PROVE j = k
    <3>1. j \in Nat /\ k \in Nat /\ j * step = k * step /\ j * step \in Nat
      BY <1>1, <2>3, Multiples
    <3>2. j < k => j * step + step <= k * step
      BY <1>1, <3>1, Multiples
    <3>3. k < j => k * step + step <= j * step
      BY <1>1, <3>1, Multiples
    <3> QED
      BY <1>1, <3>1, <3>2, <3>3
  <2> HIDE DEF f
  <2>4. ExistsBijection(0 .. m, Ingestion!Starts(n, s))
    BY <2>1, <2>2, <2>3 DEF ExistsBijection, Bijection, Injection, Surjection, IsInjective
  <2>5. IsFiniteSet(0 .. m) /\ Cardinality(0 .. m) = m + 1
    <3>1. 0 \in Int /\ m \in Int
      OBVIOUS
    <3>2. IsFiniteSet(0 .. m) /\ Cardinality(0 .. m) = IF 0 > m THEN 0 ELSE m - 0 + 1
      BY <3>1, FS_Interval
    <3> QED
      BY <3>2
  <2> QED
    BY <2>4, <2>5, FS_Bijection
<1>4. Ingestion!SplitText(n, s)
        = [i \in 1 .. m + 1 |-> [from |-> (i - 1) * step + 1,
                                 to |-> Ingestion!Lesser((i - 1) * step + s.size, n), by |-> Ingestion!Unembedded]]
  BY <1>3, SameCardinality DEF Ingestion!SplitText
<1>5. DOMAIN Ingestion!SplitText(n, s) = 1 .. m + 1 /\ Len(Ingestion!SplitText(n, s)) = m + 1
  <2>1. m + 1 \in Nat
    OBVIOUS
  <2> QED
    BY <1>4, <2>1
<1> QED
  BY <1>2, <1>4, <1>5

\* What a split of a text is like, in the words of the property.
Tiles(rows, last, n, s) ==
  /\ rows[1].from = 1 /\ rows[last].to = n
  /\ \A i \in 1 .. last - 1 :
       /\ rows[i].to - rows[i].from + 1 = s.size
       /\ rows[i].to - rows[i + 1].from + 1 = s.overlap
       /\ rows[i].to < rows[i + 1].to

LEMMA SplitCovers ==
  ASSUME NEW n \in Nat \ {0}, NEW s \in [size : Nat, overlap : Nat], s.overlap < s.size, NEW last,
         last = Len(Ingestion!SplitText(n, s)), NEW rows, rows = Ingestion!SplitText(n, s)
  PROVE  /\ last \in Nat \ {0} /\ DOMAIN rows = 1 .. last
         /\ \A i \in 1 .. last : rows[i] \in [from : 1 .. n, to : 1 .. n, by : {Ingestion!Unembedded}]
         /\ Tiles(rows, last, n, s)
<1>1. PICK step : step = s.size - s.overlap
  OBVIOUS
<1>2. step \in Nat \ {0} /\ s.size \in Nat /\ s.overlap \in Nat /\ s.size = step + s.overlap
  BY <1>1
<1>3. PICK m \in Nat :
           /\ last = m + 1 /\ DOMAIN rows = 1 .. m + 1
           /\ rows = [i \in 1 .. m + 1 |-> [from |-> (i - 1) * step + 1,
                                            to |-> Ingestion!Lesser((i - 1) * step + s.size, n), by |-> Ingestion!Unembedded]]
           /\ m * step < n /\ m * step + s.size >= n
           /\ \A k \in 0 .. m - 1 : k * step + s.size < n
  BY <1>1, SplitIs
<1>4. ASSUME NEW k \in 0 .. m
      PROVE  /\ rows[k + 1].from = k * step + 1 /\ rows[k + 1].to = Ingestion!Lesser(k * step + s.size, n)
             /\ k * step \in Nat /\ k * step < n
             /\ rows[k + 1] = [from |-> k * step + 1, to |-> Ingestion!Lesser(k * step + s.size, n), by |-> Ingestion!Unembedded]
  <2>1. k + 1 \in 1 .. m + 1 /\ (k + 1) - 1 = k /\ k \in Nat
    OBVIOUS
  <2>2. k * step \in Nat
    BY <1>2, <2>1, Multiples
  <2>3. k < m => k * step + s.size < n
    BY <1>3, <2>1
  <2>4. k = m \/ k < m
    OBVIOUS
  <2>5. k * step < n
    <3>1. PICK a \in Nat : a = k * step
      BY <2>2
    <3>2. CASE k = m
      BY <1>3, <3>2
    <3>3. CASE k < m
      <4>1. a + s.size < n
        BY <2>3, <3>1, <3>3
      <4> QED
        BY <1>2, <3>1, <4>1
    <3> QED
      BY <2>4, <3>2, <3>3
  <2>6. rows[k + 1] = [from |-> k * step + 1, to |-> Ingestion!Lesser(k * step + s.size, n), by |-> Ingestion!Unembedded]
    BY <1>3, <2>1
  <2> HIDE DEF Ingestion!Lesser
  <2> QED
    BY <2>2, <2>5, <2>6
<1>5. ASSUME NEW i \in 1 .. last PROVE rows[i] \in [from : 1 .. n, to : 1 .. n, by : {Ingestion!Unembedded}]
  <2>1. PICK k \in 0 .. m : i = k + 1
    <3>1. i - 1 \in 0 .. m /\ i = (i - 1) + 1
      BY <1>3
    <3> QED
      BY <3>1
  <2>2. /\ k * step \in Nat /\ k * step < n
        /\ rows[i] = [from |-> k * step + 1, to |-> Ingestion!Lesser(k * step + s.size, n), by |-> Ingestion!Unembedded]
    BY <1>4, <2>1
  <2>3. k * step + 1 \in 1 .. n /\ Ingestion!Lesser(k * step + s.size, n) \in 1 .. n
    <3>1. PICK at \in Nat : at = k * step
      BY <2>2
    <3>2. at < n /\ s.size \in Nat \ {0}
      BY <2>2, <3>1
    <3>3. at + 1 \in 1 .. n /\ Ingestion!Lesser(at + s.size, n) \in 1 .. n
      BY <3>2 DEF Ingestion!Lesser
    <3> QED
      BY <3>1, <3>3
  <2> HIDE DEF Ingestion!Lesser
  <2> QED
    BY <2>2, <2>3
<1>6. rows[1].from = 1
  <2>1. 0 * step = 0 /\ 0 \in 0 .. m /\ 0 + 1 = 1
    BY <1>2
  <2> QED
    BY <1>4, <2>1
<1>7. rows[last].to = n
  <2>1. m \in 0 .. m
    OBVIOUS
  <2> QED
    BY <1>2, <1>3, <1>4, <2>1 DEF Ingestion!Lesser
<1>8. ASSUME NEW i \in 1 .. last - 1
      PROVE  /\ rows[i].to - rows[i].from + 1 = s.size
             /\ rows[i].to - rows[i + 1].from + 1 = s.overlap
             /\ rows[i].to < rows[i + 1].to
  <2>1. PICK k \in 0 .. m - 1 : i = k + 1
    <3>1. i - 1 \in 0 .. m - 1 /\ i = (i - 1) + 1
      BY <1>3
    <3> QED
      BY <3>1
  <2>2. k \in 0 .. m /\ k + 1 \in 0 .. m /\ k \in Nat
    OBVIOUS
  <2>3. k * step + s.size < n /\ k * step \in Nat
    BY <1>3, <1>4, <2>2
  <2>4. (k + 1) * step = k * step + step
    BY <1>2, <2>2, Multiples
  <2>5. rows[i].from = k * step + 1 /\ rows[i].to = k * step + s.size
    BY <1>2, <1>4, <2>1, <2>2, <2>3 DEF Ingestion!Lesser
  <2>6. rows[i + 1].from = k * step + step + 1 /\ rows[i + 1].to = Ingestion!Lesser(k * step + step + s.size, n)
    BY <1>4, <2>1, <2>2, <2>4
  <2>7. k * step + s.size < Ingestion!Lesser(k * step + step + s.size, n)
    BY <1>2, <2>3 DEF Ingestion!Lesser
  <2>8. PICK a \in Nat : a = k * step
    BY <2>3
  <2>9. rows[i].from = a + 1 /\ rows[i].to = a + s.size /\ rows[i + 1].from = a + step + 1
    BY <2>5, <2>6, <2>8
  <2>10. rows[i].to - rows[i].from + 1 = s.size /\ rows[i].to - rows[i + 1].from + 1 = s.overlap
    <3>1. PICK size \in Nat, overlap \in Nat : size = s.size /\ overlap = s.overlap
      BY <1>2
    <3>2. size = step + overlap
      BY <1>2, <3>1
    <3>3. (a + size) - (a + 1) + 1 = size /\ (a + size) - (a + step + 1) + 1 = overlap
      BY <1>2, <2>8, <3>2
    <3> QED
      BY <2>9, <3>1, <3>3
  <2>11. rows[i].to < rows[i + 1].to
    BY <2>5, <2>6, <2>7
  <2> QED
    BY <2>10, <2>11
<1>9. last \in Nat \ {0} /\ DOMAIN rows = 1 .. last
  BY <1>3
<1>10. Tiles(rows, last, n, s)
  BY <1>6, <1>7, <1>8 DEF Tiles
<1> QED
  BY <1>5, <1>9, <1>10

LEMMA SettingsAre ==
  ASSUME Ingestion!Admissible, NEW s \in Settings
  PROVE  s \in [size : Nat, overlap : Nat] /\ s.overlap < s.size
BY DEF Ingestion!Admissible

\* A text without words has no chunk.
LEMMA EmptyText ==
  ASSUME NEW s
  PROVE  Ingestion!SplitText(0, s) = <<>>
<1>1. Ingestion!Starts(0, s) = {}
  BY DEF Ingestion!Starts
<1>2. Cardinality(Ingestion!Starts(0, s)) = 0
  BY <1>1, FS_EmptySet
<1> QED
  BY <1>2, SameCardinality DEF Ingestion!SplitText

LEMMA SplitTypes ==
  ASSUME Ingestion!Admissible, NEW n \in 0 .. MaxWords, NEW s \in Settings
  PROVE  Ingestion!SplitText(n, s) \in Seq(Ingestion!Chunk) /\ \A i \in 1 .. Len(Ingestion!SplitText(n, s)) : Ingestion!SplitText(n, s)[i].by = Ingestion!Unembedded
<1>1. CASE n = 0
  <2>1. Ingestion!SplitText(n, s) = <<>>
    BY <1>1, EmptyText
  <2> QED
    BY <2>1
<1>2. CASE n # 0
  <2>1. n \in Nat \ {0} /\ s \in [size : Nat, overlap : Nat] /\ s.overlap < s.size /\ MaxWords \in Nat
    BY <1>2, SettingsAre DEF Ingestion!Admissible
  <2>2. PICK rows, last : rows = Ingestion!SplitText(n, s) /\ last = Len(Ingestion!SplitText(n, s))
    OBVIOUS
  <2>3. /\ last \in Nat \ {0} /\ DOMAIN rows = 1 .. last
        /\ \A i \in 1 .. last : rows[i] \in [from : 1 .. n, to : 1 .. n, by : {Ingestion!Unembedded}]
    BY <2>1, <2>2, SplitCovers
  <2>4. \A i \in 1 .. last : rows[i] \in Ingestion!Chunk /\ rows[i].by = Ingestion!Unembedded
    <3>1. Ingestion!Unembedded \in Ingestion!Embedder
      BY DEF Ingestion!Unembedded, Ingestion!Embedder
    <3> QED
      BY <2>1, <2>3, <3>1 DEF Ingestion!Chunk
  <2>5. rows = [i \in 1 .. last |-> rows[i]]
    BY <2>2, <2>3 DEF Ingestion!SplitText
  <2>6. rows \in [1 .. last -> Ingestion!Chunk]
    BY <2>4, <2>5
  <2>7. rows \in Seq(Ingestion!Chunk)
    BY <2>3, <2>6
  <2> QED
    BY <2>2, <2>4, <2>7
<1> QED
  BY <1>1, <1>2

-----------------------------------------------------------------------------
(* Steps.                                                                  *)

\* The columns of a chunk that say what embedded it.
LEMMA ChunkRows ==
  ASSUME NEW rows \in Seq(Ingestion!Chunk)
  PROVE  DOMAIN rows = 1 .. Len(rows) /\ \A i \in 1 .. Len(rows) : rows[i].by \in Ingestion!Embedder
<1>1. DOMAIN rows = 1 .. Len(rows) /\ \A i \in 1 .. Len(rows) : rows[i] \in Ingestion!Chunk
  OBVIOUS
<1>2. \A row \in Ingestion!Chunk : row.by \in Ingestion!Embedder
  BY DEF Ingestion!Chunk
<1> QED
  BY <1>1, <1>2

LEMMA RequestTypes ==
  ASSUME Ingestion!Admissible, DInv, NEW h \in Handlers, ~Ingestion!Idle(h)
  PROVE  /\ handlers[h] \in Ingestion!Request /\ handlers[h] # LibraryNone /\ handlers[h].doc \in Uploads
         /\ HandlerHolds(h)
BY DEF DInv, Ingestion!TypeOK, Ingestion!Idle, Ingestion!Request

\* Rows do not disappear, and neither does the text of one or a chunk.
Persists(d) ==
  /\ editions[d].status # "absent" => editions'[d].status # "absent"
  /\ documents[d].status # "absent" => documents'[d].status # "absent"
  /\ Ingestion!Extracted(d) \in files => Ingestion!Extracted(d) \in files'
  /\ chunks[d] # <<>> => chunks'[d] # <<>> /\ DOMAIN chunks'[d] = DOMAIN chunks[d]

\* Nobody else touches the document of an upload.
Undisturbed(d) ==
  /\ documents'[d].status = documents[d].status /\ editions'[d].status = editions[d].status
  /\ Ingestion!Original(d) \in files => Ingestion!Original(d) \in files'
  /\ \A o \in Handlers : Saving(o, d)' => Saving(o, d)

LEMMA HandlerStays ==
  ASSUME Ingestion!Admissible, DInv, NEW h \in Handlers, handlers'[h] = handlers[h],
         \A d \in Uploads : Persists(d),
         \A d \in Uploads : Saving(h, d) => Undisturbed(d)
  PROVE  HandlerHolds(h)'
<1>1. CASE handlers[h] = LibraryNone
  BY <1>1 DEF HandlerHolds
<1>2. CASE handlers[h] # LibraryNone
  <2>1. PICK q \in Ingestion!Request : q = handlers[h]
    BY <1>2, RequestTypes DEF Ingestion!Idle
  <2>2. PICK d \in Uploads : d = q.doc
    BY DEF Ingestion!Request
  <2>3. HandlerHolds(h) /\ Persists(d)
    BY DEF DInv
  <2>4. Saving(h, d)' => Saving(h, d)
    BY DEF Saving
  <2>5. ASSUME Saving(h, d)
        PROVE  /\ documents'[d].status = "absent" /\ editions'[d].status = "absent"
               /\ Ingestion!Original(d) \in files' /\ \A o \in Handlers : Saving(o, d)' => o = h
    BY <1>2, <2>1, <2>2, <2>3, <2>5 DEF HandlerHolds, Undisturbed
  <2> QED
    BY <1>2, <2>1, <2>2, <2>3, <2>4, <2>5 DEF HandlerHolds, Persists, Ingestion!Original,
           Ingestion!Extracted, Saving
<1> QED
  BY <1>1, <1>2

\* The rows of a document that a step leaves alone.
LEMMA RowStays ==
  ASSUME DInv, NEW d \in Uploads, editions'[d] = editions[d], chunks'[d] = chunks[d], Persists(d),
         words'[d] = words[d] \/ editions[d].status = "absent", d \in spoiled => d \in spoiled',
         editions[d].status # "absent" => (Ingestion!Original(d) \in files => Ingestion!Original(d) \in files')
  PROVE  RowHolds(d)'
<1>1. RowHolds(d)
  BY DEF DInv
<1>2. chunks[d] # <<>> => words'[d] = words[d]
  BY <1>1 DEF RowHolds
<1>3. ASSUME NEW s, IsSplit(chunks[d], words[d], s), chunks[d] # <<>>
      PROVE  IsSplit(chunks[d], words[d], s)'
  BY <1>2, <1>3
<1>4. /\ editions'[d].status # "absent" => documents'[d].status # "absent" /\ Ingestion!Original(d) \in files'
      /\ editions'[d].text => Ingestion!Extracted(d) \in files'
  BY <1>1 DEF RowHolds, Persists
<1>5. chunks'[d] # <<>> => editions'[d].status # "absent" /\ \E s \in Settings : IsSplit(chunks[d], words[d], s)'
  BY <1>1, <1>3 DEF RowHolds
<1>6. d \notin spoiled' => \A i, j \in DOMAIN chunks'[d] : chunks'[d][i].by = chunks'[d][j].by
  BY <1>1 DEF RowHolds
<1> QED
  BY <1>4, <1>5, <1>6 DEF RowHolds, Ingestion!Original, Ingestion!Extracted

\* A handler goes on, and the rows stay as they are.
LEMMA GoesOn ==
  ASSUME Ingestion!Admissible, DInv, Ingestion!TypeOK', UNCHANGED <<documents, editions, chunks, words, spoiled>>, files \subseteq files',
         NEW h \in Handlers, NEW q, handlers' = [handlers EXCEPT ![h] = q], HandlerHolds(h)',
         \A d : ~Saving(h, d)'
  PROVE  DInv'
<1>1. handlers'[h] = q /\ \A o \in Handlers : o # h => handlers'[o] = handlers[o]
  BY DEF DInv, Ingestion!TypeOK
<1>2. \A d \in Uploads : Persists(d)
  BY DEF Persists
<1>3. \A d \in Uploads : RowHolds(d)'
  BY <1>2, RowStays
<1>4. \A d \in Uploads : Undisturbed(d)
  <2>1. \A o \in Handlers, d \in Uploads : Saving(o, d)' => Saving(o, d)
    BY <1>1 DEF Saving
  <2> QED
    BY <2>1 DEF Undisturbed
<1>5. \A o \in Handlers : HandlerHolds(o)'
  BY <1>1, <1>2, <1>4, HandlerStays
<1> QED
  BY <1>3, <1>5 DEF DInv

\* A handler is done, and has changed the rows of its document, which are committed.
LEMMA Commits ==
  ASSUME Ingestion!Admissible, DInv, Ingestion!TypeOK', NEW h \in Handlers, NEW d \in Uploads,
         handlers' = [handlers EXCEPT ![h] = LibraryNone],
         documents[d].status # "absent", UNCHANGED <<words, files>>,
         documents'[d].status # "absent", editions[d].status # "absent" => editions'[d].status # "absent",
         \A e \in Uploads \ {d} : /\ documents'[e] = documents[e] /\ editions'[e] = editions[e]
                                  /\ chunks'[e] = chunks[e] /\ (e \in spoiled => e \in spoiled'),
         chunks[d] # <<>> => chunks'[d] # <<>> /\ DOMAIN chunks'[d] = DOMAIN chunks[d],
         RowHolds(d)'
  PROVE  DInv'
<1>1. handlers'[h] = LibraryNone /\ \A o \in Handlers : o # h => handlers'[o] = handlers[o]
  BY DEF DInv, Ingestion!TypeOK
<1>2. \A e \in Uploads : Persists(e)
  BY DEF Persists
<1>3. \A e \in Uploads : RowHolds(e)'
  BY <1>2, RowStays
<1>4. \A e \in Uploads \ {d} : Undisturbed(e)
  <2>1. \A o \in Handlers, e \in Uploads : Saving(o, e)' => Saving(o, e)
    BY <1>1 DEF Saving
  <2> QED
    BY <2>1 DEF Undisturbed
<1>5. \A o \in Handlers : ~Saving(o, d)
  <2>1. ASSUME NEW o \in Handlers, Saving(o, d) PROVE FALSE
    <3>1. HandlerHolds(o) /\ handlers[o].doc = d /\ handlers[o] # LibraryNone
      BY <2>1 DEF DInv, Saving
    <3> QED
      BY <2>1, <3>1 DEF HandlerHolds
  <2> QED
    BY <2>1
<1>6. HandlerHolds(h)'
  BY <1>1 DEF HandlerHolds
<1>7. \A o \in Handlers : HandlerHolds(o)'
  <2>1. ASSUME NEW o \in Handlers, o # h PROVE HandlerHolds(o)'
    <3>1. \A e \in Uploads : Saving(o, e) => Undisturbed(e)
      BY <1>4, <1>5
    <3> QED
      BY <1>1, <1>2, <2>1, <3>1, HandlerStays
  <2> QED
    BY <1>6, <2>1
<1> QED
  BY <1>3, <1>7 DEF DInv

-----------------------------------------------------------------------------
(* Creating and uploading.                                                 *)

LEMMA UnclaimedIs ==
  ASSUME DInv, NEW d \in Uploads, Ingestion!Unclaimed(d)
  PROVE  /\ documents[d].status = "absent" /\ editions[d].status = "absent" /\ chunks[d] = <<>>
         /\ \A h \in Handlers : ~Saving(h, d)
<1>1. documents[d].status = "absent" /\ \A h \in Handlers : ~Saving(h, d)
  BY DEF Ingestion!Unclaimed, Ingestion!At, Ingestion!Idle, Saving
<1>2. RowHolds(d)
  BY DEF DInv
<1> QED
  BY <1>1, <1>2 DEF RowHolds

LEMMA CreateDocumentKeeps ==
  ASSUME Ingestion!Admissible, DInv, NEW d \in Uploads, Ingestion!CreateDocument(d)
  PROVE  DInv'
<1>1. /\ documents' = [documents EXCEPT ![d] = [status |-> "uploaded", active |-> FALSE]]
      /\ UNCHANGED <<editions, chunks, words, files, draft, locked, handlers, spoiled>>
  BY DEF Ingestion!CreateDocument
<1>2. \A h \in Handlers : ~Saving(h, d)
  BY UnclaimedIs DEF Ingestion!CreateDocument
<1>3. Ingestion!TypeOK'
  BY <1>1 DEF DInv, Ingestion!TypeOK, Ingestion!DocumentStatuses
<1>4. documents'[d].status = "uploaded" /\ \A e \in Uploads \ {d} : documents'[e] = documents[e]
  BY <1>1 DEF DInv, Ingestion!TypeOK
<1>5. \A e \in Uploads : Persists(e)
  BY <1>1, <1>4 DEF Persists
<1>6. \A e \in Uploads : RowHolds(e)'
  BY <1>1, <1>5, RowStays
<1>7. ASSUME NEW h \in Handlers PROVE HandlerHolds(h)'
  <2>1. \A e \in Uploads : Saving(h, e) => Undisturbed(e)
    BY <1>1, <1>2, <1>4 DEF Undisturbed, Saving
  <2> QED
    BY <1>1, <1>5, <2>1, HandlerStays
<1> QED
  BY <1>3, <1>6, <1>7 DEF DInv

LEMMA SaveUploadKeeps ==
  ASSUME Ingestion!Admissible, DInv, NEW h \in Handlers, NEW d \in Uploads, Ingestion!SaveUpload(h, d)
  PROVE  DInv'
<1>1. PICK n \in 0 .. MaxWords : words' = [words EXCEPT ![d] = n]
  BY DEF Ingestion!SaveUpload
<1>2. PICK q : q = Ingestion!Ask("upload", "file", d, LibraryNone)
  OBVIOUS
<1>3. /\ Ingestion!Unclaimed(d) /\ files' = files \cup {Ingestion!Original(d)}
      /\ handlers' = [handlers EXCEPT ![h] = q]
      /\ UNCHANGED <<documents, editions, chunks, draft, locked, spoiled>>
  BY <1>2 DEF Ingestion!SaveUpload, Ingestion!Start
<1>4. /\ documents[d].status = "absent" /\ editions[d].status = "absent"
      /\ \A o \in Handlers : ~Saving(o, d)
  BY <1>3, UnclaimedIs
<1>5. q \in Ingestion!Request /\ q.op = "upload" /\ q.at = "file" /\ q.doc = d /\ q # LibraryNone
  <2>1. <<>> \in Seq(Ingestion!Embedder)
    OBVIOUS
  <2>2. q \in Ingestion!Request /\ q.op = "upload" /\ q.at = "file" /\ q.doc = d
    BY <1>2, <2>1 DEF Ingestion!Ask, Ingestion!Request
  <2> QED
    BY <2>2 DEF Ingestion!Admissible
<1>6. handlers'[h] = q /\ \A o \in Handlers : o # h => handlers'[o] = handlers[o]
  BY <1>3 DEF DInv, Ingestion!TypeOK
<1>7. Ingestion!TypeOK'
  <2>1. Ingestion!Original(d) \in Ingestion!File
    BY DEF Ingestion!Original, Ingestion!File
  <2>2. words' \in [Uploads -> 0 .. MaxWords]
    BY <1>1 DEF DInv, Ingestion!TypeOK
  <2>3. handlers' \in [Handlers -> Ingestion!Request \cup {LibraryNone}]
    BY <1>3, <1>5 DEF DInv, Ingestion!TypeOK
  <2> QED
    BY <1>3, <2>1, <2>2, <2>3 DEF DInv, Ingestion!TypeOK
<1>8. \A e \in Uploads : Persists(e)
  BY <1>3 DEF Persists
<1>9. \A e \in Uploads : words'[e] = words[e] \/ editions[e].status = "absent"
  BY <1>1, <1>4 DEF DInv, Ingestion!TypeOK
<1>10. \A e \in Uploads : RowHolds(e)'
  BY <1>3, <1>8, <1>9, RowStays
<1>11. ASSUME NEW o \in Handlers PROVE HandlerHolds(o)'
  <2>1. CASE o = h
    <3>1. \A p \in Handlers : Saving(p, d)' => p = h
      BY <1>4, <1>6 DEF Saving
    <3>2. Ingestion!Original(d) \in files'
      BY <1>3
    <3> QED
      BY <1>3, <1>4, <1>5, <1>6, <2>1, <3>1, <3>2 DEF HandlerHolds, Ingestion!Original, Saving
  <2>2. CASE o # h
    <3>1. \A e \in Uploads : Saving(o, e) => Undisturbed(e)
      <4>1. ASSUME NEW e \in Uploads, Saving(o, e) PROVE Undisturbed(e)
        <5>1. e # d
          BY <1>4, <4>1
        <5>2. \A p \in Handlers : Saving(p, e)' => Saving(p, e)
          BY <1>5, <1>6, <5>1 DEF Saving
        <5> QED
          BY <1>3, <5>2 DEF Undisturbed
      <4> QED
        BY <4>1
    <3> QED
      BY <1>6, <1>8, <2>2, <3>1, HandlerStays
  <2> QED
    BY <2>1, <2>2
<1> QED
  BY <1>7, <1>10, <1>11 DEF DInv

\* A handler that writes what it uploaded, or takes it back.
LEMMA UploadIs ==
  ASSUME Ingestion!Admissible, DInv, NEW h \in Handlers, Ingestion!At(h, "upload", "file"), NEW d,
         d = handlers[h].doc
  PROVE  /\ d \in Uploads /\ Saving(h, d)
         /\ documents[d].status = "absent" /\ editions[d].status = "absent" /\ chunks[d] = <<>>
         /\ Ingestion!Original(d) \in files /\ \A o \in Handlers : Saving(o, d) => o = h
<1>1. ~Ingestion!Idle(h) /\ handlers[h].op = "upload" /\ handlers[h].at = "file"
  BY DEF Ingestion!At
<1>2. d \in Uploads /\ Saving(h, d) /\ HandlerHolds(h) /\ handlers[h] # LibraryNone
  BY <1>1, RequestTypes DEF Saving
<1>3. RowHolds(d)
  BY <1>2 DEF DInv
<1> QED
  BY <1>2, <1>3 DEF HandlerHolds, RowHolds

LEMMA RefuseUploadKeeps ==
  ASSUME Ingestion!Admissible, DInv, NEW h \in Handlers, Ingestion!RefuseUpload(h)
  PROVE  DInv'
<1>1. PICK d : d = handlers[h].doc
  OBVIOUS
<1>2. /\ Ingestion!At(h, "upload", "file") /\ files' = files \ {Ingestion!Original(d)}
      /\ handlers' = [handlers EXCEPT ![h] = LibraryNone]
      /\ UNCHANGED <<documents, editions, chunks, words, draft, locked, spoiled>>
  BY <1>1 DEF Ingestion!RefuseUpload, Ingestion!Done
<1>3. /\ d \in Uploads /\ editions[d].status = "absent" /\ \A o \in Handlers : Saving(o, d) => o = h
  BY <1>1, <1>2, UploadIs
<1>4. handlers'[h] = LibraryNone /\ \A o \in Handlers : o # h => handlers'[o] = handlers[o]
  BY <1>2 DEF DInv, Ingestion!TypeOK
<1>5. Ingestion!TypeOK'
  <2>1. handlers' \in [Handlers -> Ingestion!Request \cup {LibraryNone}]
    BY <1>2 DEF DInv, Ingestion!TypeOK
  <2> QED
    BY <1>2, <2>1 DEF DInv, Ingestion!TypeOK
<1>6. \A e \in Uploads : Ingestion!Extracted(e) # Ingestion!Original(d) /\ (e # d => Ingestion!Original(e) # Ingestion!Original(d))
  BY DEF Ingestion!Extracted, Ingestion!Original
<1>7. \A e \in Uploads : Persists(e)
  BY <1>2, <1>6 DEF Persists
<1>8. \A e \in Uploads : RowHolds(e)'
  BY <1>2, <1>3, <1>6, <1>7, RowStays
<1>9. ASSUME NEW o \in Handlers PROVE HandlerHolds(o)'
  <2>1. CASE o = h
    BY <1>4, <2>1 DEF HandlerHolds
  <2>2. CASE o # h
    <3>1. \A e \in Uploads : Saving(o, e) => Undisturbed(e)
      <4>1. \A p \in Handlers, e \in Uploads : Saving(p, e)' => Saving(p, e)
        BY <1>4 DEF Saving
      <4>2. \A e \in Uploads : Saving(o, e) => e # d
        BY <1>3, <2>2
      <4> QED
        BY <1>2, <1>6, <4>1, <4>2 DEF Undisturbed
    <3> QED
      BY <1>4, <1>7, <2>2, <3>1, HandlerStays
  <2> QED
    BY <2>1, <2>2
<1> QED
  BY <1>5, <1>8, <1>9 DEF DInv

LEMMA CommitUploadKeeps ==
  ASSUME Ingestion!Admissible, DInv, NEW h \in Handlers, Ingestion!CommitUpload(h)
  PROVE  DInv'
<1>1. PICK d : d = handlers[h].doc
  OBVIOUS
<1>2. /\ Ingestion!At(h, "upload", "file")
      /\ documents' = [documents EXCEPT ![d] = [status |-> "uploaded", active |-> TRUE]]
      /\ editions' = [editions EXCEPT ![d] = [status |-> "uploaded", text |-> FALSE]]
      /\ UNCHANGED <<chunks, words, files, draft, locked, spoiled>>
  BY <1>1 DEF Ingestion!CommitUpload
<1>3. /\ d \in Uploads /\ chunks[d] = <<>> /\ Ingestion!Original(d) \in files
      /\ \A o \in Handlers : Saving(o, d) => o = h
  BY <1>1, <1>2, UploadIs
<1>4. PICK q : /\ handlers' = [handlers EXCEPT ![h] = q]
               /\ q = LibraryNone \/ (q \in Ingestion!Request /\ q.op = "upload" /\ q.at = "assign")
  <2>1. CASE Ingestion!Done(h)
    BY <2>1 DEF Ingestion!Done
  <2>2. CASE Ingestion!Goes(h, "assign")
    <3>1. handlers[h] \in Ingestion!Request /\ handlers[h].op = "upload"
      BY <1>2, RequestTypes DEF Ingestion!At
    <3>2. PICK q : q = [handlers[h] EXCEPT !.at = "assign"]
      OBVIOUS
    <3>3. q \in Ingestion!Request /\ q.op = "upload" /\ q.at = "assign"
      BY <3>1, <3>2 DEF Ingestion!Request
    <3> QED
      BY <2>2, <3>2, <3>3 DEF Ingestion!Goes
  <2> QED
    BY <2>1, <2>2 DEF Ingestion!CommitUpload
<1>5. handlers'[h] = q /\ \A o \in Handlers : o # h => handlers'[o] = handlers[o]
  BY <1>4 DEF DInv, Ingestion!TypeOK
<1>6. Ingestion!TypeOK'
  <2>1. handlers' \in [Handlers -> Ingestion!Request \cup {LibraryNone}]
    BY <1>4 DEF DInv, Ingestion!TypeOK
  <2> QED
    BY <1>2, <2>1 DEF DInv, Ingestion!TypeOK, Ingestion!DocumentStatuses, Ingestion!VersionStatuses
<1>7. /\ documents'[d].status = "uploaded" /\ editions'[d].status = "uploaded" /\ ~editions'[d].text
      /\ \A e \in Uploads \ {d} : documents'[e] = documents[e] /\ editions'[e] = editions[e]
  BY <1>2, <1>3 DEF DInv, Ingestion!TypeOK
<1>8. \A e \in Uploads : Persists(e)
  BY <1>2, <1>7 DEF Persists
<1>9. ASSUME NEW e \in Uploads PROVE RowHolds(e)'
  <2>1. CASE e = d
    BY <1>2, <1>3, <1>7, <2>1 DEF RowHolds, Ingestion!Original
  <2>2. CASE e # d
    BY <1>2, <1>7, <1>8, <2>2, RowStays
  <2> QED
    BY <2>1, <2>2
<1>10. ASSUME NEW o \in Handlers PROVE HandlerHolds(o)'
  <2>1. CASE o = h
    BY <1>4, <1>5, <2>1 DEF HandlerHolds, Saving
  <2>2. CASE o # h
    <3>1. \A p \in Handlers, e \in Uploads : Saving(p, e)' => Saving(p, e)
      BY <1>4, <1>5 DEF Saving
    <3>2. \A e \in Uploads : Saving(o, e) => e # d
      BY <1>3, <2>2
    <3>3. \A e \in Uploads : Saving(o, e) => Undisturbed(e)
      BY <1>2, <1>7, <3>1, <3>2 DEF Undisturbed
    <3> QED
      BY <1>5, <1>8, <2>2, <3>3, HandlerStays
  <2> QED
    BY <2>1, <2>2
<1> QED
  BY <1>6, <1>9, <1>10 DEF DInv

-----------------------------------------------------------------------------
(* Handlers that begin, go on or die without a change of the rows.         *)

LEMMA AskKeeps ==
  ASSUME Ingestion!Admissible, DInv, NEW h \in Handlers, NEW q \in Ingestion!Request, Ingestion!Start(h, q),
         UNCHANGED <<documents, editions, chunks, words, files, draft, locked, spoiled>>,
         q.op # "upload", q.at # "work" \/ q.op # "extract",
         q.op = "document" => documents[q.doc].status # "absent" /\ q.target \in Ingestion!DocumentStatuses,
         q.op \in {"extract", "chunk", "embed", "version"} => editions[q.doc].status # "absent",
         q.op = "version" => q.target \in Ingestion!VersionStatuses,
         q.op = "embed" => q.by \in Providers /\ chunks[q.doc] # <<>> /\ DOMAIN q.seen = DOMAIN chunks[q.doc]
  PROVE  DInv'
<1>1. handlers' = [handlers EXCEPT ![h] = q] /\ handlers'[h] = q
  BY DEF Ingestion!Start, DInv, Ingestion!TypeOK
<1>2. Ingestion!TypeOK'
  <2>1. handlers' \in [Handlers -> Ingestion!Request \cup {LibraryNone}]
    BY <1>1 DEF DInv, Ingestion!TypeOK
  <2> QED
    BY <2>1 DEF DInv, Ingestion!TypeOK
<1>3. \A d : ~Saving(h, d)'
  BY <1>1 DEF Saving
<1>4. HandlerHolds(h)'
  BY <1>1, <1>3 DEF HandlerHolds
<1> QED
  BY <1>1, <1>2, <1>3, <1>4, GoesOn

LEMMA AskIs ==
  ASSUME NEW op \in {"extract", "chunk", "embed", "document", "version"}, NEW at \in {"read", "work"},
         NEW d \in Uploads,
         NEW target \in Ingestion!DocumentStatuses \cup Ingestion!VersionStatuses \cup {LibraryNone}
  PROVE  /\ Ingestion!Ask(op, at, d, target) \in Ingestion!Request
         /\ Ingestion!Ask(op, at, d, target).op = op /\ Ingestion!Ask(op, at, d, target).at = at
         /\ Ingestion!Ask(op, at, d, target).doc = d /\ Ingestion!Ask(op, at, d, target).target = target
BY DEF Ingestion!Ask, Ingestion!Request

LEMMA ArrivesKeeps ==
  ASSUME Ingestion!Admissible, DInv, NEW h \in Handlers, NEW d \in Uploads, Ingestion!Arrives(h, d)
  PROVE  DInv'
<1>1. CASE Ingestion!SaveUpload(h, d)
  BY <1>1, SaveUploadKeeps
<1>2. CASE Ingestion!AskExtraction(h, d)
  <2>1. PICK q : q = Ingestion!Ask("extract", "read", d, LibraryNone)
    OBVIOUS
  <2>2. q \in Ingestion!Request /\ q.op = "extract" /\ q.at = "read" /\ q.doc = d
    BY <2>1, AskIs
  <2>3. /\ Ingestion!Start(h, q) /\ editions[d].status # "absent"
        /\ UNCHANGED <<documents, editions, chunks, words, files, draft, locked, spoiled>>
    BY <1>2, <2>1 DEF Ingestion!AskExtraction, Ingestion!Extractable
  <2> QED
    BY <2>2, <2>3, AskKeeps
<1>3. CASE Ingestion!AskChunking(h, d)
  <2>1. PICK q : q = Ingestion!Ask("chunk", "read", d, LibraryNone)
    OBVIOUS
  <2>2. q \in Ingestion!Request /\ q.op = "chunk" /\ q.at = "read" /\ q.doc = d
    BY <2>1, AskIs
  <2>3. /\ Ingestion!Start(h, q) /\ editions[d].status # "absent"
        /\ UNCHANGED <<documents, editions, chunks, words, files, draft, locked, spoiled>>
    BY <1>3, <2>1 DEF Ingestion!AskChunking, Ingestion!Chunkable
  <2> QED
    BY <2>2, <2>3, AskKeeps
<1>4. ASSUME NEW p \in Providers, Ingestion!AskEmbedding(h, d, p) PROVE DInv'
  <2>1. PICK ask, seen : ask = Ingestion!Ask("embed", "work", d, LibraryNone) /\ seen = Ingestion!Embedders(d)
    OBVIOUS
  <2>2. PICK q : q = [ask EXCEPT !.by = p, !.seen = seen]
    OBVIOUS
  <2>3. ask \in Ingestion!Request /\ ask.op = "embed" /\ ask.doc = d
    BY <2>1, AskIs
  <2>4. seen \in Seq(Ingestion!Embedder) /\ DOMAIN seen = DOMAIN chunks[d]
    <3>1. PICK rows \in Seq(Ingestion!Chunk) : rows = chunks[d]
      BY DEF DInv, Ingestion!TypeOK
    <3>2. \A i \in DOMAIN rows : rows[i].by \in Ingestion!Embedder
      BY ChunkRows
    <3>3. seen = [i \in 1 .. Len(rows) |-> rows[i].by] /\ Len(rows) \in Nat
      BY <2>1, <3>1 DEF Ingestion!Embedders
    <3>4. seen \in [1 .. Len(rows) -> Ingestion!Embedder]
      BY <3>2, <3>3
    <3>5. seen \in Seq(Ingestion!Embedder)
      BY <3>3, <3>4
    <3> QED
      BY <3>1, <3>3, <3>5
  <2>5. q \in Ingestion!Request /\ q.op = "embed" /\ q.doc = d /\ q.by = p /\ q.seen = seen
    BY <2>2, <2>3, <2>4 DEF Ingestion!Request
  <2>6. /\ Ingestion!Start(h, q) /\ editions[d].status # "absent" /\ chunks[d] # <<>>
        /\ UNCHANGED <<documents, editions, chunks, words, files, draft, locked, spoiled>>
    BY <1>4, <2>1, <2>2 DEF Ingestion!AskEmbedding, Ingestion!Embeddable
  <2> QED
    BY <2>4, <2>5, <2>6, AskKeeps
<1>5. ASSUME NEW new \in Ingestion!DocumentStatuses, Ingestion!AskDocumentTransition(h, d, new) PROVE DInv'
  <2>1. PICK q : q = Ingestion!Ask("document", "read", d, new)
    OBVIOUS
  <2>2. q \in Ingestion!Request /\ q.op = "document" /\ q.at = "read" /\ q.doc = d /\ q.target = new
    BY <2>1, AskIs
  <2>3. /\ Ingestion!Start(h, q) /\ documents[d].status # "absent"
        /\ UNCHANGED <<documents, editions, chunks, words, files, draft, locked, spoiled>>
    BY <1>5, <2>1 DEF Ingestion!AskDocumentTransition
  <2> QED
    BY <2>2, <2>3, AskKeeps
<1>6. ASSUME NEW new \in Ingestion!VersionStatuses, Ingestion!AskVersionTransition(h, d, new) PROVE DInv'
  <2>1. PICK q : q = Ingestion!Ask("version", "read", d, new)
    OBVIOUS
  <2>2. q \in Ingestion!Request /\ q.op = "version" /\ q.at = "read" /\ q.doc = d /\ q.target = new
    BY <2>1, AskIs
  <2>3. /\ Ingestion!Start(h, q) /\ editions[d].status # "absent"
        /\ UNCHANGED <<documents, editions, chunks, words, files, draft, locked, spoiled>>
    BY <1>6, <2>1 DEF Ingestion!AskVersionTransition
  <2> QED
    BY <2>2, <2>3, AskKeeps
<1> QED
  BY <1>1, <1>2, <1>3, <1>4, <1>5, <1>6 DEF Ingestion!Arrives

LEMMA ReadDraftKeeps ==
  ASSUME Ingestion!Admissible, DInv, NEW h \in Handlers, Ingestion!ReadDraft(h)
  PROVE  DInv'
<1>1. handlers[h] \in Ingestion!Request /\ handlers[h].op = "upload"
  BY RequestTypes DEF Ingestion!ReadDraft, Ingestion!At
<1>2. PICK q : q = [handlers[h] EXCEPT !.at = "draft", !.read = draft]
  OBVIOUS
<1>3. q \in Ingestion!Request /\ q.op = "upload" /\ q.at = "draft"
  BY <1>1, <1>2 DEF Ingestion!Request, DInv, Ingestion!TypeOK
<1>4. handlers' = [handlers EXCEPT ![h] = q] /\ handlers'[h] = q
  BY <1>2 DEF Ingestion!ReadDraft, DInv, Ingestion!TypeOK
<1>5. UNCHANGED <<documents, editions, chunks, words, files, draft, locked, spoiled>>
  BY DEF Ingestion!ReadDraft
<1>6. Ingestion!TypeOK'
  <2>1. handlers' \in [Handlers -> Ingestion!Request \cup {LibraryNone}]
    BY <1>3, <1>4 DEF DInv, Ingestion!TypeOK
  <2> QED
    BY <1>5, <2>1 DEF DInv, Ingestion!TypeOK
<1>7. HandlerHolds(h)' /\ \A d : ~Saving(h, d)'
  BY <1>3, <1>4 DEF HandlerHolds, Saving
<1> QED
  BY <1>4, <1>5, <1>6, <1>7, GoesOn

LEMMA AssignDocumentKeeps ==
  ASSUME Ingestion!Admissible, DInv, NEW h \in Handlers, Ingestion!AssignDocument(h)
  PROVE  DInv'
<1>1. handlers[h] \in Ingestion!Request
  BY RequestTypes DEF Ingestion!AssignDocument, Ingestion!At
<1>2. handlers' = [handlers EXCEPT ![h] = LibraryNone] /\ handlers'[h] = LibraryNone
  BY DEF Ingestion!AssignDocument, Ingestion!Done, DInv, Ingestion!TypeOK
<1>3. /\ draft' = handlers[h].read \cup {handlers[h].doc}
      /\ UNCHANGED <<documents, editions, chunks, words, files, locked, spoiled>>
  BY DEF Ingestion!AssignDocument
<1>4. Ingestion!TypeOK'
  <2>1. handlers' \in [Handlers -> Ingestion!Request \cup {LibraryNone}]
    BY <1>2 DEF DInv, Ingestion!TypeOK
  <2>2. draft' \subseteq Uploads
    BY <1>1, <1>3 DEF Ingestion!Request
  <2> QED
    BY <1>3, <2>1, <2>2 DEF DInv, Ingestion!TypeOK
<1>5. HandlerHolds(h)' /\ \A d : ~Saving(h, d)'
  BY <1>2 DEF HandlerHolds, Saving
<1> QED
  BY <1>2, <1>3, <1>4, <1>5, GoesOn

LEMMA FlushProcessingKeeps ==
  ASSUME Ingestion!Admissible, DInv, NEW h \in Handlers, Ingestion!FlushProcessing(h)
  PROVE  DInv'
<1>1. /\ handlers[h] \in Ingestion!Request /\ handlers[h].op = "extract" /\ HandlerHolds(h) /\ handlers[h] # LibraryNone
      /\ handlers[h].doc \in Uploads
  BY RequestTypes DEF Ingestion!FlushProcessing, Ingestion!At
<1>2. PICK q : q = [handlers[h] EXCEPT !.at = "flushed"]
  OBVIOUS
<1>3. q \in Ingestion!Request /\ q.op = "extract" /\ q.at = "flushed" /\ q.doc = handlers[h].doc
  BY <1>1, <1>2 DEF Ingestion!Request
<1>4. handlers' = [handlers EXCEPT ![h] = q] /\ handlers'[h] = q
  BY <1>2 DEF Ingestion!FlushProcessing, Ingestion!Goes, DInv, Ingestion!TypeOK
<1>5. /\ locked' = [locked EXCEPT ![handlers[h].doc] = h]
      /\ UNCHANGED <<documents, editions, chunks, words, files, draft, spoiled>>
  BY DEF Ingestion!FlushProcessing
<1>6. Ingestion!TypeOK'
  <2>1. handlers' \in [Handlers -> Ingestion!Request \cup {LibraryNone}]
    BY <1>3, <1>4 DEF DInv, Ingestion!TypeOK
  <2>2. locked' \in [Uploads -> Handlers \cup {LibraryNone}]
    BY <1>5 DEF DInv, Ingestion!TypeOK
  <2> QED
    BY <1>5, <2>1, <2>2 DEF DInv, Ingestion!TypeOK
<1>7. HandlerHolds(h)' /\ \A d : ~Saving(h, d)'
  BY <1>1, <1>3, <1>4, <1>5 DEF HandlerHolds, Saving
<1> QED
  BY <1>4, <1>5, <1>6, <1>7, GoesOn

LEMMA SaveTextKeeps ==
  ASSUME Ingestion!Admissible, DInv, NEW h \in Handlers, Ingestion!SaveText(h)
  PROVE  DInv'
<1>1. /\ handlers[h] \in Ingestion!Request /\ handlers[h].op = "extract" /\ HandlerHolds(h) /\ handlers[h] # LibraryNone
  BY RequestTypes DEF Ingestion!SaveText, Ingestion!At
<1>2. PICK d \in Uploads : d = handlers[h].doc
  BY RequestTypes DEF Ingestion!SaveText, Ingestion!At
<1>3. PICK q : q = [handlers[h] EXCEPT !.at = "work"]
  OBVIOUS
<1>4. q \in Ingestion!Request /\ q.op = "extract" /\ q.at = "work" /\ q.doc = d
  BY <1>1, <1>2, <1>3 DEF Ingestion!Request
<1>5. handlers' = [handlers EXCEPT ![h] = q] /\ handlers'[h] = q
  BY <1>3 DEF Ingestion!SaveText, Ingestion!Goes, DInv, Ingestion!TypeOK
<1>6. /\ files' = files \cup {Ingestion!Extracted(d)}
      /\ UNCHANGED <<documents, editions, chunks, words, draft, locked, spoiled>>
  BY <1>2 DEF Ingestion!SaveText
<1>7. Ingestion!TypeOK'
  <2>1. handlers' \in [Handlers -> Ingestion!Request \cup {LibraryNone}]
    BY <1>4, <1>5 DEF DInv, Ingestion!TypeOK
  <2>2. Ingestion!Extracted(d) \in Ingestion!File
    BY DEF Ingestion!Extracted, Ingestion!File
  <2> QED
    BY <1>6, <2>1, <2>2 DEF DInv, Ingestion!TypeOK
<1>8. HandlerHolds(h)' /\ \A e : ~Saving(h, e)'
  BY <1>1, <1>2, <1>4, <1>5, <1>6 DEF HandlerHolds, Saving, Ingestion!Extracted
<1>9. files \subseteq files'
  BY <1>6
<1> QED
  BY <1>5, <1>6, <1>7, <1>8, <1>9, GoesOn

LEMMA DieKeeps ==
  ASSUME Ingestion!Admissible, DInv, NEW h \in Handlers, Ingestion!Die(h)
  PROVE  DInv'
<1>1. handlers' = [handlers EXCEPT ![h] = LibraryNone] /\ handlers'[h] = LibraryNone
  BY DEF Ingestion!Die, Ingestion!Done, DInv, Ingestion!TypeOK
<1>2. /\ locked' = [d \in Uploads |-> IF locked[d] = h THEN LibraryNone ELSE locked[d]]
      /\ UNCHANGED <<documents, editions, chunks, words, files, draft, spoiled>>
  BY DEF Ingestion!Die
<1>3. Ingestion!TypeOK'
  <2>1. handlers' \in [Handlers -> Ingestion!Request \cup {LibraryNone}]
    BY <1>1 DEF DInv, Ingestion!TypeOK
  <2>2. locked' \in [Uploads -> Handlers \cup {LibraryNone}]
    BY <1>2 DEF DInv, Ingestion!TypeOK
  <2> QED
    BY <1>2, <2>1, <2>2 DEF DInv, Ingestion!TypeOK
<1>4. HandlerHolds(h)' /\ \A d : ~Saving(h, d)'
  BY <1>1 DEF HandlerHolds, Saving
<1> QED
  BY <1>1, <1>2, <1>3, <1>4, GoesOn

-----------------------------------------------------------------------------
(* Handlers that commit rows.                                              *)

LEMMA RowIs ==
  ASSUME NEW d \in Uploads, editions'[d].status # "absent", documents'[d].status # "absent",
         Ingestion!Original(d) \in files',
         editions'[d].text => Ingestion!Extracted(d) \in files', NEW rows, rows = chunks'[d], NEW n, n = words'[d],
         rows # <<>> => \E s \in Settings : IsSplit(rows, n, s),
         d \notin spoiled' => \A i, j \in DOMAIN rows : rows[i].by = rows[j].by
  PROVE  RowHolds(d)'
<1>1. rows # <<>> => \E s \in Settings : IsSplit(chunks[d], words[d], s)'
  <2>1. ASSUME NEW s, IsSplit(rows, n, s) PROVE IsSplit(chunks[d], words[d], s)'
    BY <2>1
  <2> QED
    BY <2>1
<1> QED
  BY <1>1 DEF RowHolds, Ingestion!Original, Ingestion!Extracted

\* A handler of a version works on rows that are there.
LEMMA WorkIs ==
  ASSUME Ingestion!Admissible, DInv, NEW h \in Handlers, NEW op \in {"extract", "chunk", "embed", "version"},
         NEW at,
         Ingestion!At(h, op, at), NEW d, d = handlers[h].doc
  PROVE  /\ d \in Uploads /\ handlers[h] \in Ingestion!Request /\ HandlerHolds(h) /\ handlers[h] # LibraryNone
         /\ editions[d].status # "absent" /\ documents[d].status # "absent" /\ Ingestion!Original(d) \in files
         /\ RowHolds(d) /\ chunks[d] \in Seq(Ingestion!Chunk) /\ words[d] \in 0 .. MaxWords
<1>1. ~Ingestion!Idle(h) /\ handlers[h].op = op
  BY DEF Ingestion!At
<1>2. d \in Uploads /\ handlers[h] \in Ingestion!Request /\ HandlerHolds(h) /\ handlers[h] # LibraryNone
  BY <1>1, RequestTypes
<1>3. editions[d].status # "absent"
  BY <1>1, <1>2 DEF HandlerHolds
<1>4. RowHolds(d) /\ chunks[d] \in Seq(Ingestion!Chunk) /\ words[d] \in 0 .. MaxWords
  BY <1>2 DEF DInv, Ingestion!TypeOK
<1> QED
  BY <1>2, <1>3, <1>4 DEF RowHolds

LEMMA CommitExtractionKeeps ==
  ASSUME Ingestion!Admissible, DInv, NEW h \in Handlers, Ingestion!CommitExtraction(h)
  PROVE  DInv'
<1>1. PICK d : d = handlers[h].doc
  OBVIOUS
<1>2. Ingestion!At(h, "extract", "work")
  BY DEF Ingestion!CommitExtraction
<1>3. /\ d \in Uploads /\ HandlerHolds(h) /\ handlers[h] # LibraryNone
      /\ editions[d].status # "absent" /\ documents[d].status # "absent" /\ Ingestion!Original(d) \in files
      /\ RowHolds(d)
  BY <1>1, <1>2, WorkIs
<1>4. /\ editions' = [editions EXCEPT ![d] = [status |-> "ready", text |-> TRUE]]
      /\ locked' = [locked EXCEPT ![d] = LibraryNone] /\ handlers' = [handlers EXCEPT ![h] = LibraryNone]
      /\ UNCHANGED <<documents, chunks, words, files, draft, spoiled>>
  BY <1>1 DEF Ingestion!CommitExtraction, Ingestion!Done
<1>5. Ingestion!TypeOK'
  BY <1>4 DEF DInv, Ingestion!TypeOK, Ingestion!VersionStatuses
<1>6. /\ editions'[d].status = "ready" /\ \A e \in Uploads \ {d} : editions'[e] = editions[e]
  BY <1>3, <1>4 DEF DInv, Ingestion!TypeOK
<1>7. Ingestion!Extracted(d) \in files
  BY <1>1, <1>2, <1>3 DEF HandlerHolds, Ingestion!At
<1>8. RowHolds(d)'
  BY <1>3, <1>4, <1>6, <1>7, RowIs DEF RowHolds
<1> QED
  BY <1>3, <1>4, <1>5, <1>6, <1>8, Commits

LEMMA FailExtractionKeeps ==
  ASSUME Ingestion!Admissible, DInv, NEW h \in Handlers, Ingestion!FailExtraction(h)
  PROVE  DInv'
<1>1. PICK d : d = handlers[h].doc
  OBVIOUS
<1>2. Ingestion!At(h, "extract", "flushed")
  BY DEF Ingestion!FailExtraction
<1>3. /\ d \in Uploads
      /\ editions[d].status # "absent" /\ documents[d].status # "absent" /\ Ingestion!Original(d) \in files
      /\ RowHolds(d)
  BY <1>1, <1>2, WorkIs
<1>4. /\ editions' = [editions EXCEPT ![d].status = "failed"]
      /\ locked' = [locked EXCEPT ![d] = LibraryNone] /\ handlers' = [handlers EXCEPT ![h] = LibraryNone]
      /\ UNCHANGED <<documents, chunks, words, files, draft, spoiled>>
  BY <1>1 DEF Ingestion!FailExtraction, Ingestion!Done
<1>5. Ingestion!TypeOK'
  BY <1>4 DEF DInv, Ingestion!TypeOK, Ingestion!VersionStatuses
<1>6. /\ editions'[d].status = "failed" /\ editions'[d].text = editions[d].text
      /\ \A e \in Uploads \ {d} : editions'[e] = editions[e]
  BY <1>3, <1>4 DEF DInv, Ingestion!TypeOK
<1>7. RowHolds(d)'
  BY <1>3, <1>4, <1>6, RowIs DEF RowHolds
<1> QED
  BY <1>3, <1>4, <1>5, <1>6, <1>7, Commits

LEMMA CommitVersionTransitionKeeps ==
  ASSUME Ingestion!Admissible, DInv, NEW h \in Handlers, Ingestion!CommitVersionTransition(h)
  PROVE  DInv'
<1>1. PICK d, new : d = handlers[h].doc /\ new = handlers[h].target
  OBVIOUS
<1>2. Ingestion!At(h, "version", "read")
  BY DEF Ingestion!CommitVersionTransition
<1>3. /\ d \in Uploads /\ HandlerHolds(h) /\ handlers[h] # LibraryNone
      /\ editions[d].status # "absent" /\ documents[d].status # "absent" /\ Ingestion!Original(d) \in files
      /\ RowHolds(d)
  BY <1>1, <1>2, WorkIs
<1>4. /\ editions' = [editions EXCEPT ![d].status = new]
      /\ handlers' = [handlers EXCEPT ![h] = LibraryNone]
      /\ UNCHANGED <<documents, chunks, words, files, draft, locked, spoiled>>
  BY <1>1 DEF Ingestion!CommitVersionTransition, Ingestion!Done
<1>5. new \in Ingestion!VersionStatuses
  BY <1>1, <1>2, <1>3 DEF HandlerHolds, Ingestion!At
<1>6. Ingestion!TypeOK'
  BY <1>4, <1>5 DEF DInv, Ingestion!TypeOK
<1>7. /\ editions'[d].status = new /\ editions'[d].text = editions[d].text
      /\ \A e \in Uploads \ {d} : editions'[e] = editions[e]
  BY <1>3, <1>4 DEF DInv, Ingestion!TypeOK
<1>8. new # "absent"
  BY <1>5 DEF Ingestion!VersionStatuses
<1>9. RowHolds(d)'
  BY <1>3, <1>4, <1>7, <1>8, RowIs DEF RowHolds
<1> QED
  BY <1>3, <1>4, <1>6, <1>7, <1>8, <1>9, Commits

LEMMA CommitDocumentTransitionKeeps ==
  ASSUME Ingestion!Admissible, DInv, NEW h \in Handlers, Ingestion!CommitDocumentTransition(h)
  PROVE  DInv'
<1>1. PICK d, new : d = handlers[h].doc /\ new = handlers[h].target
  OBVIOUS
<1>2. ~Ingestion!Idle(h) /\ handlers[h].op = "document"
  BY DEF Ingestion!CommitDocumentTransition, Ingestion!At
<1>3. d \in Uploads /\ documents[d].status # "absent" /\ new \in Ingestion!DocumentStatuses /\ RowHolds(d)
  <2>1. handlers[h] # LibraryNone /\ d \in Uploads /\ HandlerHolds(h)
    BY <1>1, <1>2, RequestTypes
  <2> QED
    BY <1>1, <1>2, <2>1 DEF HandlerHolds, DInv
<1>4. /\ documents' = [documents EXCEPT ![d].status = new]
      /\ handlers' = [handlers EXCEPT ![h] = LibraryNone]
      /\ UNCHANGED <<editions, chunks, words, files, draft, locked, spoiled>>
  BY <1>1 DEF Ingestion!CommitDocumentTransition, Ingestion!Done
<1>5. Ingestion!TypeOK'
  <2>1. documents' \in [Uploads -> [status : Ingestion!DocumentStatuses \cup {"absent"}, active : BOOLEAN]]
    <3>1. documents \in [Uploads -> [status : Ingestion!DocumentStatuses \cup {"absent"}, active : BOOLEAN]]
      BY DEF DInv, Ingestion!TypeOK
    <3> QED
      BY <1>3, <1>4, <3>1
  <2>2. handlers' \in [Handlers -> Ingestion!Request \cup {LibraryNone}]
    BY <1>4 DEF DInv, Ingestion!TypeOK
  <2> QED
    BY <1>4, <2>1, <2>2 DEF DInv, Ingestion!TypeOK
<1>6. documents'[d].status = new /\ \A e \in Uploads \ {d} : documents'[e] = documents[e]
  <2>1. documents \in [Uploads -> [status : Ingestion!DocumentStatuses \cup {"absent"}, active : BOOLEAN]]
    BY DEF DInv, Ingestion!TypeOK
  <2> QED
    BY <1>3, <1>4, <2>1
<1>7. new # "absent"
  BY <1>3 DEF Ingestion!DocumentStatuses
<1>8. RowHolds(d)'
  <2>1. Persists(d)
    BY <1>4, <1>6, <1>7 DEF Persists
  <2> QED
    BY <1>3, <1>4, <2>1, RowStays
<1> QED
  BY <1>3, <1>4, <1>5, <1>6, <1>7, <1>8, Commits

\* A handler commits the chunks of its version.
LEMMA ChunksAreWritten ==
  ASSUME Ingestion!Admissible, DInv, NEW h \in Handlers, NEW op \in {"chunk", "embed"}, NEW at,
         Ingestion!At(h, op, at), NEW d, d = handlers[h].doc, handlers' = [handlers EXCEPT ![h] = LibraryNone],
         NEW rows \in Seq(Ingestion!Chunk), chunks' = [chunks EXCEPT ![d] = rows],
         rows # <<>> => \E s \in Settings : IsSplit(rows, words[d], s),
         chunks[d] # <<>> => rows # <<>> /\ DOMAIN rows = DOMAIN chunks[d],
         d \notin spoiled' => \A i, j \in DOMAIN rows : rows[i].by = rows[j].by,
         spoiled \ {d} \subseteq spoiled', spoiled' \subseteq Uploads,
         UNCHANGED <<documents, editions, words, files, draft, locked>>
  PROVE  DInv'
<1>1. /\ d \in Uploads /\ editions[d].status # "absent" /\ documents[d].status # "absent" /\ Ingestion!Original(d) \in files
      /\ RowHolds(d)
  BY WorkIs
<1>2. chunks'[d] = rows /\ \A e \in Uploads \ {d} : chunks'[e] = chunks[e]
  BY <1>1 DEF DInv, Ingestion!TypeOK
<1>3. Ingestion!TypeOK'
  <2>1. chunks' \in [Uploads -> Seq(Ingestion!Chunk)]
    BY DEF DInv, Ingestion!TypeOK
  <2>2. handlers' \in [Handlers -> Ingestion!Request \cup {LibraryNone}]
    BY DEF DInv, Ingestion!TypeOK
  <2> QED
    BY <2>1, <2>2 DEF DInv, Ingestion!TypeOK
<1>4. RowHolds(d)'
  BY <1>1, <1>2, RowIs DEF RowHolds
<1>5. \A e \in Uploads \ {d} : e \in spoiled => e \in spoiled'
  OBVIOUS
<1> QED
  BY <1>1, <1>2, <1>3, <1>4, <1>5, Commits

LEMMA CommitChunksKeeps ==
  ASSUME Ingestion!Admissible, DInv, NEW h \in Handlers, Ingestion!CommitChunks(h)
  PROVE  DInv'
<1>1. PICK d : d = handlers[h].doc
  OBVIOUS
<1>2. Ingestion!At(h, "chunk", "read")
  BY DEF Ingestion!CommitChunks
<1>3. /\ d \in Uploads /\ chunks[d] \in Seq(Ingestion!Chunk) /\ words[d] \in 0 .. MaxWords
      /\ RowHolds(d)
  BY <1>1, <1>2, WorkIs
<1>4. PICK s \in Settings :
        chunks' = IF Ingestion!Insertable(d, Ingestion!SplitText(words[d], s))
                  THEN [chunks EXCEPT ![d] = @ \o Ingestion!SplitText(words[d], s)]
                  ELSE chunks
  BY <1>1 DEF Ingestion!CommitChunks
<1>5. PICK split : split = Ingestion!SplitText(words[d], s)
  OBVIOUS
<1>6. split \in Seq(Ingestion!Chunk) /\ \A i \in 1 .. Len(split) : split[i].by = Ingestion!Unembedded
  BY <1>3, <1>5, SplitTypes
<1>7. PICK rows : /\ chunks' = [chunks EXCEPT ![d] = rows]
                  /\ rows = chunks[d] \/ (rows = split /\ chunks[d] = <<>>)
  <2>1. CASE ~Ingestion!Insertable(d, split)
    <3>1. chunks' = [chunks EXCEPT ![d] = chunks[d]]
      BY <1>3, <1>4, <1>5, <2>1 DEF DInv, Ingestion!TypeOK
    <3> QED
      BY <3>1
  <2>2. CASE Ingestion!Insertable(d, split)
    <3>1. chunks' = [chunks EXCEPT ![d] = chunks[d] \o split]
      BY <1>4, <1>5, <2>2
    <3>2. chunks[d] \o <<>> = chunks[d] /\ <<>> \o split = split
      BY <1>3, <1>6, ConcatEmptySeq
    <3>3. chunks[d] \o split = chunks[d] \/ (chunks[d] \o split = split /\ chunks[d] = <<>>)
      BY <2>2, <3>2 DEF Ingestion!Insertable
    <3> QED
      BY <3>1, <3>3
  <2> QED
    BY <2>1, <2>2
<1>8. IsSplit(split, words[d], s)
  BY <1>5 DEF IsSplit
<1>9. rows \in Seq(Ingestion!Chunk) /\ (rows # <<>> => \E t \in Settings : IsSplit(rows, words[d], t))
  BY <1>3, <1>6, <1>7, <1>8 DEF RowHolds
<1>10. d \notin spoiled => \A i, j \in DOMAIN rows : rows[i].by = rows[j].by
  BY <1>3, <1>6, <1>7 DEF RowHolds
<1>11. /\ handlers' = [handlers EXCEPT ![h] = LibraryNone]
       /\ UNCHANGED <<documents, editions, words, files, draft, locked, spoiled>>
  BY DEF Ingestion!CommitChunks, Ingestion!Done
<1>12. spoiled' = spoiled /\ spoiled \ {d} \subseteq spoiled' /\ spoiled' \subseteq Uploads
  BY <1>11 DEF DInv, Ingestion!TypeOK
<1>13. chunks[d] # <<>> => rows # <<>> /\ DOMAIN rows = DOMAIN chunks[d]
  BY <1>7
<1> QED
  BY <1>1, <1>2, <1>7, <1>9, <1>10, <1>11, <1>12, <1>13, ChunksAreWritten

\* What a commit leaves in the columns of a chunk.
LEMMA WrittenIs ==
  ASSUME Ingestion!Admissible, NEW p \in Providers, NEW now \in Ingestion!Embedder
  PROVE  /\ \A seen : Ingestion!Written(p, seen, now) \in Ingestion!Embedder
         /\ Ingestion!Written(p, now, now) = p
<1>1. p \in [Columns -> Ingestion!Names]
  BY DEF Ingestion!Admissible
<1>2. ASSUME NEW seen PROVE Ingestion!Written(p, seen, now) \in Ingestion!Embedder
  BY <1>1 DEF Ingestion!Written, Ingestion!Embedder
<1>3. Ingestion!Written(p, now, now) = [c \in Columns |-> p[c]]
  BY DEF Ingestion!Written
<1> QED
  BY <1>1, <1>2, <1>3

\* Embedding leaves the words of every chunk.
LEMMA EmbeddedIs ==
  ASSUME NEW rows \in Seq(Ingestion!Chunk), NEW k \in 0 .. Len(rows),
         NEW embedders, \A i \in 1 .. Len(rows) : embedders[i] \in Ingestion!Embedder, NEW new,
         new = [i \in DOMAIN rows |-> IF i <= k THEN [rows[i] EXCEPT !.by = embedders[i]] ELSE rows[i]]
  PROVE  /\ new \in Seq(Ingestion!Chunk) /\ Len(new) = Len(rows) /\ (new # <<>> <=> rows # <<>>)
         /\ \A i \in 1 .. Len(rows) : /\ new[i].from = rows[i].from /\ new[i].to = rows[i].to
                                      /\ i <= k => new[i].by = embedders[i]
         /\ k = 0 => \A i \in 1 .. Len(rows) : new[i] = rows[i]
         /\ DOMAIN new = 1 .. Len(rows) /\ DOMAIN rows = 1 .. Len(rows)
<1>1. PICK n \in Nat : n = Len(rows) /\ DOMAIN rows = 1 .. n
  OBVIOUS
<1>2. \A i \in 1 .. n : rows[i] \in Ingestion!Chunk /\ embedders[i] \in Ingestion!Embedder
  BY <1>1
<1>3. \A i \in 1 .. n : [rows[i] EXCEPT !.by = embedders[i]] \in Ingestion!Chunk
  BY <1>2 DEF Ingestion!Chunk
<1>4. new = [i \in 1 .. n |-> IF i <= k THEN [rows[i] EXCEPT !.by = embedders[i]] ELSE rows[i]]
  BY <1>1
<1>5. new \in [1 .. n -> Ingestion!Chunk]
  BY <1>2, <1>3, <1>4
<1>6. new \in Seq(Ingestion!Chunk) /\ Len(new) = n /\ DOMAIN new = 1 .. n
  BY <1>1, <1>5
<1>7. \A i \in 1 .. n : new[i].from = rows[i].from /\ new[i].to = rows[i].to /\ (i <= k => new[i].by = embedders[i])
  BY <1>2, <1>4 DEF Ingestion!Chunk
<1>8. k = 0 => \A i \in 1 .. n : new[i] = rows[i]
  BY <1>1, <1>4
<1>9. new # <<>> <=> rows # <<>>
  BY <1>1, <1>6
<1> QED
  BY <1>1, <1>6, <1>7, <1>8, <1>9

\* What an embedding's commit does to the document, for each of its outcomes: alone, it
\* makes the document whole; overlapped, it keeps it whole if it had loaded it whole.
LEMMA EmbedKeeps ==
  ASSUME Ingestion!Admissible, DInv, NEW h \in Handlers, Ingestion!At(h, "embed", "work"), NEW d,
         d = handlers[h].doc,
         NEW k \in 0 .. Len(chunks[d]), Ingestion!EmbedFirst(h, k), Ingestion!Done(h),
         \/ k = Len(chunks[d]) /\ handlers[h].seen = Ingestion!Embedders(d) /\ spoiled' = spoiled \ {d}
         \/ k = Len(chunks[d]) /\ Ingestion!Whole(handlers[h].seen) /\ spoiled' = spoiled
         \/ k = 0 /\ spoiled' = spoiled
         \/ spoiled' = spoiled \cup {d},
         UNCHANGED <<documents, editions, words, files, draft, locked>>
  PROVE  DInv'
<1>1. /\ d \in Uploads /\ chunks[d] \in Seq(Ingestion!Chunk) /\ HandlerHolds(h) /\ handlers[h] # LibraryNone
      /\ RowHolds(d)
  BY WorkIs
<1>2. PICK p, seen : /\ p \in Providers /\ p = handlers[h].by /\ seen = handlers[h].seen
                     /\ chunks[d] # <<>> /\ DOMAIN seen = DOMAIN chunks[d]
  BY <1>1 DEF HandlerHolds, Ingestion!At
<1>3. PICK rows \in Seq(Ingestion!Chunk) : rows = chunks[d]
  BY <1>1
<1>4. PICK embedders : embedders = [i \in 1 .. Len(rows) |-> Ingestion!Written(p, seen[i], rows[i].by)]
  OBVIOUS
<1>5. PICK new : new = [i \in DOMAIN rows |-> IF i <= k THEN [rows[i] EXCEPT !.by = embedders[i]] ELSE rows[i]]
  OBVIOUS
<1>6. /\ DOMAIN rows = 1 .. Len(rows) /\ \A i \in 1 .. Len(rows) : rows[i].by \in Ingestion!Embedder
      /\ embedders \in [1 .. Len(rows) -> Ingestion!Embedder]
  <2>1. DOMAIN rows = 1 .. Len(rows) /\ \A i \in 1 .. Len(rows) : rows[i].by \in Ingestion!Embedder
    BY ChunkRows
  <2>2. ASSUME NEW i \in 1 .. Len(rows) PROVE Ingestion!Written(p, seen[i], rows[i].by) \in Ingestion!Embedder
    <3>1. p \in Providers /\ rows[i].by \in Ingestion!Embedder
      BY <1>2, <2>1
    <3> QED
      BY <3>1, WrittenIs
  <2> QED
    BY <1>4, <2>1, <2>2
<1>7. chunks' = [chunks EXCEPT ![d] = new]
  <2>1. chunks' = [chunks EXCEPT ![d] =
          [i \in DOMAIN rows |-> IF i <= k THEN [rows[i] EXCEPT !.by = Ingestion!Written(p, seen[i], rows[i].by)]
                                 ELSE rows[i]]]
    <3>1. handlers[h].doc = d /\ chunks[d] = rows /\ handlers[h].by = p /\ handlers[h].seen = seen
      BY <1>2, <1>3
    <3> QED
      BY <3>1 DEF Ingestion!EmbedFirst
  <2>2. new = [i \in DOMAIN rows |-> IF i <= k THEN [rows[i] EXCEPT !.by = Ingestion!Written(p, seen[i], rows[i].by)]
                                     ELSE rows[i]]
    BY <1>4, <1>5, <1>6
  <2> QED
    BY <2>1, <2>2
<1>8. /\ new \in Seq(Ingestion!Chunk) /\ Len(new) = Len(rows) /\ (new # <<>> <=> rows # <<>>)
      /\ \A i \in 1 .. Len(rows) : /\ new[i].from = rows[i].from /\ new[i].to = rows[i].to
                                   /\ i <= k => new[i].by = embedders[i]
      /\ k = 0 => \A i \in 1 .. Len(rows) : new[i] = rows[i]
      /\ DOMAIN new = 1 .. Len(rows)
  <2>1. k \in 0 .. Len(rows) /\ \A i \in 1 .. Len(rows) : embedders[i] \in Ingestion!Embedder
    BY <1>3, <1>6
  <2> QED
    BY <1>5, <2>1, EmbeddedIs
<1>9. new # <<>> => \E s \in Settings : IsSplit(new, words[d], s)
  <2>1. new # <<>> => \E s \in Settings : IsSplit(rows, words[d], s)
    BY <1>1, <1>3, <1>8 DEF RowHolds
  <2>2. ASSUME NEW s \in Settings, IsSplit(rows, words[d], s) PROVE IsSplit(new, words[d], s)
    BY <1>8, <2>2 DEF IsSplit
  <2> QED
    BY <2>1, <2>2
<1>10. d \notin spoiled' => \A i, j \in DOMAIN new : new[i].by = new[j].by
  <2>1. CASE k = Len(chunks[d]) /\ seen = Ingestion!Embedders(d)
    <3>1. \A i \in 1 .. Len(rows) : seen[i] = rows[i].by
      BY <1>3, <1>6, <2>1 DEF Ingestion!Embedders
    <3>2. ASSUME NEW i \in 1 .. Len(rows) PROVE embedders[i] = p
      <4>1. p \in Providers /\ rows[i].by \in Ingestion!Embedder
        BY <1>2, <1>6
      <4>2. embedders[i] = Ingestion!Written(p, rows[i].by, rows[i].by)
        BY <1>4, <3>1
      <4> QED
        BY <4>1, <4>2, WrittenIs
    <3> QED
      BY <1>3, <1>8, <2>1, <3>2
  <2>2. CASE k = Len(chunks[d]) /\ Ingestion!Whole(seen) /\ spoiled' = spoiled
    <3>1. d \notin spoiled => \A i, j \in 1 .. Len(rows) : rows[i].by = rows[j].by
      BY <1>1, <1>3, <1>6 DEF RowHolds
    <3>2. \A i, j \in 1 .. Len(rows) : seen[i] = seen[j]
      BY <1>2, <1>3, <1>6, <2>2 DEF Ingestion!Whole
    <3>3. d \notin spoiled => \A i, j \in 1 .. Len(rows) : embedders[i] = embedders[j]
      BY <1>4, <3>1, <3>2
    <3> QED
      BY <1>3, <1>8, <2>2, <3>3
  <2>3. CASE k = 0 /\ spoiled' = spoiled
    BY <1>1, <1>3, <1>6, <1>8, <2>3 DEF RowHolds
  <2> QED
    BY <1>2, <2>1, <2>2, <2>3
<1>11. spoiled \ {d} \subseteq spoiled' /\ spoiled' \subseteq Uploads
  BY <1>1 DEF DInv, Ingestion!TypeOK
<1>12. chunks[d] # <<>> => new # <<>> /\ DOMAIN new = DOMAIN chunks[d]
  BY <1>3, <1>6, <1>8
<1> QED
  BY <1>7, <1>8, <1>9, <1>10, <1>11, <1>12, ChunksAreWritten DEF Ingestion!Done

LEMMA CommitEmbeddingKeeps ==
  ASSUME Ingestion!Admissible, DInv, NEW h \in Handlers, Ingestion!CommitEmbedding(h)
  PROVE  DInv'
<1>1. PICK d : d = handlers[h].doc
  OBVIOUS
<1>2. Ingestion!At(h, "embed", "work")
  BY DEF Ingestion!CommitEmbedding
<1>3. chunks[d] \in Seq(Ingestion!Chunk)
  BY <1>1, <1>2, WorkIs
<1>4. PICK k \in 0 .. Len(chunks[d]) : k = Len(chunks[d])
  BY <1>3
<1>5. /\ Ingestion!EmbedFirst(h, k) /\ Ingestion!Done(h)
      /\ spoiled' = IF handlers[h].seen = Ingestion!Embedders(d) THEN spoiled \ {d}
                    ELSE spoiled \cup {x \in {d} : ~Ingestion!Whole(handlers[h].seen)}
      /\ UNCHANGED <<documents, editions, words, files, draft, locked>>
  BY <1>1, <1>4 DEF Ingestion!CommitEmbedding
<1>6. CASE handlers[h].seen = Ingestion!Embedders(d)
  BY <1>1, <1>2, <1>4, <1>5, <1>6, EmbedKeeps
<1>7. CASE handlers[h].seen # Ingestion!Embedders(d) /\ Ingestion!Whole(handlers[h].seen)
  <2>1. spoiled' = spoiled
    BY <1>5, <1>7
  <2> QED
    BY <1>1, <1>2, <1>4, <1>5, <1>7, <2>1, EmbedKeeps
<1>8. CASE handlers[h].seen # Ingestion!Embedders(d) /\ ~Ingestion!Whole(handlers[h].seen)
  <2>1. spoiled' = spoiled \cup {d}
    BY <1>5, <1>8
  <2> QED
    BY <1>1, <1>2, <1>4, <1>5, <2>1, EmbedKeeps
<1> QED
  BY <1>6, <1>7, <1>8

LEMMA FailEmbeddingKeeps ==
  ASSUME Ingestion!Admissible, DInv, NEW h \in Handlers, Ingestion!FailEmbedding(h)
  PROVE  DInv'
<1>1. PICK d : d = handlers[h].doc
  OBVIOUS
<1>2. Ingestion!At(h, "embed", "work")
  BY DEF Ingestion!FailEmbedding
<1>3. chunks[d] \in Seq(Ingestion!Chunk)
  BY <1>1, <1>2, WorkIs
<1>4. PICK k \in 0 .. Len(chunks[d]) - 1 :
        /\ Ingestion!EmbedFirst(h, k)
        /\ spoiled' = IF k = 0 THEN spoiled ELSE spoiled \cup {d}
  BY <1>1 DEF Ingestion!FailEmbedding
<1>5. k \in 0 .. Len(chunks[d]) /\ ((k = 0 /\ spoiled' = spoiled) \/ spoiled' = spoiled \cup {d})
  BY <1>3, <1>4
<1>6. Ingestion!Done(h) /\ UNCHANGED <<documents, editions, words, files, draft, locked>>
  BY DEF Ingestion!FailEmbedding
<1> QED
  BY <1>1, <1>2, <1>4, <1>5, <1>6, EmbedKeeps

-----------------------------------------------------------------------------

LEMMA InitDInv == ASSUME Ingestion!Admissible, Ingestion!Init PROVE DInv
<1>1. Ingestion!TypeOK
  BY DEF Ingestion!Admissible, Ingestion!Init, Ingestion!TypeOK
<1>2. \A h \in Handlers : HandlerHolds(h)
  BY DEF Ingestion!Init, HandlerHolds
<1>3. \A d \in Uploads : RowHolds(d)
  BY DEF Ingestion!Init, RowHolds
<1> QED
  BY <1>1, <1>2, <1>3 DEF DInv

LEMMA NextKeeps == ASSUME Ingestion!Admissible, DInv, [Ingestion!Next]_(Ingestion!vars) PROVE DInv'
<1>1. ASSUME NEW d \in Uploads, Ingestion!CreateDocument(d) PROVE DInv'
  BY <1>1, CreateDocumentKeeps
<1>2. ASSUME NEW h \in Handlers, Ingestion!Proceeds(h) PROVE DInv'
  BY <1>2, CommitUploadKeeps, RefuseUploadKeeps, ReadDraftKeeps, AssignDocumentKeeps,
     FlushProcessingKeeps,
     SaveTextKeeps, CommitExtractionKeeps, FailExtractionKeeps, CommitChunksKeeps,
     CommitEmbeddingKeeps,
     FailEmbeddingKeeps, CommitDocumentTransitionKeeps, CommitVersionTransitionKeeps DEF Ingestion!Proceeds
<1>3. ASSUME NEW h \in Handlers, Ingestion!Die(h) PROVE DInv'
  BY <1>3, DieKeeps
<1>4. ASSUME NEW h \in Handlers, NEW d \in Uploads, Ingestion!Arrives(h, d) PROVE DInv'
  BY <1>4, ArrivesKeeps
<1>5. CASE UNCHANGED Ingestion!vars
  <2>1. UNCHANGED <<documents, editions, chunks, words, files, draft, locked, handlers, spoiled>>
    BY <1>5 DEF Ingestion!vars
  <2>2. Ingestion!TypeOK'
    BY <2>1 DEF DInv, Ingestion!TypeOK
  <2>3. \A d \in Uploads : Persists(d) /\ Undisturbed(d)
    BY <2>1 DEF Persists, Undisturbed, Saving
  <2>4. \A d \in Uploads : RowHolds(d)'
    BY <2>1, <2>3, RowStays
  <2>5. \A h \in Handlers : HandlerHolds(h)'
    BY <2>1, <2>3, HandlerStays
  <2> QED
    BY <2>2, <2>4, <2>5 DEF DInv
<1> QED
  BY <1>1, <1>2, <1>3, <1>4, <1>5 DEF Ingestion!Next

\* Every state: what a handler has read of its document still holds, and the rows of a
\* document are consistent with its files and its text.
THEOREM LibraryInvariance == Ingestion!Spec => []DInv
<1>1. Ingestion!Init => DInv
  BY LibraryAssumption, InitDInv
<1>2. DInv /\ [Ingestion!Next]_(Ingestion!vars) => DInv'
  BY LibraryAssumption, NextKeeps
<1> QED
  BY <1>1, <1>2, PTL DEF Ingestion!Spec

\* The files of every committed row are on disk, whatever was cleaned up.
THEOREM FilesStay == Ingestion!Spec => []FilesBehindRows
<1>1. DInv => FilesBehindRows
  BY DEF DInv, RowHolds, FilesBehindRows, Ingestion!FilesBehindRows
<1> QED
  BY <1>1, LibraryInvariance, PTL

\* The chunks of a version are one split of its text, from its first word to its last.
THEOREM TextChunked == Ingestion!Spec => []TextIsChunked
<1>1. ASSUME DInv PROVE TextIsChunked
  <2>1. ASSUME NEW d \in Uploads, chunks[d] # <<>>
        PROVE  LET last == Len(chunks[d]) IN
               /\ chunks[d][1].from = 1
               /\ chunks[d][last].to = words[d]
               /\ \E s \in Settings :
                    \A i \in 1 .. last - 1 :
                      /\ chunks[d][i].to - chunks[d][i].from + 1 = s.size
                      /\ chunks[d][i].to - chunks[d][i + 1].from + 1 = s.overlap
                      /\ chunks[d][i].to < chunks[d][i + 1].to
    <3>1. PICK s \in Settings : IsSplit(chunks[d], words[d], s)
      BY <1>1, <2>1 DEF DInv, RowHolds
    <3>2. PICK rows \in Seq(Ingestion!Chunk), n \in 0 .. MaxWords : rows = chunks[d] /\ n = words[d]
      BY <1>1 DEF DInv, Ingestion!TypeOK
    <3>3. PICK split, last : split = Ingestion!SplitText(n, s) /\ last = Len(rows)
      OBVIOUS
    <3>4. /\ last = Len(split)
          /\ \A i \in 1 .. last : rows[i].from = split[i].from /\ rows[i].to = split[i].to
      BY <3>1, <3>2, <3>3 DEF IsSplit
    <3>5. last \in Nat \ {0}
      BY <2>1, <3>2, <3>3
    <3>6. n \in Nat \ {0}
      <4>1. n = 0 => split = <<>>
        BY <3>3, EmptyText
      <4> QED
        BY <3>2, <3>4, <3>5, <4>1
    <3>7. s \in [size : Nat, overlap : Nat] /\ s.overlap < s.size
      BY LibraryAssumption, SettingsAre
    <3>8. Tiles(split, last, n, s)
      <4>1. last = Len(Ingestion!SplitText(n, s)) /\ split = Ingestion!SplitText(n, s)
        BY <3>3, <3>4
      <4> QED
        BY <3>6, <3>7, <4>1, SplitCovers
    <3>9. \A i \in 1 .. last - 1 : i \in 1 .. last /\ i + 1 \in 1 .. last
      BY <3>5
    <3>10. 1 \in 1 .. last /\ last \in 1 .. last
      BY <3>5
    <3>11. Tiles(rows, last, n, s)
      BY <3>4, <3>8, <3>9, <3>10 DEF Tiles
    <3> QED
      BY <3>2, <3>3, <3>11 DEF Tiles
  <2> QED
    BY <2>1 DEF TextIsChunked, Ingestion!TextIsChunked
<1> QED
  BY <1>1, LibraryInvariance, PTL

\* Dense retrieval finds all of a document or nothing, unless an embedding failed part-way.
THEOREM WholeFound == Ingestion!Spec => []FoundWhole
<1>1. ASSUME DInv PROVE FoundWhole
  <2>1. ASSUME NEW d \in Uploads \ spoiled, NEW p \in Providers, Ingestion!DenseMatches(p, {d}) # {}
        PROVE  Ingestion!DenseMatches(p, {d}) = Ingestion!LexicalMatches({d})
    <3>1. \A i, j \in DOMAIN chunks[d] : chunks[d][i].by = chunks[d][j].by
      BY <1>1 DEF DInv, RowHolds
    <3>2. PICK m \in Ingestion!LexicalMatches({d}) : chunks[m[1]][m[2]].by = p
      BY <2>1 DEF Ingestion!DenseMatches
    <3>3. \A x \in Ingestion!LexicalMatches({d}) : x[1] = d /\ x[2] \in DOMAIN chunks[d]
      BY LibraryAssumption DEF Ingestion!LexicalMatches, Ingestion!InScope, Ingestion!Admissible
    <3>4. ASSUME NEW x \in Ingestion!LexicalMatches({d}) PROVE chunks[x[1]][x[2]].by = p
      <4>1. x[1] = d /\ x[2] \in DOMAIN chunks[d] /\ m[1] = d /\ m[2] \in DOMAIN chunks[d]
        BY <3>3
      <4> QED
        BY <3>1, <3>2, <4>1
    <3> QED
      BY <3>4 DEF Ingestion!DenseMatches
  <2> QED
    BY <2>1 DEF FoundWhole, Ingestion!FoundWhole
<1> QED
  BY <1>1, LibraryInvariance, PTL
-----------------------------------------------------------------------------
(***************************************************************************)
(* Answers, for every library, request, pipeline, scope and limit, and for *)
(* every interleaving with administrators and other requests.              *)
(*                                                                         *)
(* The invariant AInv says what each stage has made: Searched, that what   *)
(* was found so far are rankings, one per query made; Blocks, that the     *)
(* context numbers its blocks from one and the model is shown some of      *)
(* them; Decided, which reason, reply and citations a stage may have;      *)
(* Recorded, that the execution is recorded once and can be found; Traced, *)
(* what is buffered, and what an ended trace was given.  The requirement   *)
(* on rankings rests on what sorting by a total order gives (Sorting), on  *)
(* the monotony of reciprocals, and on the keys of the merge.              *)
(*                                                                         *)
(* The decision rests on what the verifiers find in a text, which is said  *)
(* without folds: a unit, and a window of units, holds what a row of       *)
(* sentences with at most two stops holds (IsWindow, SupportIsTrue), so a  *)
(* chunk supports a fact when a sentence states it and only when such a    *)
(* row does.  RightInv adds to AInv where what was found comes from        *)
(* (Sourced) and what the judge made of it (Right).                        *)
(***************************************************************************)

\* A sequence, of whatever it holds.
IsSeq(s) == s \in Seq({s[i] : i \in DOMAIN s})

\* A function on an initial segment of the naturals is a sequence.
LEMMA TupleIsSeq ==
  ASSUME NEW n \in Nat, NEW s, s = [i \in 1 .. n |-> s[i]]
  PROVE  IsSeq(s) /\ Len(s) = n /\ DOMAIN s = 1 .. n
<1>1. s \in [1 .. n -> {s[i] : i \in DOMAIN s}]  OBVIOUS
<1>2. s \in Seq({s[i] : i \in DOMAIN s})  BY <1>1, SeqDef
<1> QED  BY <1>1, <1>2, LenProperties DEF IsSeq

\* The same for an expression.
LEMMA TopIsSeq ==
  ASSUME NEW s, IsSeq(s), NEW n \in Nat
  PROVE  /\ IsSeq(Reply!Top(s, n)) /\ Len(Reply!Top(s, n)) <= n
         /\ Len(Reply!Top(s, n)) <= Len(s)
         /\ \A i \in DOMAIN Reply!Top(s, n) : i \in DOMAIN s /\ Reply!Top(s, n)[i] = s[i]
<1> DEFINE m == IF n < Len(s) THEN n ELSE Len(s)
           S == {s[i] : i \in DOMAIN s}
<1>1. s \in Seq(S) /\ Len(s) \in Nat /\ DOMAIN s = 1 .. Len(s)  BY LenProperties DEF IsSeq
<1>2. m \in Nat /\ m <= Len(s) /\ m <= n  BY <1>1
<1> DEFINE t == SubSeq(s, 1, m)
<1>3. t = [i \in 1 .. m |-> s[i]]  BY <1>1, <1>2, SubSeqProperties
<1>4. t = [i \in 1 .. m |-> t[i]]  BY <1>3
<1>5. IsSeq(t) /\ Len(t) = m /\ DOMAIN t = 1 .. m  BY <1>2, <1>4, TupleIsSeq
<1>6. t = Reply!Top(s, n)  BY DEF Reply!Top
<1> HIDE DEF t, m
<1> QED  BY <1>1, <1>2, <1>3, <1>5, <1>6

\* The interval from 1 has as many elements as its end says.
LEMMA UpTo ==
  ASSUME NEW n \in Nat
  PROVE  IsFiniteSet(1 .. n) /\ Cardinality(1 .. n) = n
BY FS_Interval

\* The instance's cardinality is the library's.
LEMMA SameSize == \A S : Reply!Cardinality(S) = Cardinality(S)
BY DEF Reply!Cardinality, Cardinality

\* R orders S strictly and totally.
Orders(R, S) ==
  /\ \A x \in S : <<x, x>> \notin R
  /\ \A x, y, z \in S : <<x, y>> \in R /\ <<y, z>> \in R => <<x, z>> \in R
  /\ \A x, y \in S : x = y \/ <<x, y>> \in R \/ <<y, x>> \in R

Below(R, S, x) == {y \in S : <<y, x>> \in R}

\* Whoever is later has more before him, at most all others.
LEMMA BelowGrows ==
  ASSUME NEW S, IsFiniteSet(S), NEW R, Orders(R, S), NEW x \in S
  PROVE  /\ Cardinality(Below(R, S, x)) \in 0 .. Cardinality(S) - 1
         /\ \A z \in S : <<x, z>> \in R => Cardinality(Below(R, S, x)) < Cardinality(Below(R, S, z))
<1>1. \A z \in S : Below(R, S, z) \in SUBSET S /\ z \notin Below(R, S, z)  BY DEF Below, Orders
<1>2. \A z \in S : IsFiniteSet(Below(R, S, z)) /\ Cardinality(Below(R, S, z)) \in Nat
  BY <1>1, FS_Subset, FS_CardinalityType
<1>3. Cardinality(S) \in Nat  BY FS_CardinalityType
<1>4. Cardinality(Below(R, S, x)) <= Cardinality(S) /\ Cardinality(Below(R, S, x)) # Cardinality(S)
  BY <1>1, FS_Subset
<1>5. ASSUME NEW z \in S, <<x, z>> \in R
      PROVE  Cardinality(Below(R, S, x)) < Cardinality(Below(R, S, z))
  <2> DEFINE X == Below(R, S, x)  Z == Below(R, S, z)
  <2>1. X \in SUBSET Z /\ x \in Z /\ x \notin X  BY <1>1, <1>5 DEF Below, Orders
  <2>2. IsFiniteSet(Z) /\ Cardinality(X) \in Nat /\ Cardinality(Z) \in Nat  BY <1>2
  <2> HIDE DEF X, Z
  <2>3. Cardinality(X) <= Cardinality(Z) /\ Cardinality(X) # Cardinality(Z)
    BY <2>1, <2>2, FS_Subset
  <2>4. Cardinality(X) < Cardinality(Z)  BY <2>2, <2>3
  <2> QED  BY <2>4 DEF X, Z
<1>6. Cardinality(Below(R, S, x)) \in 0 .. Cardinality(S) - 1  BY <1>2, <1>3, <1>4
<1> QED  BY <1>5, <1>6

\* So there is one with any number before him.
LEMMA Placed ==
  ASSUME NEW S, IsFiniteSet(S), NEW R, Orders(R, S), NEW i \in 1 .. Cardinality(S)
  PROVE  \E x \in S : Cardinality(Below(R, S, x)) = i - 1
<1> DEFINE n == Cardinality(S)
           rank == [x \in S |-> Cardinality(Below(R, S, x))]
<1>1. n \in Nat  BY FS_CardinalityType
<1>2. rank \in [S -> 0 .. n - 1]  BY BelowGrows
<1>3. ASSUME NEW x \in S, NEW z \in S, rank[x] = rank[z]  PROVE  x = z
  <2>1. rank[x] = Cardinality(Below(R, S, x)) /\ rank[z] = Cardinality(Below(R, S, z))  OBVIOUS
  <2>2. rank[x] \in Int /\ rank[z] \in Int  BY <1>1, <1>2
  <2>3. <<x, z>> \in R => rank[x] < rank[z]  BY <2>1, BelowGrows
  <2>4. <<z, x>> \in R => rank[z] < rank[x]  BY <2>1, BelowGrows
  <2> HIDE DEF rank
  <2> QED  BY <1>3, <2>2, <2>3, <2>4 DEF Orders
<1> HIDE DEF rank
<1>4. rank \in Injection(S, 0 .. n - 1)  BY <1>2, <1>3 DEF Injection, IsInjective
<1>5. IsFiniteSet(0 .. n - 1) /\ Cardinality(0 .. n - 1) = n
  <2>1. 0 \in Int /\ n - 1 \in Int /\ (n - 1) - 0 + 1 = n /\ (0 > n - 1 => n = 0)  BY <1>1
  <2> HIDE DEF n
  <2> QED  BY <2>1, FS_Interval
<1>6. rank \in Surjection(S, 0 .. n - 1)  BY <1>4, <1>5, FS_Injection
<1>7. i - 1 \in 0 .. n - 1  BY <1>1
<1>8. \E x \in S : rank[x] = i - 1  BY <1>6, <1>7 DEF Surjection
<1> QED  BY <1>8 DEF rank

\* Sorting puts every element in a place, and the earlier one first.
LEMMA Sorting ==
  ASSUME NEW S, IsFiniteSet(S), NEW R, Orders(R, S)
  PROVE  LET s == Reply!Sorted(S, R)
         IN /\ IsSeq(s) /\ Len(s) = Cardinality(S) /\ DOMAIN s = 1 .. Cardinality(S)
            /\ \A i \in DOMAIN s : s[i] \in S
            /\ \A x \in S : \E i \in DOMAIN s : s[i] = x
            /\ \A i, j \in DOMAIN s : i < j => s[i] # s[j] /\ <<s[i], s[j]>> \in R
            /\ \A j \in DOMAIN s, x \in S : <<x, s[j]>> \in R => \E i \in 1 .. j - 1 : s[i] = x
<1> DEFINE n == Cardinality(S)
           s == Reply!Sorted(S, R)
           D == 1 .. n
<1>1. n \in Nat  BY FS_CardinalityType
<1>2. s = [i \in D |-> CHOOSE x \in S : Cardinality(Below(R, S, x)) = i - 1]
  BY DEF Reply!Sorted, Below, Cardinality, Reply!Cardinality
<1>3. s = [i \in D |-> s[i]]  BY <1>2
<1>4. IsSeq(s) /\ Len(s) = n /\ DOMAIN s = D  BY <1>1, <1>3, TupleIsSeq
<1>5. ASSUME NEW i \in D  PROVE  s[i] \in S /\ Cardinality(Below(R, S, s[i])) = i - 1
  <2>1. \E x \in S : Cardinality(Below(R, S, x)) = i - 1  BY Placed
  <2> QED  BY <1>2, <2>1
<1> HIDE DEF s
<1>6. ASSUME NEW i \in D, NEW j \in D, i < j  PROVE  s[i] # s[j] /\ <<s[i], s[j]>> \in R
  <2>1. i - 1 < j - 1 /\ i \in Int /\ j \in Int  BY <1>6
  <2>2. s[i] # s[j]  BY <1>5, <2>1
  <2>3. <<s[j], s[i]>> \in R => j - 1 < i - 1  BY <1>5, BelowGrows
  <2> QED  BY <1>5, <2>1, <2>2, <2>3 DEF Orders
<1>7. ASSUME NEW x \in S  PROVE  \E i \in D : s[i] = x
  <2> DEFINE i == Cardinality(Below(R, S, x)) + 1
  <2>1. Cardinality(Below(R, S, x)) \in 0 .. n - 1  BY BelowGrows
  <2>2. i \in D /\ i - 1 = Cardinality(Below(R, S, x))  BY <1>1, <2>1
  <2>3. s[i] \in S /\ Cardinality(Below(R, S, s[i])) = i - 1  BY <1>5, <2>2
  <2>4. \A k \in D : s[k] \in S  BY <1>5
  <2>5. ~(Cardinality(Below(R, S, x)) < Cardinality(Below(R, S, x)))  BY <2>1
  <2>6. <<s[i], x>> \notin R /\ <<x, s[i]>> \notin R  BY <2>2, <2>3, <2>5, BelowGrows
  <2> HIDE DEF i
  <2> QED  BY <2>2, <2>3, <2>6 DEF Orders
<1>8. ASSUME NEW j \in D, NEW x \in S, <<x, s[j]>> \in R  PROVE  \E i \in 1 .. j - 1 : s[i] = x
  <2>1. PICK i \in D : s[i] = x  BY <1>7
  <2>2. s[j] \in S  BY <1>5
  <2>3. i # j  BY <1>8, <2>1 DEF Orders
  <2>4. ~(j < i)  BY <1>6, <1>8, <2>1, <2>2 DEF Orders
  <2>5. i \in 1 .. j - 1  BY <2>3, <2>4
  <2> QED  BY <2>1, <2>5
<1> QED  BY <1>4, <1>5, <1>6, <1>7, <1>8 DEF s

\* Sorting numbers of an interval gives some of them, in a sequence.
LEMMA SortedNaturals ==
  ASSUME NEW n \in Nat, NEW S \in SUBSET (1 .. n)
  PROVE  LET s == Reply!Sorted(S, {p \in S \X S : p[1] < p[2]})
         IN IsSeq(s) /\ Len(s) <= n /\ \A i \in DOMAIN s : s[i] \in S
<1> DEFINE R == {p \in S \X S : p[1] < p[2]}
           s == Reply!Sorted(S, R)
<1>1. IsFiniteSet(S) /\ Cardinality(S) <= n
  <2>1. IsFiniteSet(1 .. n) /\ Cardinality(1 .. n) = n  BY UpTo
  <2> QED  BY <2>1, FS_Subset
<1>2. \A x \in S : x \in Int  OBVIOUS
<1>3. \A x, y \in S : <<x, y>> \in R <=> x < y  OBVIOUS
<1> HIDE DEF R
<1>4. Orders(R, S)  BY <1>2, <1>3 DEF Orders
<1> HIDE DEF s
<1>5. IsSeq(s) /\ Len(s) <= n /\ \A i \in DOMAIN s : s[i] \in S  BY <1>1, <1>4, Sorting DEF s
<1> QED  BY <1>5 DEF s, R

\* The best first, and none twice.
IsRanking(r) ==
  /\ IsSeq(r)
  /\ \A i \in DOMAIN r : r[i].chunk \in Chunks /\ r[i].score \in Nat
  /\ \A i, j \in DOMAIN r : i < j => r[i].chunk # r[j].chunk /\ r[i].score >= r[j].score

\* What is assumed of the constants, as the proofs use it.
LEMMA Constants ==
  /\ Chunks \subseteq Nat /\ IsFiniteSet(Chunks) /\ ChunkIndex \in [Chunks -> Nat]
  /\ MaxQueries \in Nat /\ MaxQueries >= 1 /\ Pool \in Nat /\ MaxBlocks \in Nat
  /\ Window \in Nat /\ Scores \subseteq Nat
  /\ NoAnswer \notin [state : {"answered", "fallback", "failed"}, cost : {"none", "zero", "recorded"}]
  /\ NoAnswer # "provider_failed" /\ NoAnswer # "sufficient_evidence"
  /\ \A r \in Requests : IsFiniteSet(r.case.question.terms) /\ IsFiniteSet(r.case.question.keywords)
                           /\ r.setup.floor \in Nat
<1>1. \A S : Reply!IsFiniteSet(S) <=> IsFiniteSet(S)  BY DEF Reply!IsFiniteSet, IsFiniteSet
<1> QED  BY <1>1, AnsweringAssumption DEF Reply!Admissible, Reply!RetrievalAdmissible

\* The first few of a ranking are a ranking.
LEMMA TopIsRanking ==
  ASSUME NEW r, IsRanking(r), NEW n \in Nat
  PROVE  IsRanking(Reply!Top(r, n))
<1>1. IsSeq(Reply!Top(r, n)) /\ \A i \in DOMAIN Reply!Top(r, n) : i \in DOMAIN r /\ Reply!Top(r, n)[i] = r[i]
  BY TopIsSeq DEF IsRanking
<1> QED  BY <1>1 DEF IsRanking

\* Sorting by score makes a ranking.
LEMMA ByScoreIsRanking ==
  ASSUME NEW S \in SUBSET Chunks, NEW score, \A c \in S : score[c] \in Nat
  PROVE  /\ IsRanking(Reply!ByScore(S, score))
         /\ \A i \in DOMAIN Reply!ByScore(S, score) : Reply!ByScore(S, score)[i].chunk \in S
<1> DEFINE Before(a, b) == score[a] > score[b] \/ (score[a] = score[b] /\ Reply!EarlierChunk(a, b))
           R == {p \in S \X S : Before(p[1], p[2])}
           order == Reply!Sorted(S, R)
           r == Reply!ByScore(S, score)
<1>1. IsFiniteSet(S) /\ Cardinality(S) \in Nat  BY Constants, FS_Subset, FS_CardinalityType
<1>2. \A a, b \in S : <<a, b>> \in R <=> Before(a, b)  OBVIOUS
<1>3. Orders(R, S)
  <2>1. \A a \in S : a \in Nat /\ ChunkIndex[a] \in Nat /\ score[a] \in Nat  BY Constants
  <2> HIDE DEF R
  <2> QED  BY <1>2, <2>1 DEF Orders, Reply!EarlierChunk
<1>4. r = [i \in DOMAIN order |-> [chunk |-> order[i], score |-> score[order[i]]]]
  BY DEF Reply!ByScore, Reply!Match
<1> HIDE DEF R
<1>5. /\ DOMAIN order = 1 .. Cardinality(S) /\ \A i \in DOMAIN order : order[i] \in S
      /\ \A i, j \in DOMAIN order : i < j => order[i] # order[j] /\ <<order[i], order[j]>> \in R
  BY <1>1, <1>3, Sorting
<1> HIDE DEF order, r
<1>6. DOMAIN r = DOMAIN order /\ r = [i \in DOMAIN order |-> r[i]]  BY <1>4
<1>7. IsSeq(r)  BY <1>1, <1>5, <1>6, TupleIsSeq
<1>8. \A i \in DOMAIN r : r[i].chunk = order[i] /\ r[i].score = score[order[i]]  BY <1>4, <1>6
<1>9. ASSUME NEW i \in DOMAIN r, NEW j \in DOMAIN r, i < j
      PROVE  r[i].chunk # r[j].chunk /\ r[i].score >= r[j].score
  <2>1. order[i] \in S /\ order[j] \in S /\ order[i] # order[j] /\ Before(order[i], order[j])
    BY <1>2, <1>5, <1>6, <1>9
  <2>2. score[order[i]] \in Nat /\ score[order[j]] \in Nat  BY <2>1
  <2> QED  BY <1>8, <2>1, <2>2
<1>10. IsRanking(r)
  <2>1. \A i \in DOMAIN r : r[i].chunk \in Chunks /\ r[i].score \in Nat  BY <1>5, <1>6, <1>8
  <2> QED  BY <1>7, <1>9, <2>1 DEF IsRanking
<1> QED  BY <1>5, <1>6, <1>8, <1>10 DEF r

\* The elements of a set that come before all others of 1 .. n are as many as it has.
LEMMA Foremost ==
  ASSUME NEW n \in Nat, NEW S \in SUBSET (1 .. n),
         \A i \in (1 .. n) \ S, j \in S : j < i
  PROVE  \A i \in 1 .. Cardinality(S) : i \in S
<1> SUFFICES ASSUME NEW i \in 1 .. Cardinality(S), i \notin S  PROVE  FALSE  OBVIOUS
<1>1. IsFiniteSet(1 .. n) /\ Cardinality(1 .. n) = n  BY UpTo
<1>2. Cardinality(S) \in Nat /\ Cardinality(S) <= n
  BY <1>1, FS_Subset, FS_CardinalityType
<1>3. i \in 1 .. n /\ i - 1 \in Nat  BY <1>2
<1>4. S \in SUBSET (1 .. i - 1)  BY <1>3
<1>5. IsFiniteSet(1 .. i - 1) /\ Cardinality(1 .. i - 1) = i - 1  BY <1>3, UpTo
<1>6. Cardinality(S) <= i - 1  BY <1>4, <1>5, FS_Subset
<1> QED  BY <1>2, <1>6

\* The dense search returns a ranking of chunks not below the floor.
LEMMA DenseIsRanking ==
  ASSUME NEW S \in SUBSET Chunks, NEW score, \A c \in S : score[c] \in Nat, NEW limit \in Nat,
         NEW floor \in Nat
  PROVE  LET r == Reply!DenseSearch(S, score, limit, floor)
         IN IsRanking(r) /\ \A i \in DOMAIN r : r[i].chunk \in S /\ r[i].score >= floor
<1> DEFINE top == Reply!Top(Reply!ByScore(S, score), limit)
           above == {i \in DOMAIN top : floor = 0 \/ top[i].score >= floor}
<1>1. IsRanking(top) /\ \A i \in DOMAIN top : top[i].chunk \in S
  <2> DEFINE r == Reply!ByScore(S, score)
  <2>1. IsRanking(r) /\ \A i \in DOMAIN r : r[i].chunk \in S  BY ByScoreIsRanking
  <2> HIDE DEF r
  <2>2. IsRanking(Reply!Top(r, limit))
        /\ \A i \in DOMAIN Reply!Top(r, limit) : i \in DOMAIN r /\ Reply!Top(r, limit)[i] = r[i]
    BY <2>1, TopIsRanking, TopIsSeq DEF IsRanking
  <2> QED  BY <2>1, <2>2 DEF r
<1> HIDE DEF top
<1>2. IsFiniteSet(DOMAIN top)
  <2>1. DOMAIN top = 1 .. Len(top) /\ Len(top) \in Nat  BY <1>1, LenProperties DEF IsRanking, IsSeq
  <2> QED  BY <2>1, UpTo
<1>3. Reply!Cardinality(above) \in Nat
  <2>1. above \in SUBSET DOMAIN top  OBVIOUS
  <2> HIDE DEF above
  <2>2. IsFiniteSet(above)  BY <1>2, <2>1, FS_Subset
  <2> QED  BY <2>2, FS_CardinalityType, SameSize
<1>4. Reply!DenseSearch(S, score, limit, floor) = Reply!Top(top, Reply!Cardinality(above))
  BY DEF Reply!DenseSearch, top
<1> DEFINE r == Reply!Top(top, Reply!Cardinality(above))
<1>5. DOMAIN top = 1 .. Len(top) /\ Len(top) \in Nat  BY <1>1, LenProperties DEF IsRanking, IsSeq
<1>6. \A i \in 1 .. Cardinality(above) : i \in above
  <2>1. above \in SUBSET (1 .. Len(top))  BY <1>5
  <2>2. ASSUME NEW i \in (1 .. Len(top)) \ above, NEW j \in above  PROVE  j < i
    <3>1. i \in DOMAIN top /\ j \in DOMAIN top /\ i \in Int /\ j \in Int  BY <1>5
    <3>2. floor # 0 /\ ~(top[i].score >= floor) /\ top[j].score >= floor  BY <3>1
    <3>3. top[i].score \in Nat /\ top[j].score \in Nat  BY <1>1, <3>1 DEF IsRanking
    <3>4. i # j  BY <3>2
    <3>5. i < j => top[i].score >= top[j].score  BY <1>1, <3>1 DEF IsRanking
    <3> QED  BY <3>1, <3>2, <3>3, <3>4, <3>5
  <2> HIDE DEF above
  <2> QED  BY <1>5, <2>1, <2>2, Foremost
<1>7. \A i \in above : top[i].score >= floor /\ top[i].chunk \in S
  BY <1>1 DEF IsRanking
<1> HIDE DEF above
<1>8. IsRanking(r)  BY <1>1, <1>3, TopIsRanking
<1>9. \A i \in DOMAIN r : i \in 1 .. Cardinality(above) /\ r[i] = top[i]
  <2>1. IsSeq(top)  BY <1>1 DEF IsRanking
  <2>2. Len(r) <= Reply!Cardinality(above) /\ \A i \in DOMAIN r : r[i] = top[i]
    BY <1>3, <2>1, TopIsSeq
  <2>3. DOMAIN r = 1 .. Len(r) /\ Len(r) \in Nat  BY <1>8, LenProperties DEF IsRanking, IsSeq
  <2>4. Reply!Cardinality(above) = Cardinality(above)  BY SameSize
  <2> HIDE DEF r
  <2> QED  BY <1>3, <2>2, <2>3, <2>4
<1> HIDE DEF r
<1> QED  BY <1>4, <1>6, <1>7, <1>8, <1>9 DEF r

\* The lexical search returns a ranking.
LEMMA LexicalIsRanking ==
  ASSUME NEW S \in SUBSET Chunks, NEW terms, IsFiniteSet(terms), NEW wordsIn, NEW limit \in Nat
  PROVE  LET r == Reply!LexicalSearch(S, terms, wordsIn, limit)
         IN IsRanking(r) /\ \A i \in DOMAIN r : r[i].chunk \in S
<1> DEFINE hits == [c \in S |-> Reply!Cardinality(terms \cap wordsIn[c])]
           H == {c \in S : hits[c] > 0}
<1>1. H \in SUBSET Chunks /\ H \in SUBSET S  OBVIOUS
<1>2. Reply!LexicalSearch(S, terms, wordsIn, limit) = Reply!Top(Reply!ByScore(H, hits), limit)
  BY DEF Reply!LexicalSearch
<1>3. \A c \in S : hits[c] \in Nat
  <2> TAKE c \in S
  <2>1. IsFiniteSet(terms \cap wordsIn[c])  BY FS_Intersection
  <2> DEFINE T == terms \cap wordsIn[c]
  <2> HIDE DEF T
  <2>2. IsFiniteSet(T) => Cardinality(T) \in Nat  BY FS_CardinalityType
  <2> QED  BY <2>1, <2>2, SameSize DEF T
<1> HIDE DEF hits, H
<1> DEFINE r == Reply!ByScore(H, hits)
<1>4. IsRanking(r) /\ \A i \in DOMAIN r : r[i].chunk \in H  BY <1>1, <1>3, ByScoreIsRanking
<1> HIDE DEF r
<1>5. IsRanking(Reply!Top(r, limit))
      /\ \A i \in DOMAIN Reply!Top(r, limit) : i \in DOMAIN r /\ Reply!Top(r, limit)[i] = r[i]
  BY <1>4, TopIsRanking, TopIsSeq DEF IsRanking
<1> QED  BY <1>1, <1>2, <1>4, <1>5 DEF r

-----------------------------------------------------------------------------
\* In a ranking every chunk has one place.
LEMMA Ranks ==
  ASSUME NEW r, IsRanking(r)
  PROVE  /\ DOMAIN r = 1 .. Len(r) /\ Len(r) \in Nat /\ Len(r) <= Cardinality(Chunks)
         /\ Cardinality(Chunks) \in Nat
         /\ Reply!ChunksOf(r) \in SUBSET Chunks
         /\ \A i \in DOMAIN r :
              r[i].chunk \in Reply!ChunksOf(r) /\ Reply!RankOf(r, r[i].chunk) = i
         /\ \A c \in Reply!ChunksOf(r) :
              /\ Reply!RankOf(r, c) \in DOMAIN r /\ r[Reply!RankOf(r, c)].chunk = c
              /\ Reply!ScoreOf(r, c) \in Nat
<1>1. Len(r) \in Nat /\ DOMAIN r = 1 .. Len(r)  BY LenProperties DEF IsRanking, IsSeq
<1>2. \A i, j \in DOMAIN r : r[i].chunk = r[j].chunk => i = j
  <2> SUFFICES ASSUME NEW i \in DOMAIN r, NEW j \in DOMAIN r, r[i].chunk = r[j].chunk, i # j
               PROVE  FALSE
    OBVIOUS
  <2>1. i < j \/ j < i  BY <1>1
  <2> QED  BY <2>1 DEF IsRanking
<1>3. Len(r) <= Cardinality(Chunks)
  <2> DEFINE f == [i \in 1 .. Len(r) |-> r[i].chunk]
  <2>1. f \in Injection(1 .. Len(r), Chunks)  BY <1>1, <1>2 DEF IsRanking, Injection, IsInjective
  <2> HIDE DEF f
  <2>2. Cardinality(1 .. Len(r)) <= Cardinality(Chunks)  BY <2>1, Constants, FS_Injection
  <2>3. Cardinality(1 .. Len(r)) = Len(r)  BY <1>1, UpTo
  <2> QED  BY <2>2, <2>3
<1>4. \A i \in DOMAIN r : r[i].chunk \in Reply!ChunksOf(r) /\ Reply!RankOf(r, r[i].chunk) = i
  BY <1>2 DEF Reply!ChunksOf, Reply!RankOf
<1>5. \A c \in Reply!ChunksOf(r) : Reply!RankOf(r, c) \in DOMAIN r /\ r[Reply!RankOf(r, c)].chunk = c
  BY <1>4 DEF Reply!ChunksOf
<1>6. Reply!ChunksOf(r) \in SUBSET Chunks /\ \A c \in Reply!ChunksOf(r) : Reply!ScoreOf(r, c) \in Nat
  BY <1>5 DEF IsRanking, Reply!ChunksOf, Reply!ScoreOf
<1>7. Cardinality(Chunks) \in Nat  BY Constants, FS_CardinalityType
<1> QED  BY <1>1, <1>3, <1>4, <1>5, <1>6, <1>7

\* A smaller divisor goes into it more often.
LEMMA Quotients ==
  ASSUME NEW s \in Nat \ {0}, NEW m \in Nat \ {0}, NEW n \in Nat \ {0},
         m < n, s % m = 0, s % n = 0
  PROVE  s \div m \in Nat /\ s \div n \in Nat /\ s \div m > s \div n
<1> DEFINE p == s \div m  q == s \div n
<1>1. p \in Nat /\ s = m * p  OBVIOUS
<1>2. q \in Nat /\ s = n * q  OBVIOUS
<1> HIDE DEF p, q
<1>3. ASSUME p <= q  PROVE  FALSE
  <2>1. q # 0  BY <1>2
  <2>2. m * p <= m * q  BY <1>1, <1>2, <1>3
  <2>3. m * q < n * q  BY <1>2, <2>1
  <2> QED  BY <1>1, <1>2, <2>2, <2>3
<1>4. p > q  BY <1>1, <1>2, <1>3
<1> QED  BY <1>1, <1>2, <1>4 DEF p, q

\* The better rank has the greater reciprocal.
LEMMA Reciprocals ==
  ASSUME NEW r, IsRanking(r)
  PROVE  /\ \A c : Reply!Reciprocal(r, c) \in Nat
         /\ \A a, b \in Reply!ChunksOf(r) :
              Reply!RankOf(r, a) < Reply!RankOf(r, b) => Reply!Reciprocal(r, a) > Reply!Reciprocal(r, b)
         /\ \A c : c \notin Reply!ChunksOf(r) => Reply!Reciprocal(r, c) = 0
<1>1. /\ RrfK \in Nat \ {0} /\ Scale \in Nat \ {0}
      /\ \A rank \in 1 .. Cardinality(Chunks) : Scale % (RrfK + rank) = 0
  BY SameSize, AnsweringAssumption DEF Reply!Admissible, Reply!RetrievalAdmissible
<1>2. ASSUME NEW c \in Reply!ChunksOf(r)
      PROVE  /\ RrfK + Reply!RankOf(r, c) \in Nat \ {0} /\ Scale % (RrfK + Reply!RankOf(r, c)) = 0
             /\ Reply!RankOf(r, c) \in Nat
  <2> DEFINE rank == Reply!RankOf(r, c)
  <2>1. rank \in 1 .. Cardinality(Chunks)  BY Ranks
  <2> HIDE DEF rank
  <2>2. RrfK + rank \in Nat \ {0} /\ Scale % (RrfK + rank) = 0 /\ rank \in Nat  BY <1>1, <2>1
  <2> QED  BY <2>2 DEF rank
<1>3. ASSUME NEW c \in Reply!ChunksOf(r)
      PROVE  Reply!Reciprocal(r, c) = Scale \div (RrfK + Reply!RankOf(r, c)) /\ Reply!Reciprocal(r, c) \in Nat
  <2>1. Reply!Reciprocal(r, c) = Scale \div (RrfK + Reply!RankOf(r, c))  BY DEF Reply!Reciprocal
  <2> DEFINE m == RrfK + Reply!RankOf(r, c)
  <2>2. m \in Nat \ {0}  BY <1>2
  <2> HIDE DEF m
  <2>3. Scale \div m \in Nat  BY <1>1, <2>2
  <2> QED  BY <2>1, <2>3 DEF m
<1>4. \A c : c \notin Reply!ChunksOf(r) => Reply!Reciprocal(r, c) = 0  BY DEF Reply!Reciprocal
<1>5. ASSUME NEW a \in Reply!ChunksOf(r), NEW b \in Reply!ChunksOf(r),
             Reply!RankOf(r, a) < Reply!RankOf(r, b)
      PROVE  Reply!Reciprocal(r, a) > Reply!Reciprocal(r, b)
  <2> DEFINE m == RrfK + Reply!RankOf(r, a)  n == RrfK + Reply!RankOf(r, b)
  <2>1. m \in Nat \ {0} /\ n \in Nat \ {0} /\ Scale % m = 0 /\ Scale % n = 0  BY <1>2
  <2>2. m < n  BY <1>1, <1>2, <1>5
  <2>3. Reply!Reciprocal(r, a) = Scale \div m /\ Reply!Reciprocal(r, b) = Scale \div n  BY <1>3
  <2> HIDE DEF m, n
  <2> QED  BY <1>1, <2>1, <2>2, <2>3, Quotients
<1> QED  BY <1>3, <1>4, <1>5

\* What is fused is there by its score, from the top.
LEMMA Fused ==
  ASSUME NEW f, IsRanking(f), NEW g, IsRanking(g), NEW n \in Nat
  PROVE  /\ IsSeq(Reply!Fuse(f, g, n))
         /\ \A j \in DOMAIN Reply!Fuse(f, g, n) :
              LET b == Reply!Fuse(f, g, n)[j].chunk
                  S == Reply!ChunksOf(f) \cup Reply!ChunksOf(g)
              IN /\ b \in S
                 /\ \A a \in S : Reply!RrfScore(f, g, a) > Reply!RrfScore(f, g, b) =>
                      \E i \in 1 .. j - 1 : Reply!Fuse(f, g, n)[i].chunk = a
<1> DEFINE S == Reply!ChunksOf(f) \cup Reply!ChunksOf(g)
           score == [c \in S |-> Reply!RrfScore(f, g, c)]
           Before(a, b) == score[a] > score[b] \/ (score[a] = score[b] /\ a < b)
           R == {p \in S \X S : Before(p[1], p[2])}
           order == Reply!Sorted(S, R)
           Sought(c) == Reply!Match(c, IF c \in Reply!ChunksOf(f) THEN Reply!ScoreOf(f, c) ELSE 0)
           t == [i \in DOMAIN order |-> Sought(order[i])]
<1>1. S \in SUBSET Chunks /\ IsFiniteSet(S) /\ Cardinality(S) \in Nat
  <2>1. S \in SUBSET Chunks  BY Ranks
  <2> HIDE DEF S
  <2> QED  BY <2>1, Constants, FS_Subset, FS_CardinalityType
<1>2. \A a, b \in S : <<a, b>> \in R <=> Before(a, b)  OBVIOUS
<1>3. Orders(R, S)
  <2>1. \A a \in S : a \in Nat /\ score[a] \in Nat
    <3> TAKE a \in S
    <3>1. a \in Nat  BY <1>1, Constants
    <3>2. Reply!Reciprocal(f, a) \in Nat /\ Reply!Reciprocal(g, a) \in Nat  BY Reciprocals
    <3>3. score[a] = Reply!Reciprocal(f, a) + Reply!Reciprocal(g, a)  BY DEF Reply!RrfScore
    <3> QED  BY <3>1, <3>2, <3>3
  <2> HIDE DEF R, score, S
  <2> QED  BY <1>2, <2>1 DEF Orders
<1>4. Reply!Fuse(f, g, n) = Reply!Top(t, n)  BY DEF Reply!Fuse
<1>5. \A i \in DOMAIN order : t[i].chunk = order[i]  BY DEF Reply!Match
<1>6. DOMAIN t = DOMAIN order /\ t = [i \in DOMAIN order |-> t[i]]  OBVIOUS
<1> HIDE DEF t, R
<1>7. /\ DOMAIN order = 1 .. Cardinality(S) /\ \A i \in DOMAIN order : order[i] \in S
      /\ \A j \in DOMAIN order, x \in S : <<x, order[j]>> \in R => \E i \in 1 .. j - 1 : order[i] = x
  <2> HIDE DEF S
  <2> QED  BY <1>1, <1>3, Sorting
<1> HIDE DEF order
<1>8. IsSeq(t)  BY <1>1, <1>6, <1>7, TupleIsSeq
<1> DEFINE u == Reply!Top(t, n)
<1>9. IsSeq(u) /\ \A i \in DOMAIN u : i \in DOMAIN t /\ u[i] = t[i]  BY <1>8, TopIsSeq
<1> HIDE DEF u
<1>10. DOMAIN u = 1 .. Len(u) /\ Len(u) \in Nat  BY <1>9, LenProperties DEF IsSeq
<1>11. ASSUME NEW j \in DOMAIN u
       PROVE  /\ u[j].chunk \in S
              /\ \A a \in S : Reply!RrfScore(f, g, a) > Reply!RrfScore(f, g, u[j].chunk) =>
                   \E i \in 1 .. j - 1 : u[i].chunk = a
  <2>1. j \in DOMAIN order /\ u[j].chunk = order[j] /\ order[j] \in S  BY <1>5, <1>6, <1>7, <1>9
  <2>2. ASSUME NEW a \in S, Reply!RrfScore(f, g, a) > Reply!RrfScore(f, g, order[j])
        PROVE  \E i \in 1 .. j - 1 : u[i].chunk = a
    <3>1. <<a, order[j]>> \in R  BY <1>2, <2>1, <2>2
    <3>2. PICK i \in 1 .. j - 1 : order[i] = a  BY <1>7, <2>1, <3>1
    <3>3. i \in DOMAIN u  BY <1>10
    <3> QED  BY <1>5, <1>6, <1>9, <3>2, <3>3
  <2> QED  BY <2>1, <2>2
<1>12. Reply!Fuse(f, g, n) = u  BY <1>4 DEF u
<1> HIDE DEF S
<1> QED  BY <1>9, <1>11, <1>12 DEF S

\* A chunk is ranked above another wherever the other is.
Above(r, a, b) ==
  b \in Reply!ChunksOf(r) => a \in Reply!ChunksOf(r) /\ Reply!RankOf(r, a) < Reply!RankOf(r, b)

\* What both rankings place before another, the fusion does.
LEMMA FusedFairly ==
  ASSUME NEW f, IsRanking(f), NEW g, IsRanking(g), NEW n \in Nat
  PROVE  \A j \in DOMAIN Reply!Fuse(f, g, n) : \A a :
           Above(f, a, Reply!Fuse(f, g, n)[j].chunk) /\ Above(g, a, Reply!Fuse(f, g, n)[j].chunk) =>
             \E i \in 1 .. j - 1 : Reply!Fuse(f, g, n)[i].chunk = a
<1> SUFFICES ASSUME NEW j \in DOMAIN Reply!Fuse(f, g, n), NEW a, NEW b,
                    b = Reply!Fuse(f, g, n)[j].chunk, Above(f, a, b), Above(g, a, b)
             PROVE  \E i \in 1 .. j - 1 : Reply!Fuse(f, g, n)[i].chunk = a
  OBVIOUS
<1>1. b \in Reply!ChunksOf(f) \cup Reply!ChunksOf(g)  BY Fused
<1>2. a \in Reply!ChunksOf(f) \cup Reply!ChunksOf(g)  BY <1>1 DEF Above
<1>3. ASSUME NEW r \in {f, g}
      PROVE  /\ Reply!Reciprocal(r, a) \in Nat /\ Reply!Reciprocal(r, b) \in Nat
             /\ b \in Reply!ChunksOf(r) => Reply!Reciprocal(r, a) > Reply!Reciprocal(r, b)
             /\ b \notin Reply!ChunksOf(r) => Reply!Reciprocal(r, a) >= Reply!Reciprocal(r, b)
  <2>1. IsRanking(r) /\ Above(r, a, b)  OBVIOUS
  <2> QED  BY <2>1, Reciprocals DEF Above
<1>4. Reply!RrfScore(f, g, a) > Reply!RrfScore(f, g, b)
  <2>1. /\ Reply!Reciprocal(f, a) \in Nat /\ Reply!Reciprocal(f, b) \in Nat
        /\ Reply!Reciprocal(g, a) \in Nat /\ Reply!Reciprocal(g, b) \in Nat
        /\ Reply!Reciprocal(f, a) >= Reply!Reciprocal(f, b) /\ Reply!Reciprocal(g, a) >= Reply!Reciprocal(g, b)
        /\ Reply!Reciprocal(f, a) > Reply!Reciprocal(f, b) \/ Reply!Reciprocal(g, a) > Reply!Reciprocal(g, b)
    BY <1>1, <1>3
  <2> QED  BY <2>1 DEF Reply!RrfScore
<1> QED  BY <1>2, <1>4, Fused

-----------------------------------------------------------------------------
\* A finite set of numbers has a least and a greatest element.
LEMMA Extremes ==
  ASSUME NEW S \in SUBSET Int, IsFiniteSet(S), S # {}
  PROVE  /\ Reply!Min(S) \in S /\ \A x \in S : Reply!Min(S) <= x
         /\ Reply!Max(S) \in S /\ \A x \in S : Reply!Max(S) >= x
<1> DEFINE R == {p \in S \X S : p[1] < p[2]}
           s == Reply!Sorted(S, R)
           n == Cardinality(S)
<1>1. \A x, y \in S : <<x, y>> \in R <=> x < y  OBVIOUS
<1>2. Orders(R, S)
  <2> HIDE DEF R
  <2> QED  BY <1>1 DEF Orders
<1> HIDE DEF R
<1>3. n \in Nat /\ n # 0  BY FS_CardinalityType, FS_EmptySet
<1>4. /\ DOMAIN s = 1 .. n /\ \A i \in DOMAIN s : s[i] \in S
      /\ \A x \in S : \E i \in DOMAIN s : s[i] = x
      /\ \A i, j \in DOMAIN s : i < j => s[i] # s[j] /\ <<s[i], s[j]>> \in R
  BY <1>2, Sorting
<1> HIDE DEF s, n
<1>5. s[1] \in S /\ s[n] \in S  BY <1>3, <1>4
<1>6. ASSUME NEW x \in S  PROVE  s[1] <= x /\ s[n] >= x
  <2>1. PICK i \in 1 .. n : s[i] = x  BY <1>4
  <2>2. i = 1 \/ s[1] < s[i]
    <3> SUFFICES ASSUME i # 1  PROVE  s[1] < s[i]  OBVIOUS
    <3>1. 1 \in DOMAIN s /\ i \in DOMAIN s /\ 1 < i  BY <1>3, <1>4
    <3>2. <<s[1], s[i]>> \in R /\ s[1] \in S /\ s[i] \in S  BY <1>4, <3>1
    <3> QED  BY <1>1, <3>2
  <2>3. i = n \/ s[i] < s[n]
    <3> SUFFICES ASSUME i # n  PROVE  s[i] < s[n]  OBVIOUS
    <3>1. n \in DOMAIN s /\ i \in DOMAIN s /\ i < n  BY <1>3, <1>4
    <3>2. <<s[i], s[n]>> \in R /\ s[n] \in S /\ s[i] \in S  BY <1>4, <3>1
    <3> QED  BY <1>1, <3>2
  <2>4. s[1] \in Int /\ s[n] \in Int /\ x \in Int  BY <1>5
  <2> QED  BY <2>4, <1>5, <2>1, <2>2, <2>3
<1>7. Reply!Min(S) \in S /\ \A x \in S : Reply!Min(S) <= x
  <2>1. \E m \in S : \A x \in S : m <= x  BY <1>5, <1>6
  <2>2. Reply!Min(S) = CHOOSE m \in S : \A x \in S : m <= x  BY DEF Reply!Min
  <2> QED  BY <2>1, <2>2
<1>8. Reply!Max(S) \in S /\ \A x \in S : Reply!Max(S) >= x
  <2>1. \E m \in S : \A x \in S : m >= x  BY <1>5, <1>6
  <2>2. Reply!Max(S) = CHOOSE m \in S : \A x \in S : m >= x  BY DEF Reply!Max
  <2> QED  BY <2>1, <2>2
<1> QED  BY <1>7, <1>8

\* What several searches found.
Searches(f) == IsSeq(f) /\ \A q \in DOMAIN f : IsRanking(f[q])
AllFound(f) == UNION {Reply!ChunksOf(f[q]) : q \in DOMAIN f}

\* Every chunk found was found by some of the searches.
LEMMA Finders ==
  ASSUME NEW f, Searches(f)
  PROVE  /\ DOMAIN f = 1 .. Len(f) /\ Len(f) \in Nat
         /\ AllFound(f) \in SUBSET Chunks
         /\ \A c \in AllFound(f) :
              /\ Reply!FoundBy(f, c) \in SUBSET (1 .. Len(f)) /\ Reply!FoundBy(f, c) # {}
              /\ IsFiniteSet(Reply!FoundBy(f, c)) /\ Cardinality(Reply!FoundBy(f, c)) \in Nat
              /\ \A q \in Reply!FoundBy(f, c) : IsRanking(f[q]) /\ c \in Reply!ChunksOf(f[q])
<1>1. DOMAIN f = 1 .. Len(f) /\ Len(f) \in Nat  BY LenProperties DEF Searches, IsSeq
<1>2. \A q \in DOMAIN f : Reply!ChunksOf(f[q]) \in SUBSET Chunks  BY Ranks DEF Searches
<1>3. AllFound(f) \in SUBSET Chunks  BY <1>2 DEF AllFound
<1>4. ASSUME NEW c \in AllFound(f)
      PROVE  /\ Reply!FoundBy(f, c) \in SUBSET (1 .. Len(f)) /\ Reply!FoundBy(f, c) # {}
             /\ IsFiniteSet(Reply!FoundBy(f, c)) /\ Cardinality(Reply!FoundBy(f, c)) \in Nat
             /\ \A q \in Reply!FoundBy(f, c) : IsRanking(f[q]) /\ c \in Reply!ChunksOf(f[q])
  <2> DEFINE F == Reply!FoundBy(f, c)
  <2>1. F \in SUBSET (1 .. Len(f)) /\ F # {}  BY <1>1 DEF Reply!FoundBy, AllFound
  <2>2. \A q \in F : IsRanking(f[q]) /\ c \in Reply!ChunksOf(f[q])
    BY DEF Reply!FoundBy, Searches
  <2> HIDE DEF F
  <2>3. IsFiniteSet(1 .. Len(f))  BY <1>1, UpTo
  <2>4. IsFiniteSet(F) /\ Cardinality(F) \in Nat  BY <2>1, <2>3, FS_Subset, FS_CardinalityType
  <2> QED  BY <2>1, <2>2, <2>4 DEF F
<1> QED  BY <1>1, <1>3, <1>4

\* The best score and rank of a chunk are some search's, and no other's is better.
LEMMA Best ==
  ASSUME NEW f, Searches(f), NEW c \in AllFound(f)
  PROVE  /\ \E q \in Reply!FoundBy(f, c) : Reply!BestScore(f, c) = Reply!ScoreOf(f[q], c)
         /\ \A q \in Reply!FoundBy(f, c) : Reply!BestScore(f, c) >= Reply!ScoreOf(f[q], c)
         /\ \E q \in Reply!FoundBy(f, c) : Reply!BestRank(f, c) = Reply!RankOf(f[q], c)
         /\ \A q \in Reply!FoundBy(f, c) : Reply!BestRank(f, c) <= Reply!RankOf(f[q], c)
         /\ Reply!BestScore(f, c) \in Nat /\ Reply!BestRank(f, c) \in Nat
<1> DEFINE F == Reply!FoundBy(f, c)
           scores == {Reply!ScoreOf(f[q], c) : q \in F}
           ranks == {Reply!RankOf(f[q], c) : q \in F}
<1>1. F # {} /\ IsFiniteSet(F) /\ \A q \in F : IsRanking(f[q]) /\ c \in Reply!ChunksOf(f[q])
  BY Finders
<1>2. \A q \in F : Reply!ScoreOf(f[q], c) \in Nat /\ Reply!RankOf(f[q], c) \in Nat
  <2> TAKE q \in F
  <2>1. IsRanking(f[q]) /\ c \in Reply!ChunksOf(f[q])  BY <1>1
  <2> DEFINE r == f[q]
  <2> HIDE DEF r
  <2>2. IsRanking(r) /\ c \in Reply!ChunksOf(r) => Reply!ScoreOf(r, c) \in Nat /\ Reply!RankOf(r, c) \in Nat
    <3> SUFFICES ASSUME IsRanking(r), c \in Reply!ChunksOf(r)
                 PROVE  Reply!ScoreOf(r, c) \in Nat /\ Reply!RankOf(r, c) \in Nat
      OBVIOUS
    <3> QED  BY Ranks
  <2> QED  BY <2>1, <2>2 DEF r
<1> HIDE DEF F
<1>3. scores \in SUBSET Nat /\ scores # {} /\ IsFiniteSet(scores)
  <2>1. [q \in F |-> Reply!ScoreOf(f[q], c)] \in Surjection(F, scores)  BY DEF Surjection
  <2>2. IsFiniteSet(scores)
    <3> HIDE DEF scores
    <3> QED  BY <1>1, <2>1, FS_Surjection
  <2> QED  BY <1>1, <1>2, <2>2
<1>4. ranks \in SUBSET Nat /\ ranks # {} /\ IsFiniteSet(ranks)
  <2>1. [q \in F |-> Reply!RankOf(f[q], c)] \in Surjection(F, ranks)  BY DEF Surjection
  <2>2. IsFiniteSet(ranks)
    <3> HIDE DEF ranks
    <3> QED  BY <1>1, <2>1, FS_Surjection
  <2> QED  BY <1>1, <1>2, <2>2
<1>5. Reply!BestScore(f, c) = Reply!Max(scores) /\ Reply!BestRank(f, c) = Reply!Min(ranks)
  BY DEF Reply!BestScore, Reply!BestRank, F
<1>6. Reply!Max(scores) \in scores /\ \A x \in scores : Reply!Max(scores) >= x
  <2> HIDE DEF scores
  <2>1. scores \in SUBSET Int  BY <1>3
  <2> QED  BY <1>3, <2>1, Extremes
<1>7. Reply!Min(ranks) \in ranks /\ \A x \in ranks : Reply!Min(ranks) <= x
  <2> HIDE DEF ranks
  <2>1. ranks \in SUBSET Int  BY <1>4
  <2> QED  BY <1>4, <2>1, Extremes
<1>8. Reply!BestScore(f, c) \in Nat /\ Reply!BestRank(f, c) \in Nat
  BY <1>3, <1>4, <1>5, <1>6, <1>7
<1> QED  BY <1>5, <1>6, <1>7, <1>8 DEF F

\* Keys of three numbers compare place by place.
LEMMA Compared ==
  ASSUME NEW a \in Int, NEW b \in Int, NEW c \in Int, NEW d \in Int, NEW e \in Int, NEW g \in Int
  PROVE  Reply!Greater(<<a, b, c>>, <<d, e, g>>)
           <=> a > d \/ (a = d /\ b > e) \/ (a = d /\ b = e /\ c > g)
<1> DEFINE k == <<a, b, c>>  l == <<d, e, g>>
<1>1. DOMAIN k = {1, 2, 3}  OBVIOUS
<1>2. k[1] = a /\ k[2] = b /\ k[3] = c /\ l[1] = d /\ l[2] = e /\ l[3] = g  OBVIOUS
<1>3. Reply!Greater(k, l) <=> \E i \in {1, 2, 3} : k[i] > l[i] /\ \A j \in 1 .. i - 1 : k[j] = l[j]
  BY <1>1 DEF Reply!Greater
<1>4. 1 .. 1 - 1 = {} /\ 1 .. 2 - 1 = {1} /\ 1 .. 3 - 1 = {1, 2}  OBVIOUS
<1> HIDE DEF k, l
<1>5. Reply!Greater(k, l) <=> a > d \/ (a = d /\ b > e) \/ (a = d /\ b = e /\ c > g)
  BY <1>2, <1>3, <1>4
<1> QED  BY <1>5 DEF k, l

\* Where a chunk was found first.
FirstSearch(f, c) == Reply!Min(Reply!FoundBy(f, c))
FirstRank(f, c)   == Reply!RankOf(f[FirstSearch(f, c)], c)

\* No two chunks were found first at the same place of the same search.
LEMMA FoundFirst ==
  ASSUME NEW f, Searches(f)
  PROVE  /\ \A c \in AllFound(f) : FirstSearch(f, c) \in Nat /\ FirstRank(f, c) \in Nat
         /\ \A a, b \in AllFound(f) :
              FirstSearch(f, a) = FirstSearch(f, b) /\ FirstRank(f, a) = FirstRank(f, b) => a = b
<1>1. ASSUME NEW c \in AllFound(f)
      PROVE  /\ FirstSearch(f, c) \in Nat /\ FirstRank(f, c) \in Nat
             /\ f[FirstSearch(f, c)][FirstRank(f, c)].chunk = c
  <2> DEFINE F == Reply!FoundBy(f, c)
  <2>1. F \in SUBSET (1 .. Len(f)) /\ F # {} /\ IsFiniteSet(F) /\ Len(f) \in Nat
        /\ \A q \in F : IsRanking(f[q]) /\ c \in Reply!ChunksOf(f[q])
    BY Finders
  <2> HIDE DEF F
  <2>2. F \in SUBSET Int  BY <2>1
  <2>3. Reply!Min(F) \in F  BY <2>1, <2>2, Extremes
  <2> DEFINE q == Reply!Min(F)  r == f[q]
  <2>4. q \in Nat /\ IsRanking(r) /\ c \in Reply!ChunksOf(r)
    <3>1. q \in F  BY <2>3
    <3> HIDE DEF q
    <3>2. q \in 1 .. Len(f) /\ Len(f) \in Nat  BY <2>1, <3>1
    <3>3. IsRanking(f[q]) /\ c \in Reply!ChunksOf(f[q])  BY <2>1, <3>1
    <3>4. q \in Nat  BY <3>2
    <3> QED  BY <3>3, <3>4
  <2> HIDE DEF r, q
  <2>5. Reply!RankOf(r, c) \in DOMAIN r /\ r[Reply!RankOf(r, c)].chunk = c /\ DOMAIN r = 1 .. Len(r)
    BY <2>4, Ranks
  <2>6. Reply!RankOf(r, c) \in Nat  BY <2>4, <2>5, Ranks
  <2> QED  BY <2>4, <2>5, <2>6 DEF FirstSearch, FirstRank, F, q, r
<1> QED  BY <1>1

\* The keys of the merge, and the order of what they leave open.
Sooner(f, a, b) ==
  \/ FirstSearch(f, a) < FirstSearch(f, b)
  \/ FirstSearch(f, a) = FirstSearch(f, b) /\ FirstRank(f, a) < FirstRank(f, b)

Preferred(f, a, b) ==
  LET k(c) == Reply!BestScore(f, c)
      l(c) == Cardinality(Reply!FoundBy(f, c))
      m(c) == Reply!BestRank(f, c)
  IN \/ k(a) > k(b)
     \/ k(a) = k(b) /\ l(a) > l(b)
     \/ k(a) = k(b) /\ l(a) = l(b) /\ m(a) < m(b)
     \/ k(a) = k(b) /\ l(a) = l(b) /\ m(a) = m(b) /\ Sooner(f, a, b)

\* The merge's keys say which chunk is preferred.
LEMMA Keyed ==
  ASSUME NEW f, Searches(f), NEW a \in AllFound(f), NEW b \in AllFound(f)
  PROVE  Reply!Greater(Reply!Key(f, a), Reply!Key(f, b))
           \/ (Reply!Key(f, a) = Reply!Key(f, b) /\ Reply!SeenBefore(f, a, b))
         <=> Preferred(f, a, b)
<1> DEFINE n == Cardinality(Chunks)
           k(c) == Reply!BestScore(f, c)
           l(c) == Cardinality(Reply!FoundBy(f, c))
           m(c) == Reply!BestRank(f, c)
<1>1. \A c \in {a, b} : k(c) \in Nat /\ l(c) \in Nat /\ m(c) \in Nat  BY Best, Finders
<1>2. n \in Nat  BY Constants, FS_CardinalityType
<1>3. \A c : Reply!Key(f, c) = <<k(c), l(c), n - m(c)>>  BY SameSize DEF Reply!Key
<1>4. Reply!SeenBefore(f, a, b) <=> Sooner(f, a, b)
  BY DEF Reply!SeenBefore, Sooner, FirstSearch, FirstRank
<1> HIDE DEF n, k, l, m
<1>5. n - m(a) \in Int /\ n - m(b) \in Int
  BY <1>1, <1>2
<1>6. Reply!Greater(Reply!Key(f, a), Reply!Key(f, b))
        <=> k(a) > k(b) \/ (k(a) = k(b) /\ l(a) > l(b)) \/ (k(a) = k(b) /\ l(a) = l(b) /\ n - m(a) > n - m(b))
  <2>1. k(a) \in Int /\ l(a) \in Int /\ k(b) \in Int /\ l(b) \in Int  BY <1>1
  <2> QED  BY <1>3, <1>5, <2>1, Compared
<1>7. Reply!Key(f, a) = Reply!Key(f, b) <=> k(a) = k(b) /\ l(a) = l(b) /\ n - m(a) = n - m(b)
  BY <1>3
<1>8. (n - m(a) > n - m(b) <=> m(a) < m(b)) /\ (n - m(a) = n - m(b) <=> m(a) = m(b))
  BY <1>1, <1>2
<1> QED  BY <1>4, <1>6, <1>7, <1>8 DEF Preferred, k, l, m

\* What is merged is there by its key, from the top.
LEMMA Merged ==
  ASSUME NEW f, Searches(f), NEW n \in Nat
  PROVE  /\ IsSeq(Reply!Merge(f, n))
         /\ \A j \in DOMAIN Reply!Merge(f, n) :
              LET b == Reply!Merge(f, n)[j].chunk
              IN /\ b \in AllFound(f) /\ Reply!Merge(f, n)[j].score = Reply!BestScore(f, b)
                 /\ \A a \in AllFound(f) : Preferred(f, a, b) =>
                      \E i \in 1 .. j - 1 : Reply!Merge(f, n)[i].chunk = a
<1> DEFINE S == AllFound(f)
           key == [c \in S |-> Reply!Key(f, c)]
           Before(a, b) == Reply!Greater(key[a], key[b]) \/ (key[a] = key[b] /\ Reply!SeenBefore(f, a, b))
           R == {p \in S \X S : Before(p[1], p[2])}
           order == Reply!Sorted(S, R)
           t == [i \in DOMAIN order |-> Reply!Match(order[i], Reply!BestScore(f, order[i]))]
           u == Reply!Top(t, n)
<1>1. S \in SUBSET Chunks /\ IsFiniteSet(S) /\ Cardinality(S) \in Nat
  BY Finders, Constants, FS_Subset, FS_CardinalityType
<1>2. \A a, b \in S : <<a, b>> \in R <=> Preferred(f, a, b)
  <2> TAKE a, b \in S
  <2>1. <<a, b>> \in R <=> Before(a, b)  OBVIOUS
  <2>2. key[a] = Reply!Key(f, a) /\ key[b] = Reply!Key(f, b)  OBVIOUS
  <2> HIDE DEF key, R
  <2> QED  BY <2>1, <2>2, Keyed
<1>3. Reply!Merge(f, n) = u  BY DEF Reply!Merge, AllFound
<1>4. \A i \in DOMAIN order : t[i].chunk = order[i] /\ t[i].score = Reply!BestScore(f, order[i])
  BY DEF Reply!Match
<1>5. DOMAIN t = DOMAIN order /\ t = [i \in DOMAIN order |-> t[i]]  OBVIOUS
<1> HIDE DEF t, R, u
<1>6. Orders(R, S)
  <2> HIDE DEF S
  <2> DEFINE k(c) == Reply!BestScore(f, c)
             l(c) == Cardinality(Reply!FoundBy(f, c))
             m(c) == Reply!BestRank(f, c)
             p(c) == FirstSearch(f, c)
             q(c) == FirstRank(f, c)
  <2>1. \A c \in S : k(c) \in Nat /\ l(c) \in Nat /\ m(c) \in Nat /\ p(c) \in Nat /\ q(c) \in Nat
    BY Best, Finders, FoundFirst DEF S
  <2>2. \A a, b \in S : p(a) = p(b) /\ q(a) = q(b) => a = b  BY FoundFirst DEF S
  <2>3. \A a, b \in S : <<a, b>> \in R <=>
          \/ k(a) > k(b)
          \/ k(a) = k(b) /\ l(a) > l(b)
          \/ k(a) = k(b) /\ l(a) = l(b) /\ m(a) < m(b)
          \/ k(a) = k(b) /\ l(a) = l(b) /\ m(a) = m(b) /\ p(a) < p(b)
          \/ k(a) = k(b) /\ l(a) = l(b) /\ m(a) = m(b) /\ p(a) = p(b) /\ q(a) < q(b)
    BY <1>2 DEF Preferred, Sooner
  <2> HIDE DEF k, l, m, p, q
  <2>4. \A x \in S : <<x, x>> \notin R  BY <2>1, <2>3
  <2>5. ASSUME NEW x \in S, NEW y \in S, x # y  PROVE  <<x, y>> \in R \/ <<y, x>> \in R
    <3>1. p(x) # p(y) \/ q(x) # q(y)  BY <2>2, <2>5
    <3>2. CASE k(x) # k(y)  BY <2>1, <2>3, <3>2
    <3>3. CASE k(x) = k(y) /\ l(x) # l(y)  BY <2>1, <2>3, <3>3
    <3>4. CASE k(x) = k(y) /\ l(x) = l(y) /\ m(x) # m(y)  BY <2>1, <2>3, <3>4
    <3>5. CASE k(x) = k(y) /\ l(x) = l(y) /\ m(x) = m(y) /\ p(x) # p(y)  BY <2>1, <2>3, <3>5
    <3>6. CASE k(x) = k(y) /\ l(x) = l(y) /\ m(x) = m(y) /\ p(x) = p(y) /\ q(x) # q(y)
      BY <2>1, <2>3, <3>6
    <3> QED  BY <3>1, <3>2, <3>3, <3>4, <3>5, <3>6
  <2>6. \A x, y, z \in S : <<x, y>> \in R /\ <<y, z>> \in R => <<x, z>> \in R  BY <2>1, <2>3
  <2> QED  BY <2>4, <2>5, <2>6 DEF Orders
<1>7. /\ DOMAIN order = 1 .. Cardinality(S) /\ \A i \in DOMAIN order : order[i] \in S
      /\ \A j \in DOMAIN order, x \in S : <<x, order[j]>> \in R => \E i \in 1 .. j - 1 : order[i] = x
  <2> HIDE DEF S
  <2> QED  BY <1>1, <1>6, Sorting
<1> HIDE DEF order
<1>8. IsSeq(t)  BY <1>1, <1>5, <1>7, TupleIsSeq
<1>9. IsSeq(u) /\ \A i \in DOMAIN u : i \in DOMAIN t /\ u[i] = t[i]  BY <1>8, TopIsSeq DEF u
<1>10. DOMAIN u = 1 .. Len(u) /\ Len(u) \in Nat  BY <1>9, LenProperties DEF IsSeq
<1>11. ASSUME NEW j \in DOMAIN u
       PROVE  /\ u[j].chunk \in S /\ u[j].score = Reply!BestScore(f, u[j].chunk)
              /\ \A a \in S : Preferred(f, a, u[j].chunk) => \E i \in 1 .. j - 1 : u[i].chunk = a
  <2>1. /\ j \in DOMAIN order /\ u[j].chunk = order[j] /\ order[j] \in S
        /\ u[j].score = Reply!BestScore(f, order[j])
    BY <1>4, <1>5, <1>7, <1>9
  <2>2. ASSUME NEW a \in S, Preferred(f, a, order[j])  PROVE  \E i \in 1 .. j - 1 : u[i].chunk = a
    <3>1. <<a, order[j]>> \in R  BY <1>2, <2>1, <2>2
    <3>2. PICK i \in 1 .. j - 1 : order[i] = a  BY <1>7, <2>1, <3>1
    <3>3. i \in DOMAIN u  BY <1>10
    <3> QED  BY <1>4, <1>5, <1>9, <3>2, <3>3
  <2> QED  BY <2>1, <2>2
<1> HIDE DEF S
<1> QED  BY <1>3, <1>9, <1>11 DEF S

\* A chunk that every search of another ranks before it comes before it.
LEMMA MergedFairly ==
  ASSUME NEW f, Searches(f), NEW n \in Nat,
         NEW j \in DOMAIN Reply!Merge(f, n), NEW a, NEW b, b = Reply!Merge(f, n)[j].chunk,
         \A q \in DOMAIN f : b \in Reply!ChunksOf(f[q]) =>
           a \in Reply!ChunksOf(f[q]) /\ Reply!RankOf(f[q], a) < Reply!RankOf(f[q], b)
  PROVE  \E i \in 1 .. j - 1 : Reply!Merge(f, n)[i].chunk = a
<1> DEFINE A == Reply!FoundBy(f, a)  B == Reply!FoundBy(f, b)
<1>1. b \in AllFound(f)  BY Merged
<1>2. B \in SUBSET A /\ B # {}  BY <1>1, Finders DEF Reply!FoundBy
<1>3. a \in AllFound(f)  BY <1>2 DEF AllFound, Reply!FoundBy
<1>4. IsFiniteSet(A) /\ Cardinality(A) \in Nat /\ Cardinality(B) \in Nat  BY <1>1, <1>3, Finders
<1>5. Cardinality(A) >= Cardinality(B)
  <2> HIDE DEF A, B
  <2> QED  BY <1>2, <1>4, FS_Subset
<1>6. Reply!BestScore(f, a) \in Nat /\ Reply!BestScore(f, b) \in Nat
      /\ Reply!BestRank(f, a) \in Nat /\ Reply!BestRank(f, b) \in Nat
  BY <1>1, <1>3, Best
<1>7. ASSUME NEW q \in B
      PROVE  /\ q \in A /\ Reply!RankOf(f[q], a) \in Nat /\ Reply!RankOf(f[q], b) \in Nat
             /\ Reply!RankOf(f[q], a) < Reply!RankOf(f[q], b)
             /\ Reply!ScoreOf(f[q], a) \in Nat /\ Reply!ScoreOf(f[q], b) \in Nat
             /\ Reply!ScoreOf(f[q], a) >= Reply!ScoreOf(f[q], b)
  <2> DEFINE r == f[q]
  <2>1. IsRanking(r) /\ b \in Reply!ChunksOf(r) /\ a \in Reply!ChunksOf(r)
        /\ Reply!RankOf(r, a) < Reply!RankOf(r, b)
    BY <1>1, Finders DEF Reply!FoundBy
  <2> HIDE DEF r
  <2>2. Reply!RankOf(r, a) \in DOMAIN r /\ Reply!RankOf(r, b) \in DOMAIN r /\ DOMAIN r = 1 .. Len(r)
        /\ Reply!ScoreOf(r, a) \in Nat /\ Reply!ScoreOf(r, b) \in Nat
    BY <2>1, Ranks
  <2>3. Reply!ScoreOf(r, a) >= Reply!ScoreOf(r, b)
    BY <2>1, <2>2 DEF IsRanking, Reply!ScoreOf
  <2>4. Len(r) \in Nat  BY <2>1, Ranks
  <2> QED  BY <1>2, <2>1, <2>2, <2>3, <2>4 DEF r
<1>8. Reply!BestScore(f, a) >= Reply!BestScore(f, b)
  <2>1. PICK q \in B : Reply!BestScore(f, b) = Reply!ScoreOf(f[q], b)  BY <1>1, Best
  <2>2. Reply!BestScore(f, a) >= Reply!ScoreOf(f[q], a)  BY <1>3, <1>7, Best
  <2> QED  BY <1>6, <1>7, <2>1, <2>2
<1>9. Reply!BestRank(f, a) < Reply!BestRank(f, b)
  <2>1. PICK q \in B : Reply!BestRank(f, b) = Reply!RankOf(f[q], b)  BY <1>1, Best
  <2>2. Reply!BestRank(f, a) <= Reply!RankOf(f[q], a)  BY <1>3, <1>7, Best
  <2> QED  BY <1>6, <1>7, <2>1, <2>2
<1>10. Preferred(f, a, b)  BY <1>4, <1>5, <1>6, <1>8, <1>9 DEF Preferred
<1> QED  BY <1>1, <1>3, <1>10, Merged

-----------------------------------------------------------------------------
\* A block is numbered by its place.
Numbered(blocks) ==
  IsSeq(blocks) /\ Len(blocks) <= MaxBlocks /\ \A i \in DOMAIN blocks : blocks[i].index = i

\* The context numbers its blocks from one, and has at most MaxBlocks.
LEMMA ContextNumbered ==
  ASSUME NEW r, IsSeq(r), NEW texts
  PROVE  Numbered(Reply!Sanitised(Reply!AssembleContext(r, texts, MaxBlocks, Budget)))
<1> DEFINE top == Reply!Top(r, MaxBlocks)
           fits == {i \in DOMAIN top : \A j \in 1 .. i :
                      /\ Reply!RoomFor(top, texts, Budget, j) > Reply!Heading
                      /\ texts[top[j].chunk] # <<>>}
           n == Cardinality(fits)
           blocks == Reply!AssembleContext(r, texts, MaxBlocks, Budget)
           clean == Reply!Sanitised(blocks)
<1>1. MaxBlocks \in Nat  BY AnsweringAssumption DEF Reply!Admissible
<1>2. IsSeq(top) /\ Len(top) <= MaxBlocks  BY <1>1, TopIsSeq
<1>3. n \in Nat /\ n <= MaxBlocks
  <2> HIDE DEF top
  <2>1. DOMAIN top = 1 .. Len(top) /\ Len(top) \in Nat  BY <1>2, LenProperties DEF IsSeq
  <2>2. IsFiniteSet(1 .. Len(top)) /\ Cardinality(1 .. Len(top)) = Len(top)
    BY <2>1, UpTo
  <2>3. fits \in SUBSET DOMAIN top  OBVIOUS
  <2> HIDE DEF fits
  <2>4. IsFiniteSet(fits) /\ n <= Len(top)  BY <2>1, <2>2, <2>3, FS_Subset
  <2> QED  BY <1>1, <1>2, <2>1, <2>4, FS_CardinalityType
<1>4. /\ DOMAIN blocks = 1 .. n
      /\ \A i \in DOMAIN blocks : \E c, s, t :
           blocks[i] = [index |-> i, chunk |-> c, score |-> s, text |-> t]
  BY SameSize DEF Reply!AssembleContext
<1> HIDE DEF n, blocks
<1>5. /\ DOMAIN clean = DOMAIN blocks /\ clean = [i \in DOMAIN clean |-> clean[i]]
      /\ \A i \in DOMAIN blocks : clean[i] = [blocks[i] EXCEPT !.text = Reply!SanitiseText(blocks[i].text)]
  BY DEF Reply!Sanitised
<1> HIDE DEF clean
<1>6. IsSeq(clean) /\ Len(clean) = n  BY <1>3, <1>4, <1>5, TupleIsSeq
<1>7. ASSUME NEW i \in DOMAIN clean  PROVE  clean[i].index = i
  BY <1>4, <1>5
<1>8. Numbered(clean)  BY <1>3, <1>6, <1>7 DEF Numbered
<1> QED  BY <1>8 DEF clean, blocks

\* The model is shown blocks of the context.
LEMMA ShownFromBlocks ==
  ASSUME NEW blocks, IsSeq(blocks), NEW verdict, NEW texts, IsSeq(texts), Len(texts) = Len(blocks),
         NEW v, NEW q, NEW titles, NEW best,
         verdict = Reply!EvidenceVerdict(v, q, texts, titles, best)
  PROVE  LET s == Reply!Shown(blocks, verdict)
         IN IsSeq(s) /\ Len(s) <= Len(blocks) /\ \A i \in DOMAIN s : \E k \in DOMAIN blocks : s[i] = blocks[k]
<1>1. Len(blocks) \in Nat /\ DOMAIN blocks = 1 .. Len(blocks) /\ DOMAIN texts = 1 .. Len(blocks)
  BY LenProperties DEF IsSeq
<1>2. DOMAIN verdict.outcomes \subseteq 1 .. Len(blocks)
  BY <1>1 DEF Reply!EvidenceVerdict, Reply!VerdictFor, Reply!VerdictOn
<1> DEFINE S == IF Reply!v3 THEN Reply!AllowedBlocks(verdict, Len(blocks)) ELSE DOMAIN blocks
           order == Reply!Sorted(S, {p \in S \X S : p[1] < p[2]})
           s == Reply!Shown(blocks, verdict)
<1>3. S \in SUBSET (1 .. Len(blocks))
  BY <1>1, <1>2 DEF Reply!AllowedBlocks, Reply!Direct
<1>4. s = [i \in DOMAIN order |-> blocks[order[i]]]  BY DEF Reply!Shown
<1> HIDE DEF S, s
<1>5. IsSeq(order) /\ Len(order) <= Len(blocks) /\ \A i \in DOMAIN order : order[i] \in S
  BY <1>1, <1>3, SortedNaturals
<1> HIDE DEF order
<1>6. Len(order) \in Nat /\ DOMAIN order = 1 .. Len(order)  BY <1>5, LenProperties DEF IsSeq
<1>7. DOMAIN s = 1 .. Len(order) /\ s = [i \in 1 .. Len(order) |-> s[i]]  BY <1>4, <1>6
<1>8. IsSeq(s) /\ Len(s) = Len(order)  BY <1>6, <1>7, TupleIsSeq
<1>9. ASSUME NEW i \in DOMAIN s  PROVE  \E k \in DOMAIN blocks : s[i] = blocks[k]
  BY <1>1, <1>3, <1>4, <1>5
<1> QED  BY <1>5, <1>8, <1>9 DEF s
-----------------------------------------------------------------------------
Executions == {i \in DOMAIN usage : usage[i] = "answer"}
Concluded  == {"returned", "raised"}
Beginning  == {"accepted", "resolve", "policy", "scope", "transform", "dense", "lexical", "judge"}
Unanswered == Beginning \cup {"refuse", "generate", "account"}
Verdicts   == {"retrieval_empty", "citation_foreign_scope", "ambiguous_request", "related_topic_only",
               "sufficient_evidence", "requested_fact_absent", "conflicting_evidence"}
Replies    == [state : {"answered", "fallback", "failed"}, cost : {"none", "zero", "recorded"}]

\* The request is one of those asked.
Posed == \E r \in Requests : case = r.case /\ setup = r.setup

\* A step has the rankings that it reads.
Searched ==
  /\ Posed
  /\ IsSeq(rankings) /\ \A q \in DOMAIN rankings : IsRanking(rankings[q])
  /\ queries \in 1 .. MaxQueries
  /\ pc \in Beginning \ {"dense", "lexical", "judge"} => Len(rankings) = 0
  /\ pc = "dense" => Len(rankings) < Reply!DenseQueries
  /\ pc \in {"lexical", "judge"} =>
       Len(rankings) = IF setup.pipeline = "dense" THEN Reply!DenseQueries
                       ELSE IF pc = "lexical" THEN 1 ELSE 2
  /\ pc = "lexical" => setup.pipeline # "dense"

\* The model is shown blocks of the context, under their numbers in it.
Blocks ==
  /\ Numbered(context)
  /\ IsSeq(shown) /\ Len(shown) <= Len(context)
  /\ \A i \in DOMAIN shown : \E k \in DOMAIN context : shown[i] = context[k]
  /\ pc \in Beginning => context = <<>> /\ shown = <<>>

\* What has been decided when, and what the reply and its citations say of it.
Decided ==
  /\ pc \in Reply!Stages
  /\ pc \in Beginning => reason = NoAnswer
  /\ pc = "refuse" => reason \in (Verdicts \ {"sufficient_evidence"}) \cup {"blocked"}
  /\ pc = "generate" => reason = "sufficient_evidence"
  /\ pc \in {"account", "cite"} => reason \in {"sufficient_evidence", "provider_failed"}
  /\ reply \in Replies \cup {NoAnswer}
  /\ pc \in Unanswered => reply = NoAnswer
  /\ pc = "cite" => reply # NoAnswer
  /\ reply # NoAnswer => (reason = "provider_failed" <=> reply.state = "failed")
  /\ reply # NoAnswer /\ reply.state = "failed" => reply.cost # "none"
  /\ pc = "finish" /\ reply = NoAnswer => reason = NoAnswer
  /\ reply # NoAnswer /\ reply.state = "answered" => reason = "sufficient_evidence"
  /\ pc = "returned" => ~Reply!Failed
  /\ pc = "raised" => Reply!Failed
  /\ pc \in Unanswered \cup {"cite"} => citations = NoAnswer
  /\ citations # NoAnswer =>
       /\ reply # NoAnswer
       /\ citations = IF reply.state = "answered" THEN Reply!Cited(shown) ELSE <<>>

\* The execution is recorded once, and what hides it is recorded later.
Executed == \/ pc = "account" \/ (reply # NoAnswer /\ reply.cost # "none")
            \/ pc = "raised" /\ reason \in {"sufficient_evidence", "provider_failed"}

Recorded ==
  /\ usage \in Seq({"answer", "rewrite", "other"})
  /\ pc # "dead" => IF Executed THEN \E i \in DOMAIN usage : Executions = {i} ELSE Executions = {}
  /\ reply # NoAnswer /\ reply.cost = "zero" /\ pc # "dead" =>
       \A i \in Executions : Len(usage) - i >= Window

\* What the recorder will write, and what it has written.
Opened == [status |-> "in_progress", state |-> NoAnswer, written |-> Reply!Nothing]
ChunkList == [i \in DOMAIN context |-> context[i].chunk]
Calls == IF reply # NoAnswer /\ reply.cost # "none" THEN 1 ELSE 0

Traced ==
  /\ pc = "accepted" => trace = NoAnswer
  /\ trace = NoAnswer => buffer = Reply!Nothing
  /\ pc \notin Concluded => trace \in {NoAnswer, Opened}
  /\ pc \notin Reply!Ended /\ trace # NoAnswer => buffer = [chunks |-> ChunkList, calls |-> Calls]
  /\ trace \notin {NoAnswer, Opened} /\ reply = NoAnswer => reason = NoAnswer
  /\ pc \in Concluded =>
       trace \in {NoAnswer, Opened,
                  [status  |-> IF pc = "raised" THEN "failed" ELSE "completed",
                   state   |-> IF reply = NoAnswer THEN NoAnswer ELSE reply.state,
                   written |-> [chunks |-> ChunkList, calls |-> Calls]]}

AInv == Searched /\ Blocks /\ Decided /\ Recorded /\ Traced
-----------------------------------------------------------------------------
\* The candidates are a sequence, whatever made them.
LEMMA CandidatesIsSeq ==
  ASSUME AInv, pc = "judge"
  PROVE  IsSeq(Reply!Candidates)
<1> DEFINE limit == Reply!CandidateLimit
<1>1. MaxBlocks \in Nat /\ Pool \in Nat  BY AnsweringAssumption DEF Reply!Admissible
<1>2. IsSeq(rankings) /\ \A q \in DOMAIN rankings : IsSeq(rankings[q])
    BY DEF AInv, Searched, IsRanking
<1>3. DOMAIN rankings = 1 .. Len(rankings)  BY <1>2, LenProperties DEF IsSeq
<1>4. CASE setup.pipeline # "dense"
  <2>1. Len(rankings) = 2  BY <1>4 DEF AInv, Searched
  <2>2. IsRanking(rankings[1]) /\ IsRanking(rankings[2])  BY <1>3, <2>1 DEF AInv, Searched
  <2> QED  BY <1>1, <1>4, <2>2, Fused DEF Reply!Candidates
<1>5. CASE setup.pipeline = "dense" /\ Reply!DenseQueries > 1
  <2>1. limit \in Nat  BY <1>1 DEF Reply!CandidateLimit, Reply!Larger
  <2>2. Searches(rankings)  BY DEF AInv, Searched, Searches
  <2>3. IsSeq(Reply!Merge(rankings, limit))  BY <2>1, <2>2, Merged
  <2> QED  BY <1>5, <2>3 DEF Reply!Candidates
<1>6. CASE setup.pipeline = "dense" /\ ~(Reply!DenseQueries > 1)
  <2>1. queries \in Nat /\ queries >= 1
    BY AnsweringAssumption DEF AInv, Searched, Reply!Admissible
  <2>2. Reply!DenseQueries = 1  BY <1>6, <2>1 DEF Reply!DenseQueries
  <2>3. Len(rankings) = 1  BY <1>6, <2>2 DEF AInv, Searched
  <2>4. IsSeq(rankings[1])  BY <1>2, <1>3, <2>3
  <2> QED  BY <1>6, <2>4 DEF Reply!Candidates
<1> QED  BY <1>4, <1>5, <1>6

\* So is what the reranker makes of them.
LEMMA RankingIsSeq ==
  ASSUME AInv, pc = "judge", NEW r \in Reply!Rankings
  PROVE  IsSeq(r)
<1>1. IsSeq(Reply!Candidates)  BY CandidatesIsSeq
<1>2. CASE setup.reranker
  <2> DEFINE n == Len(Reply!Top(Reply!Candidates, MaxBlocks))
  <2>1. n \in Nat
    <3>1. MaxBlocks \in Nat  BY AnsweringAssumption DEF Reply!Admissible
    <3>2. IsSeq(Reply!Top(Reply!Candidates, MaxBlocks))  BY <1>1, <3>1, TopIsSeq
    <3> QED  BY <3>2, LenProperties DEF IsSeq
  <2>2. r = [i \in 1 .. n |-> r[i]]  BY <1>2 DEF Reply!Rankings, Reply!Rerankings
  <2> HIDE DEF n
  <2> QED  BY <2>1, <2>2, TupleIsSeq
<1>3. CASE ~setup.reranker  BY <1>1, <1>3 DEF Reply!Rankings
<1> QED  BY <1>2, <1>3

\* A decision is one of the verdicts.
LEMMA DecidedFor ==
  ASSUME NEW blocks
  PROVE  Reply!Decision(blocks, Reply!Verdict(blocks)) \in Verdicts
<1> DEFINE v == Reply!Verdict(blocks)
<1>1. v.reason \in {"related_topic_only", "sufficient_evidence", "requested_fact_absent",
                     "conflicting_evidence"}
  BY DEF Reply!Verdict, Reply!EvidenceVerdict, Reply!VerdictFor, Reply!VerdictOn, Reply!Reason
<1> HIDE DEF v
<1>2. Reply!Decision(blocks, v) \in Verdicts
  BY <1>1 DEF Reply!Decision, Reply!Constrained, Verdicts
<1> QED  BY <1>2 DEF v

\* What judging a ranking sets.
LEMMA Judged ==
  ASSUME AInv, Reply!JudgeRanking
  PROVE  /\ pc = "judge" /\ rankings' = <<>> /\ Numbered(context') /\ reason' \in Verdicts
         /\ \/ reason' = "sufficient_evidence" /\ pc' = "generate"
            \/ reason' # "sufficient_evidence" /\ pc' = "refuse"
         /\ IsSeq(shown') /\ Len(shown') <= Len(context')
         /\ \A i \in DOMAIN shown' : \E k \in DOMAIN context' : shown'[i] = context'[k]
         /\ buffer' = IF trace = NoAnswer THEN buffer
                      ELSE [chunks |-> buffer.chunks \o ChunkList', calls |-> buffer.calls + 0]
<1>1. PICK r \in Reply!Rankings :
        \E blocks \in {Reply!Sanitised(Reply!AssembleContext(r, case.texts, MaxBlocks, Budget))} :
          \E verdict \in {Reply!Verdict(blocks)} : Reply!Judge(blocks, verdict)
  BY DEF Reply!JudgeRanking
<1> DEFINE blocks == Reply!Sanitised(Reply!AssembleContext(r, case.texts, MaxBlocks, Budget))
           verdict == Reply!Verdict(blocks)
<1>2. pc = "judge" /\ Reply!Judge(blocks, verdict)  BY <1>1 DEF Reply!JudgeRanking
<1>3. Numbered(blocks)  BY <1>2, RankingIsSeq, ContextNumbered
<1> HIDE DEF blocks
<1>4. context' = blocks /\ rankings' = <<>> /\ reason' = Reply!Decision(blocks, verdict)
  BY <1>2 DEF Reply!Judge
<1>5. reason' \in Verdicts  BY <1>4, DecidedFor
<1>6. buffer' = IF trace = NoAnswer THEN buffer
                ELSE [chunks |-> buffer.chunks \o ChunkList', calls |-> buffer.calls + 0]
  BY <1>2, <1>4 DEF Reply!Judge, Reply!Buffered, ChunkList
<1>7. CASE reason' = "sufficient_evidence"
  <2>1. shown' = Reply!Shown(blocks, verdict) /\ pc' = "generate"  BY <1>2, <1>7 DEF Reply!Judge
  <2> DEFINE texts == [i \in DOMAIN blocks |-> blocks[i].text]
  <2>2. IsSeq(texts) /\ Len(texts) = Len(blocks)
    <3>1. Len(blocks) \in Nat /\ DOMAIN blocks = 1 .. Len(blocks)
      BY <1>3, LenProperties DEF Numbered, IsSeq
    <3>2. texts = [i \in 1 .. Len(blocks) |-> texts[i]]  BY <3>1
    <3> QED  BY <3>1, <3>2, TupleIsSeq
  <2>3. \E v, q, titles, best : verdict = Reply!EvidenceVerdict(v, q, texts, titles, best)
    BY DEF Reply!Verdict
  <2> HIDE DEF texts, verdict
  <2>4. PICK v, q, titles, best : verdict = Reply!EvidenceVerdict(v, q, texts, titles, best)
    BY <2>3
  <2>5. IsSeq(shown') /\ Len(shown') <= Len(blocks)
          /\ \A i \in DOMAIN shown' : \E k \in DOMAIN blocks : shown'[i] = blocks[k]
    BY <1>3, <2>1, <2>2, <2>4, ShownFromBlocks DEF Numbered
  <2> QED  BY <1>2, <1>3, <1>4, <1>5, <1>6, <1>7, <2>1, <2>5
<1>8. CASE reason' # "sufficient_evidence"
  <2>1. shown' = shown /\ pc' = "refuse"  BY <1>2, <1>8 DEF Reply!Judge
  <2>2. shown' = <<>>  BY <1>2, <2>1 DEF AInv, Blocks, Beginning
  <2>3. IsSeq(shown') /\ Len(shown') = 0 /\ DOMAIN shown' = {}
    BY <2>2 DEF IsSeq
  <2>4. Len(context') \in Nat  BY <1>3, <1>4, LenProperties DEF Numbered, IsSeq
  <2> QED  BY <1>2, <1>3, <1>4, <1>5, <1>6, <1>8, <2>1, <2>3, <2>4
<1> QED  BY <1>7, <1>8
-----------------------------------------------------------------------------
\* One step, of each part of the invariant.

\* Only chunks are searched.
LEMMA SearchableChunks == Reply!Searchable \in SUBSET Chunks
BY DEF Reply!Searchable

\* The floor is a number.
LEMMA FloorIsNat ==
  ASSUME AInv
  PROVE  Reply!DenseFloor \in Nat
BY Constants DEF AInv, Searched, Posed, Reply!DenseFloor

\* A search adds a ranking.
LEMMA OneMoreRanking ==
  ASSUME IsSeq(rankings), \A q \in DOMAIN rankings : IsRanking(rankings[q]), NEW r, IsRanking(r),
         rankings' = Append(rankings, r)
  PROVE  /\ IsSeq(rankings') /\ \A q \in DOMAIN rankings' : IsRanking(rankings'[q])
         /\ Len(rankings') = Len(rankings) + 1 /\ Len(rankings) \in Nat
<1> DEFINE S == {rankings[i] : i \in DOMAIN rankings} \cup {r}
<1>1. rankings \in Seq(S)  BY SeqDef DEF IsSeq
<1> HIDE DEF S
<1>2. rankings' \in Seq(S) /\ Len(rankings') = Len(rankings) + 1 /\ Len(rankings) \in Nat
  BY <1>1, r \in S, AppendProperties, LenProperties DEF S
<1>3. \A q \in DOMAIN rankings' : rankings'[q] = IF q \in DOMAIN rankings THEN rankings[q] ELSE r
  BY <1>1
<1>4. DOMAIN rankings' = 1 .. Len(rankings) + 1 /\ rankings' = [i \in 1 .. Len(rankings) + 1 |-> rankings'[i]]
  BY <1>2, LenProperties
<1>5. IsSeq(rankings')
  <2> DEFINE n == Len(rankings) + 1  t == rankings'
  <2>1. n \in Nat /\ t = [i \in 1 .. n |-> t[i]]  BY <1>2, <1>4
  <2> HIDE DEF n, t
  <2>2. IsSeq(t)  BY <2>1, TupleIsSeq
  <2> QED  BY <2>2 DEF t
<1> QED  BY <1>2, <1>3, <1>5

\* What the transformation of the query leaves alone.
LEMMA Transformed ==
  ASSUME AInv, Reply!TransformQuery
  PROVE  /\ pc = "transform"
         /\ UNCHANGED <<case, setup, rankings, context, shown, reason, reply, citations, trace, buffer>>
         /\ queries' \in 1 .. MaxQueries /\ pc' \in {"dense", "raised"}
         /\ usage' = usage \/ usage' = Append(usage, "rewrite")
<1>1. queries \in 1 .. MaxQueries /\ 1 \in 1 .. MaxQueries  BY Constants DEF AInv, Searched
<1>2. /\ pc = "transform"
      /\ UNCHANGED <<case, setup, rankings, context, shown, reason, reply, citations, trace, buffer>>
  BY DEF Reply!TransformQuery, Reply!world, Reply!tracing
<1>3. CASE setup.rewriter = "identity"
  BY <1>1, <1>2, <1>3 DEF Reply!TransformQuery, Reply!Transform
<1>4. CASE setup.rewriter = "deterministic"
  BY <1>1, <1>2, <1>4 DEF Reply!TransformQuery, Reply!Transform
<1>5. CASE setup.rewriter = "model" /\ (Reply!Rewritten \/ Reply!RewriteFails \/ Reply!RewriteTimesOut)
  <2>1. CASE Reply!Rewritten  BY <1>1, <1>2, <2>1 DEF Reply!Rewritten, Reply!Transform
  <2>2. CASE Reply!RewriteFails
    BY <1>1, <1>2, <2>2 DEF Reply!RewriteFails, Reply!Untransformed, Reply!Transform
  <2>3. CASE Reply!RewriteTimesOut
    BY <1>1, <1>2, <2>3 DEF Reply!RewriteTimesOut, Reply!Untransformed, Reply!Transform
  <2> QED  BY <1>5, <2>1, <2>2, <2>3
<1> QED  BY <1>3, <1>4, <1>5 DEF Reply!TransformQuery

\* Every step preserves Searched.
LEMMA SearchedStep ==
  ASSUME AInv, [Reply!Next]_(Reply!vars)
  PROVE  Searched'
<1>1. CASE Reply!StartTrace
  BY <1>1, Constants DEF AInv, Searched, Posed, Beginning, Reply!DenseQueries, Reply!StartTrace,
     Reply!world, Reply!tracing
<1>2. CASE Reply!ResolveFails
  BY <1>2, Constants DEF AInv, Searched, Posed, Beginning, Reply!DenseQueries, Reply!ResolveFails,
     Reply!world, Reply!tracing
<1>3. CASE Reply!AppendUserMessage
  BY <1>3, Constants DEF AInv, Searched, Posed, Beginning, Reply!DenseQueries, Reply!AppendUserMessage,
     Reply!world, Reply!tracing
<1>4. CASE Reply!InputPolicy
  BY <1>4, Constants DEF AInv, Searched, Posed, Beginning, Reply!DenseQueries, Reply!InputPolicy,
     Reply!world, Reply!tracing
<1>5. CASE Reply!ReadScope
  BY <1>5, Constants DEF AInv, Searched, Posed, Beginning, Reply!DenseQueries, Reply!ReadScope,
     Reply!world, Reply!tracing
<1>6. CASE Reply!TransformQuery
  BY <1>6, Transformed, Constants DEF AInv, Searched, Posed, Beginning, Reply!DenseQueries
<1>7. CASE Reply!SearchDense
  <2>1. PICK score \in [Reply!Searchable -> Scores] :
          rankings' = Append(rankings, Reply!DenseSearch(Reply!Searchable, score, Reply!DenseLimit,
                                                         Reply!DenseFloor))
    BY <1>7 DEF Reply!SearchDense
  <2>2. queries \in Nat /\ queries >= 1 /\ Reply!DenseQueries \in Nat /\ Reply!DenseLimit \in Nat
    BY Constants DEF AInv, Searched, Reply!DenseLimit, Reply!DenseQueries, Reply!CandidateLimit,
       Reply!Larger
  <2>3. IsRanking(Reply!DenseSearch(Reply!Searchable, score, Reply!DenseLimit, Reply!DenseFloor))
    <3>1. \A c \in Reply!Searchable : score[c] \in Nat  BY Constants
    <3> QED  BY <2>2, <3>1, SearchableChunks, FloorIsNat, DenseIsRanking
  <2>4. /\ IsSeq(rankings') /\ \A q \in DOMAIN rankings' : IsRanking(rankings'[q])
        /\ Len(rankings') = Len(rankings) + 1 /\ Len(rankings) \in Nat
    BY <2>1, <2>3, OneMoreRanking DEF AInv, Searched
  <2>5. /\ pc = "dense" /\ Len(rankings) < Reply!DenseQueries
        /\ setup' = setup /\ case' = case /\ queries' = queries
        /\ pc' = CASE Len(rankings') < Reply!DenseQueries -> "dense"
                    [] Len(rankings') >= Reply!DenseQueries /\ setup.pipeline = "dense" -> "judge"
                    [] OTHER -> "lexical"
    BY <1>7 DEF AInv, Searched, Reply!SearchDense, Reply!world
  <2>6. setup.pipeline # "dense" => Reply!DenseQueries = 1  BY DEF Reply!DenseQueries
  <2>7. Reply!DenseQueries' = Reply!DenseQueries  BY <2>5 DEF Reply!DenseQueries
  <2> QED  BY <2>2, <2>4, <2>5, <2>6, <2>7 DEF AInv, Searched, Posed, Beginning
<1>8. CASE Reply!EmbeddingFails
  BY <1>8, Constants DEF AInv, Searched, Posed, Beginning, Reply!DenseQueries, Reply!EmbeddingFails,
     Reply!world, Reply!tracing
<1>9. CASE Reply!SearchLexical
  <2> DEFINE wordsIn == [c \in Chunks |-> Reply!ToSet(Reply!WholeText(case.texts[c]))]
             r == Reply!LexicalSearch(Reply!Searchable, Reply!question.terms, wordsIn, Pool)
  <2>1. rankings' = Append(rankings, r)
    BY <1>9 DEF Reply!SearchLexical
  <2>2. IsRanking(r)
    <3>1. IsFiniteSet(Reply!question.terms)  BY Constants DEF AInv, Searched, Posed, Reply!question
    <3> QED  BY <3>1, SearchableChunks, Constants, LexicalIsRanking
  <2> HIDE DEF r
  <2>3. /\ IsSeq(rankings') /\ \A q \in DOMAIN rankings' : IsRanking(rankings'[q])
        /\ Len(rankings') = Len(rankings) + 1 /\ Len(rankings) \in Nat
    BY <2>1, <2>2, OneMoreRanking DEF AInv, Searched
  <2>4. pc = "lexical" /\ pc' = "judge" /\ setup' = setup /\ case' = case /\ queries' = queries
    BY <1>9 DEF Reply!SearchLexical, Reply!world
  <2>5. setup.pipeline # "dense" /\ Len(rankings) = 1 BY <2>4 DEF AInv, Searched
  <2> QED  BY <2>3, <2>4, <2>5 DEF AInv, Searched, Posed, Beginning
<1>10. CASE Reply!JudgeRanking
  <2>1. rankings' = <<>> /\ pc' \in {"generate", "refuse"} /\ queries' = queries /\ case' = case /\ setup' = setup
    BY <1>10, Judged DEF Reply!JudgeRanking, Reply!world
  <2>2. IsSeq(rankings') /\ DOMAIN rankings' = {} /\ Len(rankings') = 0  BY <2>1 DEF IsSeq
  <2> QED  BY <2>1, <2>2 DEF AInv, Searched, Posed, Beginning
<1>11. CASE Reply!RerankFails
  BY <1>11, Constants DEF AInv, Searched, Posed, Beginning, Reply!DenseQueries, Reply!RerankFails,
     Reply!world, Reply!tracing
<1>12. CASE Reply!PersistFallback
  BY <1>12, Constants DEF AInv, Searched, Posed, Beginning, Reply!DenseQueries, Reply!PersistFallback,
     Reply!world, Reply!tracing
<1>13. CASE Reply!Generate
  BY <1>13, Constants DEF AInv, Searched, Posed, Beginning, Reply!DenseQueries, Reply!Generate,
     Reply!Generated, Reply!ProviderAnswers, Reply!ProviderRefuses, Reply!ProviderUnavailable,
     Reply!world, Reply!tracing
<1>14. CASE Reply!PersistReply
  BY <1>14, Constants DEF AInv, Searched, Posed, Beginning, Reply!DenseQueries, Reply!PersistReply,
     Reply!Buffered, Reply!world, Reply!tracing
<1>23. CASE Reply!MessageNotStored
  BY <1>23, Constants DEF AInv, Searched, Posed, Beginning, Reply!DenseQueries, Reply!MessageNotStored,
     Reply!Buffered, Reply!world, Reply!tracing
<1>15. CASE Reply!AttachCitations
  BY <1>15, Constants DEF AInv, Searched, Posed, Beginning, Reply!DenseQueries, Reply!AttachCitations,
     Reply!world, Reply!tracing
<1>16. CASE Reply!FinishTrace
  BY <1>16, Constants DEF AInv, Searched, Posed, Beginning, Reply!DenseQueries, Reply!FinishTrace,
     Reply!Failed, Reply!world, Reply!tracing
<1>17. CASE Reply!OthersRecord
  BY <1>17, Constants DEF AInv, Searched, Posed, Beginning, Reply!DenseQueries, Reply!OthersRecord,
     Reply!request, Reply!world, Reply!tracing
<1>18. CASE Reply!OrphanRecords
  BY <1>18, Constants DEF AInv, Searched, Posed, Beginning, Reply!DenseQueries, Reply!OrphanRecords,
     Reply!request, Reply!world, Reply!tracing
<1>19. CASE Reply!SetScope
  BY <1>19, Constants DEF AInv, Searched, Posed, Beginning, Reply!DenseQueries, Reply!SetScope,
     Reply!request, Reply!world, Reply!tracing
<1>20. CASE Reply!SetLive
  BY <1>20, Constants DEF AInv, Searched, Posed, Beginning, Reply!DenseQueries, Reply!SetLive,
     Reply!request, Reply!world, Reply!tracing
<1>21. CASE Reply!Die
  BY <1>21, Constants DEF AInv, Searched, Posed, Beginning, Reply!DenseQueries, Reply!Die, Reply!world,
     Reply!tracing
<1>22. CASE UNCHANGED Reply!vars
  BY <1>22 DEF AInv, Searched, Posed, Beginning, Reply!DenseQueries, Reply!vars, Reply!world,
     Reply!request, Reply!tracing
<1> QED
  BY <1>1, <1>2, <1>3, <1>4, <1>5, <1>6, <1>7, <1>8, <1>9, <1>10, <1>11, <1>12, <1>13, <1>14,
     <1>15, <1>16, <1>17, <1>18, <1>19, <1>20, <1>21, <1>22, <1>23 DEF Reply!Next, Reply!Request

\* Every step preserves Blocks.
LEMMA BlocksStep ==
  ASSUME AInv, [Reply!Next]_(Reply!vars)
  PROVE  Blocks'
<1>1. CASE Reply!StartTrace
  BY <1>1 DEF AInv, Blocks, Beginning, Numbered, IsSeq, Reply!StartTrace, Reply!world, Reply!tracing
<1>2. CASE Reply!ResolveFails
  BY <1>2 DEF AInv, Blocks, Beginning, Numbered, IsSeq, Reply!ResolveFails, Reply!world,
     Reply!tracing
<1>3. CASE Reply!AppendUserMessage
  BY <1>3 DEF AInv, Blocks, Beginning, Numbered, IsSeq, Reply!AppendUserMessage, Reply!world,
     Reply!tracing
<1>4. CASE Reply!InputPolicy
  BY <1>4 DEF AInv, Blocks, Beginning, Numbered, IsSeq, Reply!InputPolicy, Reply!world,
     Reply!tracing
<1>5. CASE Reply!ReadScope
  BY <1>5 DEF AInv, Blocks, Beginning, Numbered, IsSeq, Reply!ReadScope, Reply!world, Reply!tracing
<1>6. CASE Reply!TransformQuery
  BY <1>6, Transformed, Constants DEF AInv, Blocks, Beginning, Numbered, IsSeq
<1>7. CASE Reply!SearchDense
  BY <1>7 DEF AInv, Blocks, Beginning, Numbered, IsSeq, Reply!SearchDense, Reply!world,
     Reply!tracing
<1>8. CASE Reply!EmbeddingFails
  BY <1>8 DEF AInv, Blocks, Beginning, Numbered, IsSeq, Reply!EmbeddingFails, Reply!world,
     Reply!tracing
<1>9. CASE Reply!SearchLexical
  BY <1>9 DEF AInv, Blocks, Beginning, Numbered, IsSeq, Reply!SearchLexical, Reply!world,
     Reply!tracing
<1>10. CASE Reply!JudgeRanking
  BY <1>10, Judged DEF AInv, Blocks, Beginning, Numbered, IsSeq, Reply!JudgeRanking, Reply!world
<1>11. CASE Reply!RerankFails
  BY <1>11 DEF AInv, Blocks, Beginning, Numbered, IsSeq, Reply!RerankFails, Reply!world,
     Reply!tracing
<1>12. CASE Reply!PersistFallback
  BY <1>12 DEF AInv, Blocks, Beginning, Numbered, IsSeq, Reply!PersistFallback, Reply!world,
     Reply!tracing
<1>13. CASE Reply!Generate
  BY <1>13 DEF AInv, Blocks, Beginning, Numbered, IsSeq, Reply!Generate, Reply!Generated,
     Reply!ProviderAnswers, Reply!ProviderRefuses, Reply!ProviderUnavailable, Reply!world,
     Reply!tracing
<1>14. CASE Reply!PersistReply
  BY <1>14 DEF AInv, Blocks, Beginning, Numbered, IsSeq, Reply!PersistReply, Reply!Buffered,
     Reply!world, Reply!tracing
<1>23. CASE Reply!MessageNotStored
  BY <1>23 DEF AInv, Blocks, Beginning, Numbered, IsSeq, Reply!MessageNotStored, Reply!Buffered,
     Reply!world, Reply!tracing
<1>15. CASE Reply!AttachCitations
  BY <1>15 DEF AInv, Blocks, Beginning, Numbered, IsSeq, Reply!AttachCitations, Reply!world,
     Reply!tracing
<1>16. CASE Reply!FinishTrace
  BY <1>16 DEF AInv, Blocks, Beginning, Numbered, IsSeq, Reply!FinishTrace, Reply!Failed,
     Reply!world, Reply!tracing
<1>17. CASE Reply!OthersRecord
  BY <1>17 DEF AInv, Blocks, Beginning, Numbered, IsSeq, Reply!OthersRecord, Reply!request,
     Reply!world, Reply!tracing
<1>18. CASE Reply!OrphanRecords
  BY <1>18 DEF AInv, Blocks, Beginning, Numbered, IsSeq, Reply!OrphanRecords, Reply!request,
     Reply!world, Reply!tracing
<1>19. CASE Reply!SetScope
  BY <1>19 DEF AInv, Blocks, Beginning, Numbered, IsSeq, Reply!SetScope, Reply!request,
     Reply!world, Reply!tracing
<1>20. CASE Reply!SetLive
  BY <1>20 DEF AInv, Blocks, Beginning, Numbered, IsSeq, Reply!SetLive, Reply!request, Reply!world,
     Reply!tracing
<1>21. CASE Reply!Die
  BY <1>21 DEF AInv, Blocks, Beginning, Numbered, IsSeq, Reply!Die, Reply!world, Reply!tracing
<1>22. CASE UNCHANGED Reply!vars
  BY <1>22 DEF AInv, Blocks, Beginning, Numbered, IsSeq, Reply!vars, Reply!world, Reply!request,
     Reply!tracing
<1> QED
  BY <1>1, <1>2, <1>3, <1>4, <1>5, <1>6, <1>7, <1>8, <1>9, <1>10, <1>11, <1>12, <1>13, <1>14,
     <1>15, <1>16, <1>17, <1>18, <1>19, <1>20, <1>21, <1>22, <1>23 DEF Reply!Next, Reply!Request

\* Every step preserves Decided.
LEMMA DecidedStep ==
  ASSUME AInv, [Reply!Next]_(Reply!vars)
  PROVE  Decided'
<1>1. CASE Reply!StartTrace
  BY <1>1, Constants DEF AInv, Decided, Beginning, Unanswered, Verdicts, Replies, Reply!Stages,
     Reply!Failed, Reply!Cited, Reply!StartTrace, Reply!world, Reply!tracing
<1>2. CASE Reply!ResolveFails
  BY <1>2, Constants DEF AInv, Decided, Beginning, Unanswered, Verdicts, Replies, Reply!Stages,
     Reply!Failed, Reply!Cited, Reply!ResolveFails, Reply!world, Reply!tracing
<1>3. CASE Reply!AppendUserMessage
  BY <1>3, Constants DEF AInv, Decided, Beginning, Unanswered, Verdicts, Replies, Reply!Stages,
     Reply!Failed, Reply!Cited, Reply!AppendUserMessage, Reply!world, Reply!tracing
<1>4. CASE Reply!InputPolicy
  BY <1>4, Constants DEF AInv, Decided, Beginning, Unanswered, Verdicts, Replies, Reply!Stages,
     Reply!Failed, Reply!Cited, Reply!InputPolicy, Reply!world, Reply!tracing
<1>5. CASE Reply!ReadScope
  BY <1>5, Constants DEF AInv, Decided, Beginning, Unanswered, Verdicts, Replies, Reply!Stages,
     Reply!Failed, Reply!Cited, Reply!ReadScope, Reply!world, Reply!tracing
<1>6. CASE Reply!TransformQuery
  BY <1>6, Transformed, Constants DEF AInv, Decided, Beginning, Unanswered, Verdicts, Replies,
     Reply!Stages, Reply!Failed, Reply!Cited
<1>7. CASE Reply!SearchDense
  BY <1>7, Constants DEF AInv, Decided, Beginning, Unanswered, Verdicts, Replies, Reply!Stages,
     Reply!Failed, Reply!Cited, Reply!SearchDense, Reply!world, Reply!tracing
<1>8. CASE Reply!EmbeddingFails
  BY <1>8, Constants DEF AInv, Decided, Beginning, Unanswered, Verdicts, Replies, Reply!Stages,
     Reply!Failed, Reply!Cited, Reply!EmbeddingFails, Reply!world, Reply!tracing
<1>9. CASE Reply!SearchLexical
  BY <1>9, Constants DEF AInv, Decided, Beginning, Unanswered, Verdicts, Replies, Reply!Stages,
     Reply!Failed, Reply!Cited, Reply!SearchLexical, Reply!world, Reply!tracing
<1>10. CASE Reply!JudgeRanking
  BY <1>10, Judged DEF AInv, Decided, Beginning, Unanswered, Verdicts, Replies, Reply!Stages,
     Reply!Failed, Reply!Cited, Reply!JudgeRanking, Reply!world
<1>11. CASE Reply!RerankFails
  BY <1>11, Constants DEF AInv, Decided, Beginning, Unanswered, Verdicts, Replies, Reply!Stages,
     Reply!Failed, Reply!Cited, Reply!RerankFails, Reply!world, Reply!tracing
<1>12. CASE Reply!PersistFallback
  BY <1>12, Constants DEF AInv, Decided, Beginning, Unanswered, Verdicts, Replies, Reply!Stages,
     Reply!Failed, Reply!Cited, Reply!PersistFallback, Reply!world, Reply!tracing
<1>13. CASE Reply!Generate
  BY <1>13, Constants DEF AInv, Decided, Beginning, Unanswered, Verdicts, Replies, Reply!Stages,
     Reply!Failed, Reply!Cited, Reply!Generate, Reply!Generated, Reply!ProviderAnswers,
     Reply!ProviderRefuses, Reply!ProviderUnavailable, Reply!world, Reply!tracing
<1>14. CASE Reply!PersistReply
  <2>1. /\ pc = "account" /\ UNCHANGED <<reason, citations>>
        /\ \/ /\ reason = "provider_failed" /\ pc' = "finish"
              /\ \E c \in {"recorded", "zero"} : reply' = [state |-> "failed", cost |-> c]
           \/ /\ reason # "provider_failed" /\ pc' = "cite"
              /\ \E c \in {"recorded", "zero"}, a \in {"answered", "fallback"} :
                    reply' = [state |-> a, cost |-> c]
    BY <1>14 DEF Reply!PersistReply
  <2> QED
    BY <2>1, Constants DEF AInv, Decided, Beginning, Unanswered, Verdicts, Replies, Reply!Stages,
       Reply!Failed, Reply!Cited
<1>23. CASE Reply!MessageNotStored
  <2>1. /\ pc \in {"resolve", "refuse", "account"} /\ pc' = "raised"
        /\ UNCHANGED <<reason, reply, citations, shown>>
    BY <1>23 DEF Reply!MessageNotStored
  <2> QED
    BY <2>1, Constants DEF AInv, Decided, Beginning, Unanswered, Verdicts, Replies, Reply!Stages,
       Reply!Failed, Reply!Cited
<1>15. CASE Reply!AttachCitations
  BY <1>15, Constants DEF AInv, Decided, Beginning, Unanswered, Verdicts, Replies, Reply!Stages,
     Reply!Failed, Reply!Cited, Reply!AttachCitations, Reply!world, Reply!tracing
<1>16. CASE Reply!FinishTrace
  BY <1>16, Constants DEF AInv, Decided, Beginning, Unanswered, Verdicts, Replies, Reply!Stages,
     Reply!Failed, Reply!Cited, Reply!FinishTrace, Reply!Failed, Reply!world, Reply!tracing
<1>17. CASE Reply!OthersRecord
  BY <1>17, Constants DEF AInv, Decided, Beginning, Unanswered, Verdicts, Replies, Reply!Stages,
     Reply!Failed, Reply!Cited, Reply!OthersRecord, Reply!request, Reply!world, Reply!tracing
<1>18. CASE Reply!OrphanRecords
  BY <1>18, Constants DEF AInv, Decided, Beginning, Unanswered, Verdicts, Replies, Reply!Stages,
     Reply!Failed, Reply!Cited, Reply!OrphanRecords, Reply!request, Reply!world, Reply!tracing
<1>19. CASE Reply!SetScope
  BY <1>19, Constants DEF AInv, Decided, Beginning, Unanswered, Verdicts, Replies, Reply!Stages,
     Reply!Failed, Reply!Cited, Reply!SetScope, Reply!request, Reply!world, Reply!tracing
<1>20. CASE Reply!SetLive
  BY <1>20, Constants DEF AInv, Decided, Beginning, Unanswered, Verdicts, Replies, Reply!Stages,
     Reply!Failed, Reply!Cited, Reply!SetLive, Reply!request, Reply!world, Reply!tracing
<1>21. CASE Reply!Die
  BY <1>21, Constants DEF AInv, Decided, Beginning, Unanswered, Verdicts, Replies, Reply!Stages,
     Reply!Failed, Reply!Cited, Reply!Die, Reply!world, Reply!tracing
<1>22. CASE UNCHANGED Reply!vars
  BY <1>22 DEF AInv, Decided, Beginning, Unanswered, Verdicts, Replies, Reply!Stages, Reply!Failed,
     Reply!Cited, Reply!vars, Reply!world, Reply!request, Reply!tracing
<1> QED
  BY <1>1, <1>2, <1>3, <1>4, <1>5, <1>6, <1>7, <1>8, <1>9, <1>10, <1>11, <1>12, <1>13, <1>14,
     <1>15, <1>16, <1>17, <1>18, <1>19, <1>20, <1>21, <1>22, <1>23 DEF Reply!Next, Reply!Request

\* A usage record more.
LEMMA OneMoreRecord ==
  ASSUME usage \in Seq({"answer", "rewrite", "other"}), NEW u \in {"answer", "rewrite", "other"},
         usage' = Append(usage, u)
  PROVE  /\ usage' \in Seq({"answer", "rewrite", "other"})
         /\ Len(usage) \in Nat /\ Len(usage') = Len(usage) + 1
         /\ DOMAIN usage' = 1 .. Len(usage) + 1 /\ Executions \subseteq 1 .. Len(usage)
         /\ u # "answer" => Executions' = Executions
         /\ u = "answer" => Executions' = Executions \cup {Len(usage) + 1}
<1>1. /\ usage' \in Seq({"answer", "rewrite", "other"})
      /\ Len(usage) \in Nat /\ Len(usage') = Len(usage) + 1
      /\ DOMAIN usage = 1 .. Len(usage) /\ DOMAIN usage' = 1 .. Len(usage) + 1
  BY AppendProperties, LenProperties
<1>2. \A i \in 1 .. Len(usage) + 1 : usage'[i] = IF i = Len(usage) + 1 THEN u ELSE usage[i]
  BY <1>1, AppendProperties
<1>3. Executions' = {i \in DOMAIN usage' : usage'[i] = "answer"}  BY DEF Executions
<1>4. u # "answer" => Executions' = Executions
  BY <1>1, <1>2, <1>3 DEF Executions
<1>5. u = "answer" => Executions' = Executions \cup {Len(usage) + 1}
  BY <1>1, <1>2, <1>3 DEF Executions
<1> QED  BY <1>1, <1>4, <1>5 DEF Executions

\* Another's record is not an execution, and only hides one deeper.
LEMMA RecordedByOthers ==
  ASSUME AInv, NEW u \in {"rewrite", "other"}, usage' = Append(usage, u),
         reply' = reply, pc = "dead" => pc' = "dead", Executed' = Executed
  PROVE  Recorded'
<1>1. usage \in Seq({"answer", "rewrite", "other"})  BY DEF AInv, Recorded
<1>2. /\ usage' \in Seq({"answer", "rewrite", "other"}) /\ Executions' = Executions
      /\ Len(usage) \in Nat /\ Len(usage') = Len(usage) + 1
      /\ DOMAIN usage' = 1 .. Len(usage) + 1 /\ Executions \subseteq 1 .. Len(usage)
  BY <1>1, OneMoreRecord
<1>3. Window \in Nat  BY AnsweringAssumption DEF Reply!Admissible
<1>4. pc' # "dead" => IF Executed' THEN \E i \in DOMAIN usage' : Executions' = {i} ELSE Executions' = {}
  BY <1>2 DEF AInv, Recorded, Executions
<1>5. ASSUME reply' # NoAnswer, reply'.cost = "zero", pc' # "dead", NEW i \in Executions'
      PROVE  Len(usage') - i >= Window
  <2>1. i \in Nat /\ Len(usage) - i >= Window  BY <1>2, <1>5 DEF AInv, Recorded
  <2> QED  BY <1>2, <1>3, <2>1
<1> QED  BY <1>2, <1>4, <1>5 DEF Recorded

\* Nothing is recorded.
LEMMA RecordedBefore ==
  ASSUME AInv, usage' = usage, reply' = reply, pc = "dead" => pc' = "dead", Executed' = Executed
  PROVE  Recorded'
BY DEF AInv, Recorded, Executions

\* Every step preserves Recorded.
LEMMA RecordedStep ==
  ASSUME AInv, [Reply!Next]_(Reply!vars)
  PROVE  Recorded'
<1>1. CASE Reply!StartTrace
  BY <1>1, RecordedBefore DEF AInv, Executed, Decided, Beginning, Unanswered, Reply!StartTrace,
     Reply!world, Reply!tracing
<1>2. CASE Reply!ResolveFails
  BY <1>2, RecordedBefore DEF AInv, Executed, Decided, Beginning, Unanswered, Reply!ResolveFails,
     Reply!world, Reply!tracing
<1>3. CASE Reply!AppendUserMessage
  BY <1>3, RecordedBefore DEF AInv, Executed, Decided, Beginning, Unanswered,
     Reply!AppendUserMessage, Reply!world, Reply!tracing
<1>4. CASE Reply!InputPolicy
  BY <1>4, RecordedBefore DEF AInv, Executed, Decided, Beginning, Unanswered, Reply!InputPolicy,
     Reply!world, Reply!tracing
<1>5. CASE Reply!ReadScope
  BY <1>5, RecordedBefore DEF AInv, Executed, Decided, Beginning, Unanswered, Reply!ReadScope,
     Reply!world, Reply!tracing
<1>6. CASE Reply!TransformQuery
  <2>1. Executed' = Executed /\ reply' = reply /\ pc # "dead"
    BY <1>6, Transformed, Constants DEF AInv, Decided, Beginning, Executed
  <2>2. CASE usage' = usage  BY <2>1, <2>2, RecordedBefore
  <2>3. CASE usage' = Append(usage, "rewrite")  BY <2>1, <2>3, RecordedByOthers
  <2> QED  BY <1>6, <2>2, <2>3, Transformed
<1>7. CASE Reply!SearchDense
  BY <1>7, RecordedBefore DEF AInv, Executed, Decided, Beginning, Unanswered, Reply!SearchDense,
     Reply!world, Reply!tracing
<1>8. CASE Reply!EmbeddingFails
  BY <1>8, RecordedBefore, Constants DEF AInv, Executed, Decided, Beginning, Unanswered, Reply!EmbeddingFails,
     Reply!world, Reply!tracing
<1>9. CASE Reply!SearchLexical
  BY <1>9, RecordedBefore DEF AInv, Executed, Decided, Beginning, Unanswered, Reply!SearchLexical,
     Reply!world, Reply!tracing
<1>10. CASE Reply!JudgeRanking
  <2>1. pc = "judge" /\ pc' \in {"generate", "refuse"}  BY <1>10, Judged
  <2>2. usage' = usage /\ reply' = reply  BY <1>10 DEF Reply!JudgeRanking
  <2> QED  BY <2>1, <2>2, RecordedBefore DEF Executed
<1>11. CASE Reply!RerankFails
  BY <1>11, RecordedBefore, Constants DEF AInv, Executed, Decided, Beginning, Unanswered, Reply!RerankFails,
     Reply!world, Reply!tracing
<1>12. CASE Reply!PersistFallback
  <2>1. /\ pc = "refuse" /\ pc' = "finish" /\ usage' = usage
        /\ reply' = [state |-> "fallback", cost |-> "none"]
    BY <1>12 DEF Reply!PersistFallback
  <2>2. reply = NoAnswer  BY <2>1 DEF AInv, Decided, Unanswered
  <2> QED  BY <2>1, <2>2 DEF AInv, Recorded, Executions, Executed
<1>13. CASE Reply!Generate
  <2>1. pc = "generate" /\ reply' = reply
    BY <1>13 DEF Reply!Generate, Reply!ProviderAnswers, Reply!ProviderRefuses,
       Reply!ProviderUnavailable
  <2>2. reply = NoAnswer /\ ~Executed  BY <2>1 DEF AInv, Decided, Unanswered, Executed
  <2>3. CASE usage' = usage /\ pc' = pc
    BY <2>1, <2>2, <2>3, RecordedBefore DEF Executed
  <2>4. CASE usage' = Append(usage, "answer") /\ pc' = "account"
    <3>1. Executions = {} /\ usage \in Seq({"answer", "rewrite", "other"})
      BY <2>1, <2>2 DEF AInv, Recorded
    <3>2. /\ usage' \in Seq({"answer", "rewrite", "other"}) /\ Executions' = {Len(usage) + 1}
          /\ Len(usage) \in Nat /\ DOMAIN usage' = 1 .. Len(usage) + 1
      BY <2>4, <3>1, OneMoreRecord
    <3>3. Executed' /\ reply' = NoAnswer  BY <2>1, <2>2, <2>4 DEF Executed
    <3>4. Len(usage) + 1 \in DOMAIN usage'  BY <3>2
    <3>5. \E i \in DOMAIN usage' : Executions' = {i}
      <4> DEFINE n == Len(usage) + 1  D == DOMAIN usage'  E == Executions'
      <4>1. n \in D /\ E = {n}  BY <3>2, <3>4
      <4> HIDE DEF n, D, E
      <4>2. \E i \in D : E = {i}  BY <4>1
      <4> QED  BY <4>2 DEF D, E
    <3> QED  BY <3>2, <3>3, <3>5 DEF Recorded
  <2> QED
    BY <1>13, <2>3, <2>4 DEF Reply!Generate, Reply!Generated, Reply!ProviderAnswers,
       Reply!ProviderRefuses, Reply!ProviderUnavailable
<1>14. CASE Reply!PersistReply
  <2>1. /\ pc = "account" /\ pc' \in {"finish", "cite"} /\ usage' = usage
        /\ \E a \in {"answered", "fallback", "failed"} :
             reply' = [state |-> a,
                       cost  |-> IF Reply!Contains(Reply!Recent, "answer") THEN "recorded" ELSE "zero"]
    BY <1>14 DEF Reply!PersistReply
  <2>2. Executed /\ Executed' /\ Executions' = Executions
    <3>1. reply' \in Replies /\ reply'.cost # "none"  BY <2>1 DEF Replies
    <3> QED  BY <2>1, <3>1, Constants DEF Executed, Executions
  <2>3. ASSUME reply'.cost = "zero", NEW i \in Executions  PROVE  Len(usage) - i >= Window
    <3>1. ~Reply!Contains(Reply!Recent, "answer")  BY <2>1, <2>3
    <3>2. Len(usage) \in Nat /\ i \in 1 .. Len(usage) /\ usage[i] = "answer" /\ Window \in Nat
      BY LenProperties, AnsweringAssumption DEF AInv, Recorded, Executions, Reply!Admissible
    <3> DEFINE m == IF Len(usage) > Window THEN Len(usage) - Window + 1 ELSE 1
    <3>3. m \in 1 .. Len(usage) + 1  BY <3>2, AnsweringAssumption DEF Reply!Admissible
    <3>4. Reply!Recent = [j \in 1 .. Len(usage) - m + 1 |-> usage[j + m - 1]]
      <4>1. usage \in Seq({"answer", "rewrite", "other"})  BY DEF AInv, Recorded
      <4>2. Reply!Recent = SubSeq(usage, m, Len(usage))  BY DEF Reply!Recent
      <4> HIDE DEF m
      <4> QED  BY <3>2, <3>3, <4>1, <4>2, SubSeqProperties
    <3>5. CASE i < m  BY <3>2, <3>5
    <3>6. CASE i >= m
      <4> HIDE DEF m
      <4>1. i - m + 1 \in 1 .. Len(usage) - m + 1 /\ (i - m + 1) + m - 1 = i  BY <3>2, <3>3, <3>6
      <4>2. Len(usage) - m + 1 \in Nat  BY <3>2, <3>3
      <4>3. Reply!Recent[i - m + 1] = "answer" /\ Len(Reply!Recent) = Len(usage) - m + 1
        BY <3>2, <3>4, <4>1, <4>2
      <4>4. Reply!Contains(Reply!Recent, "answer")  BY <4>1, <4>3 DEF Reply!Contains
      <4> QED  BY <3>1, <4>4
    <3>7. i \in Int /\ m \in Int  BY <3>2, <3>3
    <3> QED  BY <3>5, <3>6, <3>7
  <2> QED  BY <2>1, <2>2, <2>3 DEF AInv, Recorded
<1>23. CASE Reply!MessageNotStored
  <2>1. /\ pc \in {"resolve", "refuse", "account"} /\ pc' = "raised"
        /\ UNCHANGED <<usage, reason, reply>>
    BY <1>23 DEF Reply!MessageNotStored
  <2>2. Executed' = Executed
    BY <2>1, Constants DEF AInv, Decided, Beginning, Unanswered, Verdicts, Executed
  <2> QED  BY <2>1, <2>2, RecordedBefore
<1>15. CASE Reply!AttachCitations
  BY <1>15, RecordedBefore DEF AInv, Executed, Decided, Beginning, Unanswered,
     Reply!AttachCitations, Reply!world, Reply!tracing
<1>16. CASE Reply!FinishTrace
  <2>1. /\ pc = "finish" /\ pc' = (IF Reply!Failed THEN "raised" ELSE "returned")
        /\ UNCHANGED <<usage, reason, reply>>
    BY <1>16 DEF Reply!FinishTrace
  <2>2. reply = NoAnswer => reason = NoAnswer  BY <2>1 DEF AInv, Decided
  <2>3. Executed' = Executed
    BY <2>1, <2>2, Constants DEF AInv, Decided, Executed, Reply!Failed
  <2> QED  BY <2>1, <2>3, RecordedBefore
<1>17. CASE Reply!OthersRecord
  BY <1>17, RecordedByOthers DEF Executed, Reply!OthersRecord, Reply!request
<1>18. CASE Reply!OrphanRecords
  BY <1>18, RecordedByOthers DEF Executed, Reply!OrphanRecords, Reply!request
<1>19. CASE Reply!SetScope
  BY <1>19, RecordedBefore DEF AInv, Executed, Decided, Beginning, Unanswered, Reply!SetScope,
     Reply!request, Reply!world, Reply!tracing
<1>20. CASE Reply!SetLive
  BY <1>20, RecordedBefore DEF AInv, Executed, Decided, Beginning, Unanswered, Reply!SetLive,
     Reply!request, Reply!world, Reply!tracing
<1>21. CASE Reply!Die
  <2>1. pc' = "dead" /\ usage' = <<>>  BY <1>21 DEF Reply!Die
  <2> QED  BY <2>1 DEF Recorded
<1>22. CASE UNCHANGED Reply!vars
  BY <1>22 DEF AInv, Recorded, Executed, Executions, Reply!vars, Reply!world, Reply!request,
     Reply!tracing
<1> QED
  BY <1>1, <1>2, <1>3, <1>4, <1>5, <1>6, <1>7, <1>8, <1>9, <1>10, <1>11, <1>12, <1>13, <1>14,
     <1>15, <1>16, <1>17, <1>18, <1>19, <1>20, <1>21, <1>22, <1>23 DEF Reply!Next, Reply!Request

\* Nothing appended changes nothing.
LEMMA NothingAdded ==
  ASSUME NEW s, IsSeq(s)
  PROVE  <<>> \o s = s /\ s \o <<>> = s
BY ConcatEmptySeq DEF IsSeq

\* The context's chunks are a sequence.
LEMMA ChunksIsSeq ==
  ASSUME NEW blocks, Numbered(blocks)
  PROVE  IsSeq([i \in DOMAIN blocks |-> blocks[i].chunk])
<1> DEFINE l == [i \in DOMAIN blocks |-> blocks[i].chunk]
<1>1. Len(blocks) \in Nat /\ DOMAIN blocks = 1 .. Len(blocks)
  BY LenProperties DEF Numbered, IsSeq
<1>2. l = [i \in 1 .. Len(blocks) |-> l[i]]  BY <1>1
<1> HIDE DEF l
<1>3. IsSeq(l)  BY <1>1, <1>2, TupleIsSeq
<1> QED  BY <1>3 DEF l

\* Nothing is written, and what will be is what it was.
LEMMA TracedBefore ==
  ASSUME AInv, UNCHANGED <<trace, buffer, context, reply>>,
         pc \in Reply!Ended => pc' = pc /\ reason' = reason, pc' = "accepted" => pc = "accepted"
  PROVE  Traced'
BY DEF AInv, Traced, Decided, Beginning, Unanswered, Concluded, ChunkList, Calls, Opened,
   Reply!Ended, Reply!Stages

\* Every step preserves Traced.
LEMMA TracedStep ==
  ASSUME AInv, [Reply!Next]_(Reply!vars)
  PROVE  Traced'
<1>1. CASE Reply!StartTrace
  <2>1. /\ pc = "accepted" /\ pc' = "resolve" /\ UNCHANGED <<buffer, context, reply>>
        /\ trace' = Opened \/ trace' = trace
    BY <1>1 DEF Reply!StartTrace, Opened
  <2>2. trace = NoAnswer /\ buffer = Reply!Nothing /\ context = <<>> /\ reply = NoAnswer
    BY <2>1 DEF AInv, Traced, Blocks, Decided, Beginning, Unanswered
  <2>3. ChunkList' = <<>> /\ Calls' = 0  BY <2>1, <2>2 DEF ChunkList, Calls
  <2> QED  BY <2>1, <2>2, <2>3 DEF Traced, Concluded, Reply!Nothing, Reply!Ended
<1>2. CASE Reply!ResolveFails
  BY <1>2, TracedBefore DEF Reply!Ended, Reply!ResolveFails, Reply!world, Reply!tracing
<1>3. CASE Reply!AppendUserMessage
  BY <1>3, TracedBefore DEF Reply!Ended, Reply!AppendUserMessage, Reply!world, Reply!tracing
<1>4. CASE Reply!InputPolicy
  BY <1>4, TracedBefore DEF Reply!Ended, Reply!InputPolicy, Reply!world, Reply!tracing
<1>5. CASE Reply!ReadScope
  BY <1>5, TracedBefore DEF Reply!Ended, Reply!ReadScope, Reply!world, Reply!tracing
<1>6. CASE Reply!TransformQuery
  BY <1>6, Transformed, TracedBefore DEF Reply!Ended
<1>7. CASE Reply!SearchDense
  BY <1>7, TracedBefore DEF Reply!Ended, Reply!SearchDense, Reply!world, Reply!tracing
<1>8. CASE Reply!EmbeddingFails
  BY <1>8, TracedBefore DEF Reply!Ended, Reply!EmbeddingFails, Reply!world, Reply!tracing
<1>9. CASE Reply!SearchLexical
  BY <1>9, TracedBefore DEF Reply!Ended, Reply!SearchLexical, Reply!world, Reply!tracing
<1>10. CASE Reply!JudgeRanking
  <2>1. /\ pc = "judge" /\ pc' \in {"generate", "refuse"} /\ Numbered(context')
        /\ buffer' = IF trace = NoAnswer THEN buffer
                     ELSE [chunks |-> buffer.chunks \o ChunkList', calls |-> buffer.calls + 0]
        /\ UNCHANGED <<trace, reply>>
    BY <1>10, Judged DEF Reply!JudgeRanking
  <2>2. context = <<>> /\ reply = NoAnswer
    BY <2>1 DEF AInv, Blocks, Decided, Beginning, Unanswered
  <2>3. ChunkList = <<>> /\ Calls = 0 /\ Calls' = 0  BY <2>1, <2>2 DEF ChunkList, Calls
  <2>4. trace # NoAnswer => buffer.chunks = <<>> /\ buffer.calls = 0
    BY <2>1, <2>3 DEF AInv, Traced, Reply!Ended
  <2>5. <<>> \o ChunkList' = ChunkList'
    <3>1. Numbered(context')  BY <2>1 DEF AInv, Blocks
    <3>2. IsSeq(ChunkList')  BY <3>1, ChunksIsSeq DEF ChunkList
    <3> QED  BY <3>2, NothingAdded
  <2>6. trace # NoAnswer => buffer' = [chunks |-> ChunkList', calls |-> Calls']
    <3>1. trace # NoAnswer => buffer.chunks \o ChunkList' = ChunkList'  BY <2>4, <2>5
    <3>2. trace # NoAnswer => buffer.calls + 0 = Calls'  BY <2>3, <2>4
    <3> QED  BY <2>1, <3>1, <3>2
  <2> QED  BY <2>1, <2>6 DEF AInv, Traced, Concluded, Reply!Ended
<1>11. CASE Reply!RerankFails
  BY <1>11, TracedBefore DEF Reply!Ended, Reply!RerankFails, Reply!world, Reply!tracing
<1>12. CASE Reply!PersistFallback
  <2>1. /\ pc = "refuse" /\ pc' = "finish" /\ UNCHANGED <<trace, buffer, context>>
        /\ reply' = [state |-> "fallback", cost |-> "none"]
    BY <1>12 DEF Reply!PersistFallback, Reply!tracing
  <2>2. reply = NoAnswer  BY <2>1 DEF AInv, Decided, Unanswered
  <2>3. Calls' = Calls /\ ChunkList' = ChunkList  BY <2>1, <2>2 DEF Calls, ChunkList
  <2> QED  BY <2>1, <2>3 DEF AInv, Traced, Concluded, Reply!Ended, Opened
<1>13. CASE Reply!Generate
  BY <1>13, TracedBefore DEF Reply!Ended, Reply!Generate, Reply!Generated, Reply!ProviderAnswers,
     Reply!ProviderRefuses, Reply!ProviderUnavailable, Reply!world, Reply!tracing
<1>14. CASE Reply!PersistReply
  <2>1. /\ pc = "account" /\ pc' \in {"finish", "cite"} /\ UNCHANGED <<trace, context>>
        /\ buffer' = IF trace = NoAnswer THEN buffer
                     ELSE [chunks |-> buffer.chunks \o <<>>, calls |-> buffer.calls + 1]
        /\ \E a \in {"answered", "fallback", "failed"}, c \in {"recorded", "zero"} :
             reply' = [state |-> a, cost |-> c]
    BY <1>14 DEF Reply!PersistReply, Reply!Buffered
  <2>2. reply = NoAnswer  BY <2>1 DEF AInv, Decided, Unanswered
  <2>3. Calls = 0 /\ Calls' = 1 /\ ChunkList' = ChunkList
    <3>1. reply' \in Replies /\ reply'.cost # "none"  BY <2>1 DEF Replies
    <3> QED  BY <2>1, <2>2, <3>1, Constants DEF Calls, ChunkList
  <2>4. trace # NoAnswer => buffer = [chunks |-> ChunkList, calls |-> 0]
    BY <2>1, <2>3 DEF AInv, Traced, Reply!Ended
  <2>5. ChunkList \o <<>> = ChunkList
    <3>1. Numbered(context)  BY DEF AInv, Blocks
    <3>2. IsSeq(ChunkList)  BY <3>1, ChunksIsSeq DEF ChunkList
    <3> QED  BY <3>2, NothingAdded
  <2>6. trace # NoAnswer => buffer' = [chunks |-> ChunkList', calls |-> Calls']
    BY <2>1, <2>3, <2>4, <2>5
  <2>7. Opened' = Opened  BY DEF Opened, Reply!Nothing
  <2> QED  BY <2>1, <2>6, <2>7 DEF AInv, Traced, Concluded, Reply!Ended
<1>23. CASE Reply!MessageNotStored
  <2>1. /\ pc \in {"resolve", "refuse", "account"} /\ pc' = "raised"
        /\ UNCHANGED <<trace, context, reply>>
        /\ trace = NoAnswer => buffer' = buffer
    BY <1>23 DEF Reply!MessageNotStored, Reply!Buffered
  <2>2. trace \in {NoAnswer, Opened}  BY <2>1 DEF AInv, Traced, Concluded
  <2>3. Opened' = Opened  BY DEF Opened, Reply!Nothing
  <2> QED  BY <2>1, <2>2, <2>3 DEF AInv, Traced, Concluded, Reply!Ended
<1>15. CASE Reply!AttachCitations
  BY <1>15, TracedBefore DEF Reply!Ended, Reply!AttachCitations, Reply!world, Reply!tracing
<1>16. CASE Reply!FinishTrace
  <2>1. /\ pc = "finish" /\ pc' = (IF Reply!Failed THEN "raised" ELSE "returned")
        /\ UNCHANGED <<context, reply>> /\ buffer' = Reply!Nothing
        /\ \/ trace' = trace
           \/ /\ trace # NoAnswer
              /\ trace' = [status |-> IF Reply!Failed THEN "failed" ELSE "completed",
                           state |-> IF reply = NoAnswer THEN NoAnswer ELSE reply.state, written |-> buffer]
    BY <1>16 DEF Reply!FinishTrace
  <2>2. trace \in {NoAnswer, Opened}
    BY <2>1 DEF AInv, Traced, Concluded
  <2>3. trace # NoAnswer => buffer = [chunks |-> ChunkList, calls |-> Calls]
    BY <2>1 DEF AInv, Traced, Reply!Ended
  <2>4. ChunkList' = ChunkList /\ Calls' = Calls /\ Opened' = Opened
    BY <2>1 DEF ChunkList, Calls, Opened
  <2>5. pc' \in Concluded /\ (pc' = "raised" <=> Reply!Failed)  BY <2>1 DEF Concluded
  <2>6. trace' \in {NoAnswer, Opened,
                  [status  |-> IF pc' = "raised" THEN "failed" ELSE "completed",
                   state   |-> IF reply' = NoAnswer THEN NoAnswer ELSE reply'.state,
                   written |-> [chunks |-> ChunkList', calls |-> Calls']]}
    BY <2>1, <2>2, <2>3, <2>4, <2>5
  <2>7. reply' = NoAnswer => reason' = NoAnswer
    BY <1>16, <2>1 DEF AInv, Decided, Reply!FinishTrace
  <2> QED  BY <2>1, <2>5, <2>6, <2>7 DEF Traced, Concluded, Reply!Ended
<1>17. CASE Reply!OthersRecord
  BY <1>17, TracedBefore DEF Reply!OthersRecord, Reply!request, Reply!tracing, Reply!Ended
<1>18. CASE Reply!OrphanRecords
  BY <1>18, TracedBefore DEF Reply!OrphanRecords, Reply!request, Reply!tracing, Reply!Ended
<1>19. CASE Reply!SetScope
  BY <1>19, TracedBefore DEF Reply!SetScope, Reply!request, Reply!tracing, Reply!Ended
<1>20. CASE Reply!SetLive
  BY <1>20, TracedBefore DEF Reply!SetLive, Reply!request, Reply!tracing, Reply!Ended
<1>21. CASE Reply!Die
  BY <1>21 DEF AInv, Traced, Decided, Beginning, Unanswered, Concluded, ChunkList, Calls, Opened,
     Reply!Ended, Reply!Stages, Reply!Die
<1>22. CASE UNCHANGED Reply!vars
  BY <1>22 DEF AInv, AInv, Traced, Decided, Beginning, Unanswered, Concluded, ChunkList, Calls,
     Opened, Reply!Ended, Reply!Stages, Reply!vars, Reply!world, Reply!request, Reply!tracing
<1> QED
  BY <1>1, <1>2, <1>3, <1>4, <1>5, <1>6, <1>7, <1>8, <1>9, <1>10, <1>11, <1>12, <1>13, <1>14,
     <1>15, <1>16, <1>17, <1>18, <1>19, <1>20, <1>21, <1>22, <1>23 DEF Reply!Next, Reply!Request

\* The invariant holds at first.
LEMMA AInitially ==
  ASSUME Reply!Init
  PROVE  AInv
<1>1. /\ IsSeq(rankings) /\ Len(rankings) = 0 /\ IsSeq(context) /\ Len(context) = 0 /\ DOMAIN context = {}
      /\ IsSeq(shown) /\ Len(shown) = 0 /\ DOMAIN shown = {} /\ DOMAIN rankings = {}
  BY DEF Reply!Init, IsSeq
<1>2. Searched  BY <1>1, Constants DEF Reply!Init, Searched, Posed, Beginning
<1>3. Blocks  BY <1>1, Constants DEF Reply!Init, Blocks, Numbered
<1>4. Decided  BY Constants DEF Reply!Init, Decided, Beginning, Unanswered, Reply!Stages
<1>5. Recorded
  <2>1. usage = <<>> /\ Executions = {} /\ ~Executed /\ reply = NoAnswer
    BY DEF Reply!Init, Executions, Executed
  <2> QED  BY <2>1 DEF Recorded
<1>6. Traced  BY DEF Reply!Init, Traced, Concluded, Reply!Ended, Opened
<1> QED  BY <1>2, <1>3, <1>4, <1>5, <1>6 DEF AInv

\* Every step preserves it.
LEMMA AStep ==
  ASSUME AInv, [Reply!Next]_(Reply!vars)
  PROVE  AInv'
BY SearchedStep, BlocksStep, DecidedStep, RecordedStep, TracedStep DEF AInv

(* Every state a request reaches has rankings that rank, blocks numbered   *)
(* in order, a decision that fits the state, and records of what it did.    *)
THEOREM AInvariance == Reply!Spec => []AInv
<1>1. Reply!Init => AInv  BY AInitially
<1>2. AInv /\ [Reply!Next]_(Reply!vars) => AInv'  BY AStep
<1> QED  BY <1>1, <1>2, PTL DEF Reply!Spec

\* The invariant says what is stored.
LEMMA RightlyReplied ==
  ASSUME AInv
  PROVE  ReplyIsTrue
<1>1. Executions = {i \in DOMAIN usage : usage[i] = "answer"}  BY DEF Executions
<1>2. pc = "returned" => reply # NoAnswer  BY DEF AInv, Decided, Reply!Failed
<1>3. pc = "raised" /\ reply # NoAnswer => reason = "provider_failed"
  BY DEF AInv, Decided, Reply!Failed
<1>4. pc # "dead" => Reply!Cardinality(Executions) = IF Executed THEN 1 ELSE 0
  BY SameSize, FS_EmptySet, FS_Singleton DEF AInv, Recorded
<1>5. reply # NoAnswer /\ reply.cost = "zero" /\ pc # "dead" => \A i \in Executions : Len(usage) - i >= Window
  BY DEF AInv, Recorded
<1>6. reply # NoAnswer /\ reply.state = "answered" => reason = "sufficient_evidence"
  BY DEF AInv, Decided
<1>7. citations # NoAnswer =>
        IF reply.state # "answered" THEN citations = <<>>
        ELSE /\ Len(citations) = Len(shown)
             /\ \A i \in DOMAIN shown :
                  /\ citations[i].chunk = shown[i].chunk /\ citations[i].text = shown[i].text
                  /\ context[citations[i].index].chunk = citations[i].chunk
  <2> SUFFICES ASSUME citations # NoAnswer, reply.state = "answered"
               PROVE  /\ Len(citations) = Len(shown)
                      /\ \A i \in DOMAIN shown :
                           /\ citations[i].chunk = shown[i].chunk /\ citations[i].text = shown[i].text
                           /\ context[citations[i].index].chunk = citations[i].chunk
    BY DEF AInv, Decided
  <2>1. citations = Reply!Cited(shown)  BY DEF AInv, Decided
  <2>2. Len(shown) \in Nat /\ DOMAIN shown = 1 .. Len(shown)
    BY LenProperties DEF AInv, Blocks, IsSeq
  <2>3. \A i \in DOMAIN shown :
          citations[i] = [index |-> shown[i].index, chunk |-> shown[i].chunk, text |-> shown[i].text]
    BY <2>1 DEF Reply!Cited
  <2>4. DOMAIN citations = 1 .. Len(shown) /\ citations = [i \in 1 .. Len(shown) |-> citations[i]]
    BY <2>1, <2>2 DEF Reply!Cited
  <2>5. Len(citations) = Len(shown)  BY <2>2, <2>4, TupleIsSeq
  <2>6. ASSUME NEW i \in DOMAIN shown  PROVE  context[shown[i].index] = shown[i]
    BY DEF AInv, Blocks, Numbered
  <2>7. ASSUME NEW i \in DOMAIN shown
        PROVE  /\ citations[i].chunk = shown[i].chunk /\ citations[i].text = shown[i].text
               /\ context[citations[i].index].chunk = citations[i].chunk
    <3>1. /\ citations[i].index = shown[i].index /\ citations[i].chunk = shown[i].chunk
          /\ citations[i].text = shown[i].text
      <4> DEFINE c == citations[i]  x == shown[i].index  y == shown[i].chunk  z == shown[i].text
      <4>1. c = [index |-> x, chunk |-> y, text |-> z]  BY <2>3
      <4> HIDE DEF c, x, y, z
      <4>2. c.index = x /\ c.chunk = y /\ c.text = z  BY <4>1
      <4> QED  BY <4>2 DEF c, x, y, z
    <3> QED  BY <2>6, <3>1
  <2> QED  BY <2>5, <2>7
<1>8. trace # NoAnswer /\ trace.status # "in_progress" =>
        /\ pc = IF trace.status = "failed" THEN "raised" ELSE "returned"
        /\ trace.state = IF reply = NoAnswer THEN NoAnswer ELSE reply.state
        /\ trace.written.calls = Reply!Cardinality(Executions)
        /\ trace.written.chunks = [i \in DOMAIN context |-> context[i].chunk]
  <2> SUFFICES ASSUME trace # NoAnswer, trace.status # "in_progress"
               PROVE  /\ pc = IF trace.status = "failed" THEN "raised" ELSE "returned"
                      /\ trace.state = IF reply = NoAnswer THEN NoAnswer ELSE reply.state
                      /\ trace.written.calls = Reply!Cardinality(Executions)
                      /\ trace.written.chunks = [i \in DOMAIN context |-> context[i].chunk]
    OBVIOUS
  <2>1. trace # Opened  BY DEF Opened
  <2>2. pc \in Concluded  BY <2>1 DEF AInv, Traced
  <2>3. trace = [status  |-> IF pc = "raised" THEN "failed" ELSE "completed",
                 state   |-> IF reply = NoAnswer THEN NoAnswer ELSE reply.state,
                 written |-> [chunks |-> ChunkList, calls |-> Calls]]
    BY <2>1, <2>2 DEF AInv, Traced
  <2>4. Executed <=> reply # NoAnswer /\ reply.cost # "none"
    BY <2>1, <2>2, Constants DEF AInv, Decided, Traced, Executed, Concluded, Reply!Failed
  <2>5. Calls = Reply!Cardinality(Executions)  BY <1>4, <2>2, <2>4 DEF Calls, Concluded
  <2> QED  BY <2>2, <2>3, <2>5 DEF ChunkList, Concluded
<1> QED
  BY <1>1, <1>2, <1>3, <1>4, <1>5, <1>6, <1>7, <1>8
     DEF ReplyIsTrue, Reply!ReplyIsTrue, Reply!Asked, Executed

(* The stored reply, its citations, its cost and the trace say what         *)
(* happened, for every library, request, pipeline and interleaving.         *)
THEOREM ReplyTrue == Reply!Spec => []ReplyIsTrue
<1>1. AInv => ReplyIsTrue  BY RightlyReplied
<1> QED  BY <1>1, AInvariance, PTL

\* What the requirement says of a ranking.
Fair(r) ==
  \A j \in DOMAIN r : \A a :
    Reply!Dominates(a, r[j].chunk) => \E i \in 1 .. j - 1 : r[i].chunk = a

\* What holds of a ranking holds of its first few.
LEMMA TopIsFair ==
  ASSUME NEW r, IsSeq(r), Fair(r), NEW n \in Nat
  PROVE  Fair(Reply!Top(r, n))
<1> DEFINE u == Reply!Top(r, n)
<1>1. IsSeq(u) /\ \A i \in DOMAIN u : i \in DOMAIN r /\ u[i] = r[i]  BY TopIsSeq
<1> HIDE DEF u
<1>2. DOMAIN u = 1 .. Len(u) /\ Len(u) \in Nat  BY <1>1, LenProperties DEF IsSeq
<1>3. ASSUME NEW j \in DOMAIN u, NEW a, Reply!Dominates(a, u[j].chunk)
      PROVE  \E i \in 1 .. j - 1 : u[i].chunk = a
  <2>1. PICK i \in 1 .. j - 1 : r[i].chunk = a  BY <1>1, <1>3 DEF Fair
  <2>2. i \in DOMAIN u  BY <1>2
  <2> QED  BY <1>1, <2>1, <2>2
<1> QED  BY <1>3 DEF Fair, u

\* A chunk that dominates another precedes it, whatever made the ranking.
LEMMA FairlyRanked ==
  ASSUME AInv
  PROVE  RankingIsFair
<1> SUFFICES ASSUME pc = "judge"
             PROVE  Fair(Reply!Top(Reply!Candidates, MaxBlocks))
  BY DEF RankingIsFair, Reply!RankingIsFair, Fair
<1> DEFINE limit == Reply!CandidateLimit
<1>1. MaxBlocks \in Nat /\ Pool \in Nat  BY Constants
<1>2. Searches(rankings)  BY DEF AInv, Searched, Searches
<1>3. DOMAIN rankings = 1 .. Len(rankings)  BY <1>2, LenProperties DEF Searches, IsSeq
<1>4. \A a, b : Reply!Dominates(a, b) => \A q \in DOMAIN rankings : b \in Reply!ChunksOf(rankings[q]) =>
        /\ a \in Reply!ChunksOf(rankings[q])
        /\ Reply!RankOf(rankings[q], a) < Reply!RankOf(rankings[q], b)
  BY DEF Reply!Dominates
<1>5. Fair(Reply!Candidates)
  <2>1. CASE setup.pipeline # "dense"
    <3>1. Len(rankings) = 2  BY <2>1 DEF AInv, Searched
    <3>2. 1 \in DOMAIN rankings /\ 2 \in DOMAIN rankings  BY <1>3, <3>1
    <3> DEFINE f == rankings[1]  g == rankings[2]
    <3>3. IsRanking(f) /\ IsRanking(g)  BY <1>2, <3>2 DEF Searches
    <3>4. Reply!Candidates = Reply!Fuse(f, g, MaxBlocks)  BY <2>1 DEF Reply!Candidates
    <3>5. \A a, b : Reply!Dominates(a, b) => Above(f, a, b) /\ Above(g, a, b)
      BY <1>4, <3>2 DEF Above
    <3> DEFINE u == Reply!Fuse(f, g, MaxBlocks)
    <3> HIDE DEF f, g
    <3>6. \A j \in DOMAIN u : \A a :
            Above(f, a, u[j].chunk) /\ Above(g, a, u[j].chunk) => \E i \in 1 .. j - 1 : u[i].chunk = a
      BY <1>1, <3>3, FusedFairly
    <3> HIDE DEF u
    <3>7. ASSUME NEW j \in DOMAIN u, NEW a, Reply!Dominates(a, u[j].chunk)
          PROVE  \E i \in 1 .. j - 1 : u[i].chunk = a
      BY <3>5, <3>6, <3>7
    <3> QED  BY <3>4, <3>7 DEF Fair, u
  <2>2. CASE setup.pipeline = "dense" /\ Reply!DenseQueries > 1
    <3>1. limit \in Nat  BY <1>1 DEF Reply!CandidateLimit, Reply!Larger
    <3>2. Reply!Candidates = Reply!Merge(rankings, limit)  BY <2>2 DEF Reply!Candidates
    <3> HIDE DEF limit
    <3>3. ASSUME NEW j \in DOMAIN Reply!Merge(rankings, limit), NEW a,
                 Reply!Dominates(a, Reply!Merge(rankings, limit)[j].chunk)
          PROVE  \E i \in 1 .. j - 1 : Reply!Merge(rankings, limit)[i].chunk = a
      <4> DEFINE b == Reply!Merge(rankings, limit)[j].chunk
      <4>1. \A q \in DOMAIN rankings : b \in Reply!ChunksOf(rankings[q]) =>
              /\ a \in Reply!ChunksOf(rankings[q])
              /\ Reply!RankOf(rankings[q], a) < Reply!RankOf(rankings[q], b)
        BY <1>4, <3>3
      <4> QED  BY <1>2, <3>1, <4>1, MergedFairly
    <3> QED  BY <3>2, <3>3 DEF Fair
  <2>3. CASE setup.pipeline = "dense" /\ ~(Reply!DenseQueries > 1)
    <3>1. queries \in Nat /\ queries >= 1  BY Constants DEF AInv, Searched
    <3>2. Reply!DenseQueries = 1  BY <2>3, <3>1 DEF Reply!DenseQueries
    <3>3. Len(rankings) = 1  BY <2>3, <3>2 DEF AInv, Searched
    <3>4. 1 \in DOMAIN rankings  BY <1>3, <3>3
    <3> DEFINE r == rankings[1]
    <3>5. IsRanking(r)  BY <1>2, <3>4 DEF Searches
    <3>6. Reply!Candidates = r  BY <2>3 DEF Reply!Candidates
    <3>7. \A a, b : Reply!Dominates(a, b) /\ b \in Reply!ChunksOf(r) =>
            a \in Reply!ChunksOf(r) /\ Reply!RankOf(r, a) < Reply!RankOf(r, b)
      BY <1>4, <3>4
    <3> HIDE DEF r
    <3>8. ASSUME NEW j \in DOMAIN r, NEW a, Reply!Dominates(a, r[j].chunk)
          PROVE  \E i \in 1 .. j - 1 : r[i].chunk = a
      <4> DEFINE b == r[j].chunk  i == Reply!RankOf(r, a)
      <4>1. b \in Reply!ChunksOf(r) /\ Reply!RankOf(r, b) = j  BY <3>5, Ranks
      <4>2. a \in Reply!ChunksOf(r) /\ i < j  BY <3>7, <3>8, <4>1
      <4>3. i \in DOMAIN r /\ r[i].chunk = a /\ DOMAIN r = 1 .. Len(r) /\ Len(r) \in Nat
        BY <3>5, <4>2, Ranks
      <4> HIDE DEF i
      <4>4. i \in 1 .. j - 1  BY <4>2, <4>3
      <4> QED  BY <4>3, <4>4
    <3> QED  BY <3>6, <3>8 DEF Fair
  <2> QED  BY <2>1, <2>2, <2>3
<1> QED  BY <1>1, <1>5, CandidatesIsSeq, TopIsFair

(* A chunk that every search which found another ranks above it is not      *)
(* displaced by it: fusion, merge and the limits keep what all searches     *)
(* agree on.                                                                *)
THEOREM FairRanking == Reply!Spec => []RankingIsFair
<1>1. AInv => RankingIsFair  BY FairlyRanked
<1> QED  BY <1>1, AInvariance, PTL

-----------------------------------------------------------------------------
\* Sequences in a row, and what they hold.
SeqOfSeqs(s) == IsSeq(s) /\ \A i \in DOMAIN s : IsSeq(s[i])
AllOf(s) == UNION {Reply!ToSet(s[i]) : i \in DOMAIN s}

\* Two sequences in a row hold what each of them holds.
LEMMA Concatenated ==
  ASSUME NEW s, NEW t, IsSeq(s), IsSeq(t)
  PROVE  IsSeq(s \o t) /\ Reply!ToSet(s \o t) = Reply!ToSet(s) \cup Reply!ToSet(t)
<1> DEFINE S == {s[i] : i \in DOMAIN s} \cup {t[i] : i \in DOMAIN t}
           u == s \o t
<1>1. s \in Seq(S) /\ t \in Seq(S)  BY SeqDef DEF IsSeq
<1> HIDE DEF S
<1>2. Len(s) \in Nat /\ Len(t) \in Nat /\ DOMAIN s = 1 .. Len(s) /\ DOMAIN t = 1 .. Len(t)
  BY <1>1, LenProperties
<1>3. /\ u \in Seq(S) /\ Len(u) = Len(s) + Len(t)
      /\ \A i \in 1 .. Len(s) + Len(t) : u[i] = IF i <= Len(s) THEN s[i] ELSE t[i - Len(s)]
  BY <1>1, ConcatProperties
<1>4. DOMAIN u = 1 .. Len(s) + Len(t) /\ u = [i \in 1 .. Len(s) + Len(t) |-> u[i]]
  BY <1>3, LenProperties
<1> HIDE DEF u
<1>5. IsSeq(u)  BY <1>2, <1>4, TupleIsSeq
<1>6. \A i \in DOMAIN s : i \in DOMAIN u /\ u[i] = s[i]  BY <1>2, <1>3, <1>4
<1>7. ASSUME NEW i \in DOMAIN t  PROVE  i + Len(s) \in DOMAIN u /\ u[i + Len(s)] = t[i]
  <2>1. i + Len(s) \in 1 .. Len(s) + Len(t) /\ ~(i + Len(s) <= Len(s)) /\ (i + Len(s)) - Len(s) = i
    BY <1>2
  <2> QED  BY <2>1, <1>3, <1>4
<1>8. ASSUME NEW i \in DOMAIN u  PROVE  u[i] \in Reply!ToSet(s) \cup Reply!ToSet(t)
  <2>1. CASE i <= Len(s)  BY <1>2, <1>3, <1>4, <2>1 DEF Reply!ToSet
  <2>2. CASE ~(i <= Len(s))
    <3>1. i - Len(s) \in DOMAIN t  BY <1>2, <1>4, <2>2
    <3> QED  BY <1>3, <1>4, <2>2, <3>1 DEF Reply!ToSet
  <2> QED  BY <2>1, <2>2
<1>9. Reply!ToSet(u) = Reply!ToSet(s) \cup Reply!ToSet(t)
  <2>1. Reply!ToSet(u) \subseteq Reply!ToSet(s) \cup Reply!ToSet(t)  BY <1>8 DEF Reply!ToSet
  <2>2. Reply!ToSet(s) \subseteq Reply!ToSet(u)  BY <1>6 DEF Reply!ToSet
  <2>3. Reply!ToSet(t) \subseteq Reply!ToSet(u)  BY <1>7 DEF Reply!ToSet
  <2> QED  BY <2>1, <2>2, <2>3
<1> QED  BY <1>5, <1>9 DEF u

\* The least of a set of numbers.
LEMMA Least ==
  ASSUME NEW n \in Nat, NEW S \in SUBSET (1 .. n), S # {}
  PROVE  Reply!Min(S) \in S /\ \A x \in S : Reply!Min(S) <= x
<1>1. IsFiniteSet(S)
  <2>1. IsFiniteSet(1 .. n)  BY UpTo
  <2> QED  BY <2>1, FS_Subset
<1> QED  BY <1>1, Extremes

\* What FlattenSeq defines is there, up to any length.
LEMMA Flattening ==
  ASSUME NEW s, NEW n \in Nat, n >= 1
  PROVE  \E f : f = [i \in 1 .. n |-> IF i = 1 THEN s[i] ELSE f[i - 1] \o s[i]]
<1> DEFINE B == {m \in 1 .. n : ~ \E f : f = [i \in 1 .. m |-> IF i = 1 THEN s[i] ELSE f[i - 1] \o s[i]]}
           m == Reply!Min(B)
<1> SUFFICES ASSUME B # {}  PROVE  FALSE
  <2>1. n \in 1 .. n  OBVIOUS
  <2> QED  BY <2>1
<1>1. B \in SUBSET (1 .. n)  OBVIOUS
<1>2. m \in B /\ \A x \in B : m <= x
  <2> HIDE DEF B
  <2> QED  BY <1>1, Least
<1>3. m \in 1 .. n /\ ~ \E f : f = [i \in 1 .. m |-> IF i = 1 THEN s[i] ELSE f[i - 1] \o s[i]]
  BY <1>2
<1>4. m # 1
  <2> DEFINE g == [i \in 1 .. 1 |-> s[i]]
  <2>1. g = [i \in 1 .. 1 |-> IF i = 1 THEN s[i] ELSE g[i - 1] \o s[i]]  OBVIOUS
  <2> HIDE DEF g
  <2> QED  BY <1>3, <2>1
<1>5. m - 1 \in 1 .. n /\ ~(m <= m - 1)  BY <1>3, <1>4
<1>6. m - 1 \notin B  BY <1>2, <1>5
<1>7. PICK f : f = [i \in 1 .. m - 1 |-> IF i = 1 THEN s[i] ELSE f[i - 1] \o s[i]]  BY <1>5, <1>6
<1> DEFINE g == [i \in 1 .. m |-> IF i = m THEN f[m - 1] \o s[m] ELSE f[i]]
<1> HIDE DEF m, B
<1>8. ASSUME NEW i \in 1 .. m  PROVE  g[i] = IF i = 1 THEN s[i] ELSE g[i - 1] \o s[i]
  <2>1. CASE i = 1
    <3>1. 1 \in 1 .. m - 1 /\ i # m  BY <1>3, <1>4, <2>1
    <3> QED  BY <1>7, <2>1, <3>1
  <2>2. CASE i # 1 /\ i = m
    <3>1. i - 1 \in 1 .. m /\ i - 1 # m  BY <1>3, <2>2
    <3> QED  BY <2>2, <3>1
  <2>3. CASE i # 1 /\ i # m
    <3>1. i \in 1 .. m - 1 /\ i - 1 \in 1 .. m /\ i - 1 # m  BY <1>3, <2>3
    <3>2. f[i] = f[i - 1] \o s[i]  BY <1>7, <2>3, <3>1
    <3> QED  BY <2>3, <3>1, <3>2
  <2> QED  BY <2>1, <2>2, <2>3
<1>9. g = [i \in 1 .. m |-> IF i = 1 THEN s[i] ELSE g[i - 1] \o s[i]]  BY <1>8
<1> HIDE DEF g
<1> QED  BY <1>3, <1>9

\* Flattened, they hold what each of them holds.
LEMMA Flattened ==
  ASSUME NEW s, SeqOfSeqs(s)
  PROVE  IsSeq(Reply!FlattenSeq(s)) /\ Reply!ToSet(Reply!FlattenSeq(s)) = AllOf(s)
<1> DEFINE n == Len(s)
           f == CHOOSE g : g = [i \in 1 .. n |-> IF i = 1 THEN s[i] ELSE g[i - 1] \o s[i]]
<1>1. n \in Nat /\ DOMAIN s = 1 .. n  BY LenProperties DEF SeqOfSeqs, IsSeq
<1>2. CASE n = 0
  <2>1. Reply!FlattenSeq(s) = s  BY <1>2 DEF Reply!FlattenSeq
  <2>2. DOMAIN s = {}  BY <1>1, <1>2
  <2> QED  BY <2>1, <2>2 DEF SeqOfSeqs, AllOf, Reply!ToSet
<1>3. CASE n # 0
  <2>1. Reply!FlattenSeq(s) = f[n]  BY <1>3 DEF Reply!FlattenSeq
  <2>2. f = [i \in 1 .. n |-> IF i = 1 THEN s[i] ELSE f[i - 1] \o s[i]]
    <3>1. n >= 1  BY <1>1, <1>3
    <3> HIDE DEF n
    <3>2. \E g : g = [i \in 1 .. n |-> IF i = 1 THEN s[i] ELSE g[i - 1] \o s[i]]
      BY <1>1, <3>1, Flattening
    <3> QED  BY <3>2
  <2> HIDE DEF f, n
  <2> DEFINE Good(m) == IsSeq(f[m]) /\ Reply!ToSet(f[m]) = UNION {Reply!ToSet(s[i]) : i \in 1 .. m}
             B == {m \in 1 .. n : ~Good(m)}
             m == Reply!Min(B)
  <2>3. B = {}
    <3> SUFFICES ASSUME B # {}  PROVE  FALSE  OBVIOUS
    <3>1. B \in SUBSET (1 .. n)  OBVIOUS
    <3> HIDE DEF Good
    <3>2. m \in B /\ \A x \in B : m <= x
      <4> HIDE DEF B
      <4> QED  BY <1>1, <3>1, Least
    <3>3. m \in 1 .. n /\ ~Good(m)  BY <3>2
    <3>4. IsSeq(s[m])  BY <1>1, <3>3 DEF SeqOfSeqs
    <3> HIDE DEF B, m
    <3>5. m # 1
      <4>1. 1 \in 1 .. n /\ f[1] = s[1]  BY <1>1, <2>2, <3>3
      <4>2. 1 .. 1 = {1}  OBVIOUS
      <4>3. m = 1 => Good(1)  BY <3>4, <4>1, <4>2 DEF Good
      <4> QED  BY <3>3, <4>3
    <3>6. m - 1 \in 1 .. n /\ ~(m <= m - 1)  BY <1>1, <3>3, <3>5
    <3>7. Good(m - 1)  BY <3>2, <3>6 DEF B, m
    <3>8. f[m] = f[m - 1] \o s[m]  BY <2>2, <3>3, <3>5
    <3>9. IsSeq(f[m]) /\ Reply!ToSet(f[m]) = Reply!ToSet(f[m - 1]) \cup Reply!ToSet(s[m])
      BY <3>4, <3>7, <3>8, Concatenated DEF Good
    <3>10. 1 .. m = (1 .. m - 1) \cup {m}  BY <3>3
    <3>11. Good(m)  BY <3>7, <3>9, <3>10 DEF Good
    <3> QED  BY <3>3, <3>11
  <2>4. Good(n)
    <3>1. n \in 1 .. n  BY <1>1, <1>3
    <3> HIDE DEF Good
    <3> QED  BY <2>3, <3>1
  <2> QED  BY <1>1, <2>1, <2>4 DEF AllOf
<1> QED  BY <1>2, <1>3

-----------------------------------------------------------------------------
\* What the sentences lo to hi of a text hold.
Tokens(text, lo, hi) == UNION {Reply!ToSet(text[i].tokens) : i \in lo .. hi}

\* The model's word for a sequence.
LEMMA Sequences == \A s : Reply!IsSequence(s) <=> IsSeq(s)
BY DEF Reply!IsSequence, Reply!ToSet, IsSeq

\* A text holds what its sentences hold.
LEMMA TextTokens ==
  ASSUME NEW text, Reply!WellFormed(text)
  PROVE  IsSeq(Reply!WholeText(text)) /\ Reply!ToSet(Reply!WholeText(text)) = Tokens(text, 1, Len(text))
<1> DEFINE n == Len(text)
           s == [i \in DOMAIN text |-> text[i].tokens]
<1>1. n \in Nat /\ DOMAIN text = 1 .. n
  BY LenProperties DEF Reply!WellFormed, Reply!IsSequence
<1>2. s = [i \in 1 .. n |-> s[i]] /\ DOMAIN s = 1 .. n  BY <1>1
<1>3. \A i \in 1 .. n : s[i] = text[i].tokens  BY <1>1
<1>4. \A i \in 1 .. n : IsSeq(s[i])
  <2> HIDE DEF s
  <2> QED  BY <1>1, <1>3, Sequences DEF Reply!WellFormed
<1>5. Reply!WholeText(text) = Reply!FlattenSeq(s)  BY DEF Reply!WholeText
<1> HIDE DEF s, n
<1>6. IsSeq(s)  BY <1>1, <1>2, TupleIsSeq
<1>7. SeqOfSeqs(s)  BY <1>2, <1>4, <1>6 DEF SeqOfSeqs
<1>8. AllOf(s) = Tokens(text, 1, n)  BY <1>2, <1>3 DEF AllOf, Tokens
<1> QED  BY <1>5, <1>7, <1>8, Flattened DEF n

\* So does a passage of it.
LEMMA PassageTokens ==
  ASSUME NEW text, Reply!WellFormed(text), NEW lo \in DOMAIN text, NEW hi \in DOMAIN text, lo <= hi
  PROVE  /\ IsSeq(Reply!Passage(text, lo, hi))
         /\ Reply!ToSet(Reply!Passage(text, lo, hi)) = Tokens(text, lo, hi)
<1> DEFINE n == Len(text)
           t == SubSeq(text, lo, hi)
           m == hi - lo + 1
<1>1. n \in Nat /\ DOMAIN text = 1 .. n /\ text \in Seq(Reply!ToSet(text))
  BY LenProperties DEF Reply!WellFormed, Reply!IsSequence
<1>2. lo \in 1 .. n /\ hi \in 1 .. n /\ m \in Nat /\ lo >= 1 /\ hi <= n  BY <1>1
<1>3. DOMAIN t = 1 .. m /\ \A i \in 1 .. m : t[i] = text[lo + i - 1]
  <2>1. t = [i \in 1 .. m |-> text[lo + i - 1]]  BY <1>1, <1>2, SubSeqProperties
  <2> HIDE DEF t, m
  <2> QED  BY <2>1
<1>4. t = [i \in 1 .. m |-> t[i]]
  <2>1. t = [i \in 1 .. m |-> text[lo + i - 1]]  BY <1>1, <1>2, SubSeqProperties
  <2> HIDE DEF t, m
  <2> QED  BY <2>1
<1> HIDE DEF t
<1>5. IsSeq(t) /\ Len(t) = m  BY <1>2, <1>4, TupleIsSeq
<1>6. \A i \in 1 .. m : lo + i - 1 \in lo .. hi /\ lo + i - 1 \in DOMAIN text  BY <1>1, <1>2
<1>7. \A k \in lo .. hi : k - lo + 1 \in 1 .. m /\ lo + (k - lo + 1) - 1 = k  BY <1>2
<1>8. Reply!WellFormed(t)
  <2> HIDE DEF m
  <2>1. \A i \in DOMAIN t : Reply!IsSequence(t[i].tokens)  BY <1>3, <1>6 DEF Reply!WellFormed
  <2>2. Reply!IsSequence(t)  BY <1>5, Sequences
  <2> QED  BY <2>1, <2>2 DEF Reply!WellFormed
<1>9. Tokens(t, 1, m) = Tokens(text, lo, hi)
  <2> HIDE DEF m
  <2>1. ASSUME NEW x, NEW i \in 1 .. m, x \in Reply!ToSet(t[i].tokens)  PROVE  x \in Tokens(text, lo, hi)
    BY <1>3, <1>6, <2>1 DEF Tokens
  <2>2. ASSUME NEW x, NEW k \in lo .. hi, x \in Reply!ToSet(text[k].tokens)  PROVE  x \in Tokens(t, 1, m)
    BY <1>3, <1>7, <2>2 DEF Tokens
  <2> QED  BY <2>1, <2>2 DEF Tokens
<1>10. Reply!Passage(text, lo, hi) = Reply!WholeText(t)  BY DEF Reply!Passage, t
<1> QED  BY <1>5, <1>8, <1>9, <1>10, TextTokens

-----------------------------------------------------------------------------
\* A function has no more values than arguments.
LEMMA Images ==
  ASSUME NEW S, IsFiniteSet(S), NEW f
  PROVE  IsFiniteSet({f[x] : x \in S}) /\ Cardinality({f[x] : x \in S}) <= Cardinality(S)
<1> DEFINE T == {f[x] : x \in S}
           g == [x \in S |-> f[x]]
<1>1. g \in Surjection(S, T)  BY DEF Surjection
<1> HIDE DEF g, T
<1>2. IsFiniteSet(T) /\ Cardinality(T) <= Cardinality(S)  BY <1>1, FS_Surjection
<1> QED  BY <1>2 DEF T

\* Where the units of a text end, in order, and where each begins.
Ends(v, text) == {i \in DOMAIN text : i = Len(text) \/ text[i].ends \in Reply!Closing(v)}
Lasts(v, text) == Reply!Sorted(Ends(v, text), {p \in Ends(v, text) \X Ends(v, text) : p[1] < p[2]})
Begins(v, text, k) == IF k = 1 THEN 1 ELSE Lasts(v, text)[k - 1] + 1

\* The ends are in order, and there is none between.
LEMMA EndsInOrder ==
  ASSUME NEW text, Reply!WellFormed(text), NEW v
  PROVE  LET last == Lasts(v, text)
         IN /\ Len(last) \in Nat /\ DOMAIN last = 1 .. Len(last)
            /\ \A k \in DOMAIN last : last[k] \in Ends(v, text)
            /\ \A i \in Ends(v, text) : \E k \in DOMAIN last : last[k] = i
            /\ \A j, k \in DOMAIN last : j < k => last[j] < last[k]
<1> DEFINE S == Ends(v, text)
           R == {p \in S \X S : p[1] < p[2]}
           last == Lasts(v, text)
<1>1. Len(text) \in Nat /\ DOMAIN text = 1 .. Len(text)
  BY LenProperties DEF Reply!WellFormed, Reply!IsSequence
<1>2. S \in SUBSET (1 .. Len(text))  BY <1>1 DEF Ends
<1>3. last = Reply!Sorted(S, R)  BY DEF Lasts
<1> HIDE DEF S, last
<1>4. IsFiniteSet(S)
  <2>1. IsFiniteSet(1 .. Len(text))  BY <1>1, UpTo
  <2> QED  BY <1>2, <2>1, FS_Subset
<1>5. \A x \in S : x \in Int  BY <1>2
<1>6. \A x, y \in S : <<x, y>> \in R <=> x < y  OBVIOUS
<1> HIDE DEF R
<1>7. Orders(R, S)  BY <1>5, <1>6 DEF Orders
<1>8. Cardinality(S) \in Nat  BY <1>4, FS_CardinalityType
<1>9. /\ DOMAIN last = 1 .. Cardinality(S) /\ Len(last) = Cardinality(S)
      /\ \A i \in DOMAIN last : last[i] \in S
      /\ \A x \in S : \E i \in DOMAIN last : last[i] = x
      /\ \A i, j \in DOMAIN last : i < j => <<last[i], last[j]>> \in R
  BY <1>3, <1>4, <1>7, Sorting
<1>10. \A i, j \in DOMAIN last : i < j => last[i] < last[j]  BY <1>6, <1>9
<1> QED  BY <1>8, <1>9, <1>10 DEF S, last

\* The units are the passages from one end to the next, and nothing else.
LEMMA UnitsInOrder ==
  ASSUME NEW text, Reply!WellFormed(text), NEW v
  PROVE  LET last == Lasts(v, text)
             units == Reply!Units(v, text)
         IN /\ Len(last) \in Nat /\ DOMAIN last = 1 .. Len(last)
            /\ IsSeq(units) /\ DOMAIN units = DOMAIN last /\ Len(units) = Len(last)
            /\ \A k \in DOMAIN last :
                 /\ Begins(v, text, k) \in DOMAIN text /\ last[k] \in DOMAIN text
                 /\ Begins(v, text, k) <= last[k]
                 /\ units[k] = Reply!Passage(text, Begins(v, text, k), last[k])
            /\ \A j, k \in DOMAIN last : j < k => last[j] < Begins(v, text, k)
            /\ \A i \in DOMAIN text : \E k \in DOMAIN last : i \in Begins(v, text, k) .. last[k]
<1> DEFINE last == Lasts(v, text)
           units == Reply!Units(v, text)
           m == Len(last)
<1>1. Len(text) \in Nat /\ DOMAIN text = 1 .. Len(text)
  BY LenProperties DEF Reply!WellFormed, Reply!IsSequence
<1>2. /\ m \in Nat /\ DOMAIN last = 1 .. m
      /\ \A k \in DOMAIN last : last[k] \in Ends(v, text)
      /\ \A i \in Ends(v, text) : \E k \in DOMAIN last : last[k] = i
      /\ \A j, k \in DOMAIN last : j < k => last[j] < last[k]
  BY EndsInOrder
<1>3. units = [k \in DOMAIN last |-> Reply!Passage(text, Begins(v, text, k), last[k])]
  BY DEF Reply!Units, Reply!Passage, Begins, Lasts, Ends
<1> HIDE DEF units, last, m
<1>4. \A k \in DOMAIN last : last[k] \in DOMAIN text /\ last[k] \in 1 .. Len(text)
  BY <1>1, <1>2 DEF Ends
<1>5. \A k \in DOMAIN last : Begins(v, text, k) = IF k = 1 THEN 1 ELSE last[k - 1] + 1
  BY DEF Begins, last
<1>6. ASSUME NEW k \in DOMAIN last
      PROVE  Begins(v, text, k) \in DOMAIN text /\ Begins(v, text, k) <= last[k]
  <2>1. CASE k = 1  BY <1>1, <1>4, <1>5, <2>1
  <2>2. CASE k # 1
    <3>1. k - 1 \in DOMAIN last /\ k - 1 < k  BY <1>2, <2>2
    <3>2. last[k - 1] < last[k] /\ last[k - 1] \in 1 .. Len(text) /\ last[k] \in 1 .. Len(text)
      BY <1>2, <1>4, <3>1
    <3> QED  BY <1>1, <1>5, <2>2, <3>2
  <2> QED  BY <2>1, <2>2
<1>7. ASSUME NEW j \in DOMAIN last, NEW k \in DOMAIN last, j < k  PROVE  last[j] < Begins(v, text, k)
  <2>1. k # 1 /\ k - 1 \in DOMAIN last /\ (j = k - 1 \/ j < k - 1)  BY <1>2, <1>7
  <2>2. last[j] <= last[k - 1] /\ last[j] \in Int /\ last[k - 1] \in Int
    BY <1>2, <1>4, <2>1
  <2> QED  BY <1>5, <2>1, <2>2
<1>8. ASSUME NEW i \in DOMAIN text  PROVE  \E k \in DOMAIN last : i \in Begins(v, text, k) .. last[k]
  <2> DEFINE E == {e \in Ends(v, text) : e >= i}
             e == Reply!Min(E)
  <2>1. E \in SUBSET (1 .. Len(text)) /\ Len(text) \in E
    BY <1>1 DEF Ends
  <2> HIDE DEF E
  <2>2. e \in E /\ \A x \in E : e <= x  BY <1>1, <2>1, Least
  <2>3. e \in Ends(v, text) /\ e >= i  BY <2>2 DEF E
  <2>4. PICK k \in DOMAIN last : last[k] = e  BY <1>2, <2>3
  <2>5. Begins(v, text, k) <= i
    <3>1. CASE k = 1  BY <1>1, <1>5, <3>1
    <3>2. CASE k # 1
      <4>1. k - 1 \in DOMAIN last /\ k - 1 < k  BY <1>2, <3>2
      <4>2. last[k - 1] < last[k] /\ last[k - 1] \in Ends(v, text)  BY <1>2, <4>1
      <4>3. last[k - 1] \in Int /\ last[k] \in Int /\ i \in Int  BY <1>1, <1>4, <4>1
      <4>4. last[k - 1] \notin E  BY <2>2, <2>4, <4>2, <4>3
      <4>5. ~(last[k - 1] >= i)  BY <4>2, <4>4 DEF E
      <4> QED  BY <1>5, <3>2, <4>3, <4>5
    <3> QED  BY <3>1, <3>2
  <2>6. Begins(v, text, k) \in Int /\ last[k] \in Int /\ i \in Int  BY <1>1, <1>4, <1>6
  <2> QED  BY <2>3, <2>4, <2>5, <2>6
<1>9. IsSeq(units) /\ DOMAIN units = DOMAIN last /\ Len(units) = m
  <2>1. units = [k \in 1 .. m |-> units[k]]  BY <1>2, <1>3
  <2> QED  BY <1>2, <2>1, TupleIsSeq
<1>10. \A k \in DOMAIN last : units[k] = Reply!Passage(text, Begins(v, text, k), last[k])  BY <1>3
<1> QED  BY <1>2, <1>4, <1>6, <1>7, <1>8, <1>9, <1>10 DEF units, last, m

\* The units from a to b.
Between(s, a, b) == UNION {Reply!ToSet(s[j]) : j \in a .. b}

\* Units in a row hold what a passage holds, with no stop but theirs inside it.
LEMMA UnitsTogether ==
  ASSUME NEW text, Reply!WellFormed(text), NEW v,
         NEW a \in DOMAIN Reply!Units(v, text), NEW b \in DOMAIN Reply!Units(v, text), a <= b
  PROVE  \E lo, hi \in DOMAIN text :
           /\ lo <= hi /\ Reply!Stops(text, lo, hi) \in Nat /\ Reply!Stops(text, lo, hi) <= b - a
           /\ Between(Reply!Units(v, text), a, b) = Tokens(text, lo, hi)
<1> DEFINE last == Lasts(v, text)
           units == Reply!Units(v, text)
           F(k) == Begins(v, text, k)
           m == Len(last)
           lo == F(a)
           hi == last[b]
<1>1. /\ m \in Nat /\ DOMAIN last = 1 .. m /\ DOMAIN units = DOMAIN last
      /\ \A k \in DOMAIN last :
           /\ F(k) \in DOMAIN text /\ last[k] \in DOMAIN text /\ F(k) <= last[k]
           /\ units[k] = Reply!Passage(text, F(k), last[k])
      /\ \A j, k \in DOMAIN last : j < k => last[j] < F(k)
      /\ \A i \in DOMAIN text : \E k \in DOMAIN last : i \in F(k) .. last[k]
  BY UnitsInOrder
<1>2. DOMAIN text = 1 .. Len(text) /\ Len(text) \in Nat
  BY LenProperties DEF Reply!WellFormed, Reply!IsSequence
<1>3. \A i \in Ends(v, text) : \E k \in DOMAIN last : last[k] = i  BY EndsInOrder
<1> HIDE DEF last, units, F, m
<1>4. a \in DOMAIN last /\ b \in DOMAIN last /\ a \in Int /\ b \in Int  BY <1>1 DEF units
<1>5. \A k \in DOMAIN last : F(k) \in Int /\ last[k] \in Int /\ k \in Int  BY <1>1, <1>2
<1>6. lo \in DOMAIN text /\ hi \in DOMAIN text /\ lo <= hi
  <2>1. F(a) <= last[a] /\ F(b) <= last[b] /\ (a = b \/ last[a] < F(b))  BY <1>1, <1>4
  <2>2. F(a) \in Int /\ F(b) \in Int /\ last[a] \in Int /\ last[b] \in Int  BY <1>4, <1>5
  <2>3. F(a) <= last[b]  BY <2>1, <2>2
  <2> QED  BY <1>1, <1>4, <2>3
<1>7. \A k \in DOMAIN last : Reply!ToSet(units[k]) = Tokens(text, F(k), last[k])
  BY <1>1, PassageTokens
<1>8. ASSUME NEW j \in a .. b  PROVE  j \in DOMAIN last /\ F(j) .. last[j] \subseteq lo .. hi
  <2>1. j \in DOMAIN last  BY <1>1, <1>4
  <2>2. a = j \/ last[a] < F(j)  BY <1>1, <1>4, <2>1
  <2>3. b = j \/ last[j] < F(b)  BY <1>1, <1>4, <2>1
  <2>4. F(a) <= last[a] /\ F(b) <= last[b]  BY <1>1, <1>4
  <2>5. lo <= F(j) /\ last[j] <= hi  BY <1>4, <1>5, <2>1, <2>2, <2>3, <2>4
  <2>6. lo \in Int /\ hi \in Int /\ F(j) \in Int /\ last[j] \in Int  BY <1>4, <1>5, <2>1
  <2> HIDE DEF lo, hi
  <2> QED  BY <2>1, <2>5, <2>6
<1>9. ASSUME NEW i \in lo .. hi  PROVE  \E j \in a .. b : i \in F(j) .. last[j]
  <2>1. i \in DOMAIN text  BY <1>2, <1>6
  <2>2. PICK k \in DOMAIN last : i \in F(k) .. last[k]  BY <1>1, <2>1
  <2>3. ~(k < a)
    <3>1. k < a => last[k] < F(a)  BY <1>1, <1>4
    <3>2. lo <= i /\ i <= last[k] /\ last[k] \in Int /\ lo \in Int /\ i \in Int  BY <1>4, <1>5, <2>2
    <3> QED  BY <3>1, <3>2
  <2>4. ~(b < k)
    <3>1. b < k => last[b] < F(k)  BY <1>1, <1>4
    <3>2. F(k) <= i /\ i <= hi /\ F(k) \in Int /\ hi \in Int /\ i \in Int  BY <1>4, <1>5, <2>2
    <3> QED  BY <3>1, <3>2
  <2>5. k \in a .. b  BY <1>4, <1>5, <2>3, <2>4
  <2> QED  BY <2>2, <2>5
<1>10. Between(units, a, b) = Tokens(text, lo, hi)
  <2> HIDE DEF lo, hi
  <2>1. ASSUME NEW x \in Between(units, a, b)  PROVE  x \in Tokens(text, lo, hi)
    <3>1. PICK j \in a .. b : x \in Reply!ToSet(units[j])  BY DEF Between
    <3> QED  BY <1>7, <1>8, <3>1 DEF Tokens
  <2>2. ASSUME NEW x \in Tokens(text, lo, hi)  PROVE  x \in Between(units, a, b)
    <3>1. PICK i \in lo .. hi : x \in Reply!ToSet(text[i].tokens)  BY DEF Tokens
    <3>2. PICK j \in a .. b : i \in F(j) .. last[j]  BY <1>9
    <3> QED  BY <1>7, <1>8, <3>1, <3>2 DEF Tokens, Between
  <2> QED  BY <2>1, <2>2
<1>11. Reply!Stops(text, lo, hi) \in Nat /\ Reply!Stops(text, lo, hi) <= b - a
  <2> DEFINE C == {i \in lo .. hi - 1 : text[i].ends = "stop"}
             D == {last[j] : j \in a .. b - 1}
  <2>1. ASSUME NEW i \in C  PROVE  i \in D
    <3>1. i \in DOMAIN text /\ i < hi /\ lo <= i /\ i \in Int  BY <1>2, <1>6
    <3>2. i \in Ends(v, text)  BY <3>1 DEF Ends, Reply!Closing
    <3>3. PICK k \in DOMAIN last : last[k] = i  BY <1>3, <3>2
    <3>4. ~(k < a)  BY <1>1, <1>4, <1>5, <3>1, <3>3
    <3>5. k # b  BY <1>4, <1>5, <3>1, <3>3
    <3>6. ~(b < k)
      <4>1. b < k => last[b] < F(k) /\ F(k) <= last[k]  BY <1>1, <1>4
      <4> QED  BY <1>4, <1>5, <3>1, <3>3, <4>1
    <3>7. k \in a .. b - 1  BY <1>4, <1>5, <3>4, <3>5, <3>6
    <3> QED  BY <3>3, <3>7
  <2>2. IsFiniteSet(a .. b - 1) /\ Cardinality(a .. b - 1) = b - a
    <3>1. b - 1 \in Int /\ (a > b - 1 => b - a = 0) /\ (b - 1) - a + 1 = b - a  BY <1>4
    <3> QED  BY <1>4, <3>1, FS_Interval
  <2>3. IsFiniteSet(D) /\ Cardinality(D) <= b - a
    <3> DEFINE J == a .. b - 1
    <3>1. IsFiniteSet(J) /\ Cardinality(J) = b - a /\ D = {last[j] : j \in J}  BY <2>2
    <3> HIDE DEF J, D
    <3>2. IsFiniteSet(D) /\ Cardinality(D) <= Cardinality(J)  BY <3>1, Images
    <3> QED  BY <3>1, <3>2
  <2> HIDE DEF C, D
  <2>4. C \subseteq D  BY <2>1
  <2>5. IsFiniteSet(C) /\ Cardinality(C) <= Cardinality(D)  BY <2>3, <2>4, FS_Subset
  <2>6. Cardinality(C) \in Nat /\ Cardinality(D) \in Nat  BY <2>3, <2>5, FS_CardinalityType
  <2>7. Reply!Stops(text, lo, hi) = Cardinality(C)
    BY SameSize DEF Reply!Stops, C
  <2>8. Cardinality(C) <= b - a  BY <1>4, <2>3, <2>5, <2>6
  <2> QED  BY <2>6, <2>7, <2>8
<1> QED  BY <1>6, <1>10, <1>11 DEF units

-----------------------------------------------------------------------------
\* The anchors of a fact are among the tokens, and a value of its type is.
HoldsAnchors(fact, X) ==
  IF fact.entities # {} THEN fact.entities \subseteq X
  ELSE fact.keywords = {} \/ Reply!Cardinality(fact.keywords \cap X) >= Reply!RequiredHits(fact.keywords)
HoldsValue(v, fact, X) == fact.type # Reply!NoType => \E t \in X : t[1] \in Reply!Accepts(v, fact.type)
Holds(v, fact, X) == HoldsAnchors(fact, X) /\ HoldsValue(v, fact, X)

\* More tokens hold no less.
LEMMA HoldsMore ==
  ASSUME NEW v, NEW fact, IsFiniteSet(fact.keywords), NEW X, NEW Y, X \subseteq Y, Holds(v, fact, X)
  PROVE  Holds(v, fact, Y)
<1> DEFINE K == fact.keywords
           n == Cardinality(K \cap X)
           m == Cardinality(K \cap Y)
<1>1. IsFiniteSet(K \cap X) /\ IsFiniteSet(K \cap Y)  BY FS_Subset
<1>2. (K \cap X) \in SUBSET (K \cap Y)  OBVIOUS
<1>3. n <= m /\ n \in Nat /\ m \in Nat  BY <1>1, <1>2, FS_Subset, FS_CardinalityType
<1>4. Reply!RequiredHits(K) \in Nat  BY DEF Reply!RequiredHits
<1>5. Reply!Cardinality(K \cap X) = n /\ Reply!Cardinality(K \cap Y) = m  BY SameSize
<1> DEFINE r == Reply!RequiredHits(K)
<1> HIDE DEF K, n, m, r
<1>6. n >= r => m >= r  BY <1>3, <1>4 DEF r
<1> QED  BY <1>5, <1>6 DEF Holds, HoldsAnchors, HoldsValue, K, r

\* A sequence of tokens shows a fact when they hold it.
LEMMA ShowsWhatItHolds ==
  ASSUME NEW v, NEW fact, NEW w
  PROVE  Reply!Shows(v, fact, w) <=> Holds(v, fact, Reply!ToSet(w))
<1>1. Reply!Anchored(fact, w) <=> HoldsAnchors(fact, Reply!ToSet(w))
  BY DEF Reply!Anchored, Reply!Hits, HoldsAnchors
<1>2. Reply!ValuePositions(v, fact.type, w) # {}
        <=> \E t \in Reply!ToSet(w) : t[1] \in Reply!Accepts(v, fact.type)
  BY DEF Reply!ValuePositions, Reply!ToSet
<1> QED  BY <1>1, <1>2 DEF Reply!Shows, Holds, HoldsValue

\* The value matched in a sequence is one of its tokens, of the type.
LEMMA ValueMatched ==
  ASSUME NEW v, NEW fact, NEW w, IsSeq(w)
  PROVE  LET value == Reply!MatchedValue(v, fact, w)
         IN /\ Reply!ValuePositions(v, fact.type, w) = {} => value = Reply!NoValue
            /\ Reply!ValuePositions(v, fact.type, w) # {} =>
                 value \in Reply!ToSet(w) /\ value[1] \in Reply!Accepts(v, fact.type)
<1> DEFINE at == Reply!ValuePositions(v, fact.type, w)
           value == Reply!MatchedValue(v, fact, w)
           anchor == Reply!AnchorAt(fact, w)
           Nearest(i) == \A j \in at : \/ Reply!Distance(i, anchor) < Reply!Distance(j, anchor)
                                       \/ Reply!Distance(i, anchor) = Reply!Distance(j, anchor) /\ i <= j
<1>1. Len(w) \in Nat /\ DOMAIN w = 1 .. Len(w)  BY LenProperties DEF IsSeq
<1>2. at \in SUBSET (1 .. Len(w))  BY <1>1 DEF Reply!ValuePositions
<1>3. \A i \in at : w[i] \in Reply!ToSet(w) /\ w[i][1] \in Reply!Accepts(v, fact.type)
  BY DEF Reply!ValuePositions, Reply!ToSet
<1>4. value = CASE at = {}              -> Reply!NoValue
                [] at # {} /\ v = "v1" -> w[Reply!Min(at)]
                [] OTHER                -> w[CHOOSE i \in at : Nearest(i)]
  BY DEF Reply!MatchedValue
<1>5. anchor \in Nat
  <2> DEFINE anchors == IF fact.entities # {} THEN fact.entities ELSE fact.keywords
             A == {i \in DOMAIN w : w[i] \in anchors}
  <2>1. A \in SUBSET (1 .. Len(w))  BY <1>1
  <2>2. anchor = IF A = {} THEN 1 ELSE Reply!Min(A)  BY DEF Reply!AnchorAt
  <2> HIDE DEF A, anchor
  <2>3. A # {} => Reply!Min(A) \in A  BY <1>1, <2>1, Least
  <2> QED  BY <2>1, <2>2, <2>3
<1> HIDE DEF at, value, anchor
<1>6. ASSUME at # {}  PROVE  \E i \in at : Nearest(i)
  <2> DEFINE d == [i \in at |-> Reply!Distance(i, anchor)]
             D == {d[i] : i \in at}
  <2>1. \A i \in at : d[i] = Reply!Distance(i, anchor) /\ d[i] \in Int
    BY <1>2, <1>5 DEF Reply!Distance
  <2> HIDE DEF d
  <2>2. IsFiniteSet(at)
    <3>1. IsFiniteSet(1 .. Len(w))  BY <1>1, UpTo
    <3> QED  BY <1>2, <3>1, FS_Subset
  <2>3. IsFiniteSet(D)  BY <2>2, Images
  <2>4. D \in SUBSET Int /\ D # {}  BY <1>6, <2>1
  <2> DEFINE c == Reply!Min(D)
  <2>5. c \in D /\ \A x \in D : c <= x
    <3> HIDE DEF D
    <3> QED  BY <2>3, <2>4, Extremes
  <2> HIDE DEF c
  <2> DEFINE C == {i \in at : d[i] = c}
  <2>6. C \in SUBSET (1 .. Len(w)) /\ C # {}  BY <1>2, <2>5
  <2> DEFINE i == Reply!Min(C)
  <2>7. i \in C /\ \A x \in C : i <= x
    <3> HIDE DEF C
    <3> QED  BY <1>1, <2>6, Least
  <2> HIDE DEF i
  <2>8. i \in at /\ d[i] = c /\ d[i] \in Int  BY <2>1, <2>7
  <2>9. ASSUME NEW j \in at  PROVE  d[i] < d[j] \/ (d[i] = d[j] /\ i <= j)
    <3>1. d[j] \in D /\ d[j] \in Int /\ c <= d[j]  BY <2>1, <2>5
    <3>2. d[j] = c => i <= j  BY <2>7
    <3> QED  BY <2>8, <3>1, <3>2
  <2>10. Nearest(i)  BY <2>1, <2>8, <2>9
  <2> HIDE DEF Nearest
  <2> QED  BY <2>8, <2>10
<1> HIDE DEF Nearest
<1>7. ASSUME at # {}  PROVE  \E i \in at : value = w[i]
  <2>1. CASE v = "v1"
    <3>1. Reply!Min(at) \in at  BY <1>1, <1>2, <1>7, Least
    <3> QED  BY <1>4, <1>7, <2>1, <3>1
  <2>2. CASE v # "v1"
    <3>1. (CHOOSE i \in at : Nearest(i)) \in at  BY <1>6, <1>7
    <3> QED  BY <1>4, <1>7, <2>2, <3>1
  <2> QED  BY <2>1, <2>2
<1>8. at = {} => value = Reply!NoValue  BY <1>4
<1> QED  BY <1>3, <1>7, <1>8 DEF at, value

-----------------------------------------------------------------------------
\* A part of a sequence of sequences holds what is between its ends.
LEMMA SliceTokens ==
  ASSUME NEW s, SeqOfSeqs(s), NEW a \in DOMAIN s, NEW b \in DOMAIN s, a <= b
  PROVE  SeqOfSeqs(SubSeq(s, a, b)) /\ AllOf(SubSeq(s, a, b)) = Between(s, a, b)
<1> DEFINE t == SubSeq(s, a, b)
           m == b - a + 1
           S == {s[i] : i \in DOMAIN s}
<1>1. s \in Seq(S) /\ Len(s) \in Nat /\ DOMAIN s = 1 .. Len(s)
  BY LenProperties DEF SeqOfSeqs, IsSeq
<1>2. a \in 1 .. Len(s) /\ b \in 1 .. Len(s) /\ m \in Nat /\ a \in Int /\ b \in Int  BY <1>1
<1> HIDE DEF S
<1>3. t = [i \in 1 .. m |-> s[a + i - 1]]  BY <1>1, <1>2, SubSeqProperties
<1> HIDE DEF t, m
<1>4. DOMAIN t = 1 .. m /\ t = [i \in 1 .. m |-> t[i]] /\ \A i \in 1 .. m : t[i] = s[a + i - 1]
  BY <1>3
<1>5. IsSeq(t)  BY <1>2, <1>4, TupleIsSeq
<1>6. \A i \in 1 .. m : a + i - 1 \in a .. b /\ a + i - 1 \in DOMAIN s  BY <1>1, <1>2 DEF m
<1>7. \A k \in a .. b : k - a + 1 \in 1 .. m /\ a + (k - a + 1) - 1 = k  BY <1>2 DEF m
<1>8. SeqOfSeqs(t)  BY <1>4, <1>5, <1>6 DEF SeqOfSeqs
<1>9. ASSUME NEW x \in AllOf(t)  PROVE  x \in Between(s, a, b)
  BY <1>4, <1>6 DEF AllOf, Between
<1>10. ASSUME NEW x \in Between(s, a, b)  PROVE  x \in AllOf(t)
  BY <1>4, <1>7 DEF AllOf, Between
<1> QED  BY <1>8, <1>9, <1>10 DEF t

\* What a window holds: a row of sentences with at most two stops, and the title.
IsWindow(text, title, w) ==
  /\ IsSeq(w)
  /\ \E lo, hi \in DOMAIN text :
       /\ lo <= hi /\ Reply!Stops(text, lo, hi) \in Nat /\ Reply!Stops(text, lo, hi) <= 2
       /\ Reply!ToSet(w) = Tokens(text, lo, hi) \cup Reply!ToSet(title)

\* The windows of a text are windows, and each sentence is in a tight one.
LEMMA WindowsOfText ==
  ASSUME NEW text, Reply!WellFormed(text), NEW v, NEW title, IsSeq(title)
  PROVE  LET units   == Reply!Units(v, text)
             windows == Reply!Windows(units, title)
         IN /\ DOMAIN windows.tight = DOMAIN units /\ DOMAIN windows.wide = DOMAIN units
            /\ DOMAIN units = 1 .. Len(units) /\ Len(units) \in Nat
            /\ \A k \in DOMAIN units : /\ IsWindow(text, title, windows.tight[k])
                                       /\ IsWindow(text, title, windows.wide[k])
            /\ \A i \in DOMAIN text : \E k \in DOMAIN units :
                 Reply!ToSet(text[i].tokens) \cup Reply!ToSet(title) \subseteq Reply!ToSet(windows.tight[k])
<1> DEFINE units   == Reply!Units(v, text)
           windows == Reply!Windows(units, title)
           n == Len(units)
           A(k) == IF k > 1 THEN k - 1 ELSE 1
           B(k) == IF k + 1 < n THEN k + 1 ELSE n
           last == Lasts(v, text)
           F(k) == Begins(v, text, k)
<1>1. /\ IsSeq(units) /\ DOMAIN units = 1 .. n /\ n \in Nat /\ DOMAIN last = DOMAIN units
      /\ \A k \in DOMAIN units :
           /\ F(k) \in DOMAIN text /\ last[k] \in DOMAIN text /\ F(k) <= last[k]
           /\ units[k] = Reply!Passage(text, F(k), last[k])
      /\ \A i \in DOMAIN text : \E k \in DOMAIN units : i \in F(k) .. last[k]
  BY UnitsInOrder
<1>2. /\ windows.tight = [k \in DOMAIN units |-> units[k] \o title]
      /\ windows.wide = [k \in DOMAIN units |-> Reply!FlattenSeq(SubSeq(units, A(k), B(k))) \o title]
  BY DEF Reply!Windows, Reply!Proximity
<1> HIDE DEF units, windows, n, last, F
<1>3. \A k \in DOMAIN units : IsSeq(units[k]) /\ Reply!ToSet(units[k]) = Tokens(text, F(k), last[k])
  BY <1>1, PassageTokens
<1>4. SeqOfSeqs(units)  BY <1>1, <1>3 DEF SeqOfSeqs
<1>5. ASSUME NEW k \in DOMAIN units
      PROVE  /\ A(k) \in DOMAIN units /\ B(k) \in DOMAIN units
             /\ A(k) <= B(k) /\ B(k) - A(k) <= 2 /\ A(k) \in Int /\ B(k) \in Int
  <2>1. DOMAIN units = 1 .. n /\ n \in Nat /\ k \in 1 .. n  BY <1>1
  <2> QED  BY <2>1
<1>6. \A a, b \in DOMAIN units : a <= b =>
        \E lo, hi \in DOMAIN text :
           /\ lo <= hi /\ Reply!Stops(text, lo, hi) \in Nat /\ Reply!Stops(text, lo, hi) <= b - a
           /\ Between(units, a, b) = Tokens(text, lo, hi)
  BY UnitsTogether DEF units
<1> HIDE DEF A, B
<1>7. ASSUME NEW k \in DOMAIN units  PROVE  IsWindow(text, title, windows.tight[k])
  <2>1. windows.tight[k] = units[k] \o title  BY <1>2
  <2> DEFINE w == units[k] \o title
  <2>2. IsSeq(w) /\ Reply!ToSet(w) = Reply!ToSet(units[k]) \cup Reply!ToSet(title)
    BY <1>3, Concatenated
  <2> HIDE DEF w
  <2>3. k <= k /\ k - k = 0
    <3>1. k \in 1 .. n /\ n \in Nat  BY <1>1
    <3> QED  BY <3>1
  <2>4. PICK lo, hi \in DOMAIN text :
          /\ lo <= hi /\ Reply!Stops(text, lo, hi) \in Nat /\ Reply!Stops(text, lo, hi) <= k - k
          /\ Between(units, k, k) = Tokens(text, lo, hi)
    BY <1>6, <2>3
  <2>5. k .. k = {k}  BY <1>1
  <2>6. Between(units, k, k) = Reply!ToSet(units[k])  BY <2>5 DEF Between
  <2>7. Reply!Stops(text, lo, hi) <= 2  BY <2>3, <2>4
  <2> QED  BY <2>1, <2>2, <2>4, <2>6, <2>7 DEF IsWindow, w
<1>8. ASSUME NEW k \in DOMAIN units  PROVE  IsWindow(text, title, windows.wide[k])
  <2> DEFINE s == SubSeq(units, A(k), B(k))
             w == Reply!FlattenSeq(s) \o title
  <2>1. windows.wide[k] = w  BY <1>2
  <2>2. SeqOfSeqs(s) /\ AllOf(s) = Between(units, A(k), B(k))  BY <1>4, <1>5, SliceTokens
  <2> HIDE DEF s
  <2>3. IsSeq(Reply!FlattenSeq(s)) /\ Reply!ToSet(Reply!FlattenSeq(s)) = AllOf(s)  BY <2>2, Flattened
  <2>4. IsSeq(w) /\ Reply!ToSet(w) = AllOf(s) \cup Reply!ToSet(title)  BY <2>3, Concatenated
  <2> HIDE DEF w
  <2>5. PICK lo, hi \in DOMAIN text :
          /\ lo <= hi /\ Reply!Stops(text, lo, hi) \in Nat /\ Reply!Stops(text, lo, hi) <= B(k) - A(k)
          /\ Between(units, A(k), B(k)) = Tokens(text, lo, hi)
    BY <1>5, <1>6
  <2>6. Reply!Stops(text, lo, hi) <= 2  BY <1>5, <2>5
  <2> QED  BY <2>1, <2>2, <2>4, <2>5, <2>6 DEF IsWindow
<1>9. ASSUME NEW i \in DOMAIN text
      PROVE  \E k \in DOMAIN units :
        Reply!ToSet(text[i].tokens) \cup Reply!ToSet(title) \subseteq Reply!ToSet(windows.tight[k])
  <2>1. PICK k \in DOMAIN units : i \in F(k) .. last[k]  BY <1>1
  <2>2. Reply!ToSet(text[i].tokens) \subseteq Reply!ToSet(units[k])  BY <1>3, <2>1 DEF Tokens
  <2> DEFINE w == units[k] \o title
  <2>3. Reply!ToSet(w) = Reply!ToSet(units[k]) \cup Reply!ToSet(title)
    BY <1>3, Concatenated
  <2>4. windows.tight[k] = w  BY <1>2
  <2> HIDE DEF w
  <2> QED  BY <2>2, <2>3, <2>4
<1>10. DOMAIN windows.tight = DOMAIN units /\ DOMAIN windows.wide = DOMAIN units  BY <1>2
<1> QED  BY <1>1, <1>7, <1>8, <1>9, <1>10 DEF units, windows, n

-----------------------------------------------------------------------------
\* The title counts where entities are asked for.
TitleFor(fact, title) == IF fact.entities # {} THEN title ELSE <<>>

\* A chunk supports a fact directly only when a row of sentences with at most two
\* stops holds it, and it does when one sentence holds it; the value is of the
\* type, and from the chunk or its title.
LEMMA SupportIsTrue ==
  ASSUME NEW text, Reply!WellFormed(text), NEW v, NEW title, IsSeq(title),
         NEW fact, IsFiniteSet(fact.keywords)
  PROVE  LET s == Reply!ChunkSupport(v, fact, text, title)
             T == Reply!ToSet(TitleFor(fact, title))
         IN /\ s.outcome = "direct_support" =>
                 /\ \E lo, hi \in DOMAIN text :
                      /\ lo <= hi /\ Reply!Stops(text, lo, hi) \in Nat /\ Reply!Stops(text, lo, hi) <= 2
                      /\ Holds(v, fact, Tokens(text, lo, hi) \cup T)
                 /\ s.value # Reply!NoValue \/ fact.type # Reply!NoType =>
                      /\ s.value \in Tokens(text, 1, Len(text)) \cup T
                      /\ s.value[1] \in Reply!Accepts(v, fact.type)
            /\ (\E i \in DOMAIN text : Holds(v, fact, Reply!ToSet(text[i].tokens) \cup T)) =>
                 s.outcome = "direct_support"
<1> DEFINE title2  == TitleFor(fact, title)
           T       == Reply!ToSet(title2)
           s       == Reply!ChunkSupport(v, fact, text, title)
           units   == Reply!Units(v, text)
           windows == Reply!Windows(units, title2)
           Showing(texts) == {i \in DOMAIN texts : Reply!Shows(v, fact, texts[i])}
           Of(texts, i) == Reply!Support(v, units[i], fact, texts[i])
           tight == windows.tight
           wide  == windows.wide
<1>1. IsSeq(title2)  BY DEF TitleFor, IsSeq
<1>2. s = IF Showing(tight) # {} THEN Of(tight, Reply!Min(Showing(tight)))
          ELSE IF Showing(wide) # {} THEN Of(wide, Reply!Min(Showing(wide)))
          ELSE Reply!NoSupport(fact, windows.whole)
  BY DEF Reply!ChunkSupport, Reply!SupportIn, Reply!FirstSupport, TitleFor
<1> HIDE DEF title2
<1>3. /\ DOMAIN tight = DOMAIN units /\ DOMAIN wide = DOMAIN units
      /\ DOMAIN units = 1 .. Len(units) /\ Len(units) \in Nat
      /\ \A k \in DOMAIN units : IsWindow(text, title2, tight[k]) /\ IsWindow(text, title2, wide[k])
      /\ \A i \in DOMAIN text : \E k \in DOMAIN units :
           Reply!ToSet(text[i].tokens) \cup T \subseteq Reply!ToSet(tight[k])
  BY <1>1, WindowsOfText
<1> DEFINE whole == windows.whole
<1> HIDE DEF units, windows, s, tight, wide, whole
<1>4. ASSUME NEW w, IsWindow(text, title2, w), Reply!Shows(v, fact, w), NEW sentence,
             s = Reply!Support(v, sentence, fact, w)
      PROVE  /\ s.outcome = "direct_support"
             /\ \E lo, hi \in DOMAIN text :
                  /\ lo <= hi /\ Reply!Stops(text, lo, hi) \in Nat /\ Reply!Stops(text, lo, hi) <= 2
                  /\ Holds(v, fact, Tokens(text, lo, hi) \cup T)
             /\ s.value # Reply!NoValue \/ fact.type # Reply!NoType =>
                  /\ s.value \in Tokens(text, 1, Len(text)) \cup T
                  /\ s.value[1] \in Reply!Accepts(v, fact.type)
  <2>1. s.outcome = "direct_support" /\ s.value = Reply!MatchedValue(v, fact, w)
    BY <1>4 DEF Reply!Support
  <2>2. PICK lo, hi \in DOMAIN text :
           /\ lo <= hi /\ Reply!Stops(text, lo, hi) \in Nat /\ Reply!Stops(text, lo, hi) <= 2
           /\ Reply!ToSet(w) = Tokens(text, lo, hi) \cup T
    BY <1>4 DEF IsWindow
  <2>3. Holds(v, fact, Reply!ToSet(w))  BY <1>4, ShowsWhatItHolds
  <2>4. IsSeq(w)  BY <1>4 DEF IsWindow
  <2>5. lo .. hi \subseteq 1 .. Len(text)
    <3>1. Len(text) \in Nat /\ DOMAIN text = 1 .. Len(text)
      BY LenProperties DEF Reply!WellFormed, Reply!IsSequence
    <3> QED  BY <2>2, <3>1
  <2>6. Reply!ToSet(w) \subseteq Tokens(text, 1, Len(text)) \cup T
    BY <2>2, <2>5 DEF Tokens
  <2>7. ASSUME s.value # Reply!NoValue \/ fact.type # Reply!NoType
        PROVE  s.value \in Reply!ToSet(w) /\ s.value[1] \in Reply!Accepts(v, fact.type)
    <3>1. fact.type # Reply!NoType => Reply!ValuePositions(v, fact.type, w) # {}
      BY <1>4 DEF Reply!Shows
    <3>2. Reply!ValuePositions(v, fact.type, w) # {}  BY <2>1, <2>4, <2>7, <3>1, ValueMatched
    <3> QED  BY <2>1, <2>4, <3>2, ValueMatched
  <2> QED  BY <2>1, <2>2, <2>3, <2>6, <2>7
<1>5. ASSUME NEW texts, DOMAIN texts = DOMAIN units, Showing(texts) # {},
             \A k \in DOMAIN units : IsWindow(text, title2, texts[k]),
             s = Of(texts, Reply!Min(Showing(texts)))
      PROVE  \E w, sentence : /\ IsWindow(text, title2, w) /\ Reply!Shows(v, fact, w)
                              /\ s = Reply!Support(v, sentence, fact, w)
  <2> DEFINE S == Showing(texts)
             k == Reply!Min(S)
  <2>1. S \in SUBSET (1 .. Len(units)) /\ S # {}  BY <1>3, <1>5
  <2>2. k \in S
    <3> HIDE DEF S
    <3> QED  BY <1>3, <2>1, Least
  <2>3. k \in DOMAIN texts /\ Reply!Shows(v, fact, texts[k])  BY <2>2
  <2> HIDE DEF k
  <2> QED  BY <1>5, <2>3 DEF k
<1>6. s.outcome = "direct_support" => Showing(tight) # {} \/ Showing(wide) # {}
  <2>1. Reply!NoSupport(fact, whole).outcome # "direct_support"
    <3>1. Reply!NoSupport(fact, whole).outcome = Reply!NearMiss(fact, whole)  BY DEF Reply!NoSupport
    <3>2. Reply!NearMiss(fact, whole) # "direct_support"  BY DEF Reply!NearMiss
    <3> QED  BY <3>1, <3>2
  <2> QED  BY <1>2, <2>1 DEF whole
<1>7. Showing(tight) # {} \/ Showing(wide) # {} =>
        \E w, sentence : /\ IsWindow(text, title2, w) /\ Reply!Shows(v, fact, w)
                         /\ s = Reply!Support(v, sentence, fact, w)
  <2>1. CASE Showing(tight) # {}
    <3>1. s = Of(tight, Reply!Min(Showing(tight)))  BY <1>2, <2>1
    <3> HIDE DEF Of, Showing
    <3> QED  BY <1>3, <1>5, <2>1, <3>1
  <2>2. CASE Showing(tight) = {} /\ Showing(wide) # {}
    <3>1. s = Of(wide, Reply!Min(Showing(wide)))  BY <1>2, <2>2
    <3> HIDE DEF Of, Showing
    <3> QED  BY <1>3, <1>5, <2>2, <3>1
  <2> HIDE DEF Of, Showing
  <2> QED  BY <2>1, <2>2
<1>8. ASSUME NEW i \in DOMAIN text, Holds(v, fact, Reply!ToSet(text[i].tokens) \cup T)
      PROVE  Showing(tight) # {}
  <2>1. PICK k \in DOMAIN units : Reply!ToSet(text[i].tokens) \cup T \subseteq Reply!ToSet(tight[k])
    BY <1>3
  <2>2. Holds(v, fact, Reply!ToSet(tight[k]))  BY <1>8, <2>1, HoldsMore
  <2>3. Reply!Shows(v, fact, tight[k])  BY <2>2, ShowsWhatItHolds
  <2> QED  BY <1>3, <2>3
<1> HIDE DEF Showing, Of, T
<1> QED  BY <1>4, <1>6, <1>7, <1>8 DEF s, T, title2

-----------------------------------------------------------------------------
\* A block that the verifiers and the constraints may be given.
GoodBlock(b) ==
  /\ b.chunk \in Chunks /\ Reply!WellFormed(b.text)
  /\ allowed = Unscoped \/ DocOf[b.chunk] \in allowed
  /\ setup.pipeline = "dense" => b.score >= setup.floor
  /\ \A i \in DOMAIN b.text : ~b.text[i].injected

\* The fact that was asked for, whatever the best score.
LEMMA SameFact ==
  ASSUME NEW best, Posed
  PROVE  LET f == Reply!RequestedFact(setup.verifier, Reply!question, best)
         IN /\ f.entities = Reply!Fact.entities /\ f.keywords = Reply!Fact.keywords
            /\ f.type = Reply!Fact.type
            /\ Reply!Specific(f) <=> Reply!Specific(Reply!Fact)
            /\ f.offTopic => ~Reply!Specific(Reply!Fact)
            /\ IsFiniteSet(f.keywords)
<1>1. IsFiniteSet(Reply!question.keywords)
  <2>1. PICK r \in Requests : case = r.case  BY DEF Posed
  <2>2. IsFiniteSet(r.case.question.keywords)  BY Constants
  <2> QED  BY <2>1, <2>2 DEF Reply!question
<1>2. IsFiniteSet({})  BY FS_EmptySet
<1> QED  BY <1>1, <1>2 DEF Reply!RequestedFact, Reply!Fact, Reply!Specific

\* A passage and a title state the fact when they hold it.
LEMMA StatesWhatItHolds ==
  ASSUME NEW p, NEW b
  PROVE  Reply!States(p, Reply!TitleOf(b))
           <=> Holds(setup.verifier, Reply!Fact, Reply!ToSet(p) \cup Reply!TitleOf(b))
<1> DEFINE fact == Reply!Fact
           X == Reply!ToSet(p)
           T == Reply!TitleOf(b)
<1>1. fact.entities = {} => T = {}  BY DEF Reply!TitleOf
<1>2. Reply!Hits(fact.keywords, p) = Reply!Cardinality(fact.keywords \cap X)  BY DEF Reply!Hits
<1>3. Reply!States(p, T) <=>
        /\ IF fact.entities # {} THEN fact.entities \subseteq X \cup T
           ELSE fact.keywords = {} \/ Reply!Hits(fact.keywords, p) >= Reply!RequiredHits(fact.keywords)
        /\ fact.type = Reply!NoType \/ \E t \in X \cup T : t[1] \in Reply!Accepts(setup.verifier, fact.type)
  BY DEF Reply!States
<1> HIDE DEF fact, X, T
<1>4. X \cup {} = X  OBVIOUS
<1>5. HoldsAnchors(fact, X \cup T) <=>
        IF fact.entities # {} THEN fact.entities \subseteq X \cup T
        ELSE fact.keywords = {} \/ Reply!Hits(fact.keywords, p) >= Reply!RequiredHits(fact.keywords)
  BY <1>1, <1>2, <1>4 DEF HoldsAnchors
<1> QED  BY <1>3, <1>5 DEF Holds, HoldsValue, fact, X, T

\* What the support of one block says of it.
LEMMA BlockSupport ==
  ASSUME Posed, NEW b, GoodBlock(b), NEW best
  PROVE  LET s == Reply!ChunkSupport(setup.verifier,
                    Reply!RequestedFact(setup.verifier, Reply!question, best), b.text, Titles[DocOf[b.chunk]])
         IN /\ s.outcome = "direct_support" =>
                 /\ Reply!StatesWithin(b, 3)
                 /\ s.value # Reply!NoValue \/ Reply!Fact.type # Reply!NoType => s.value \in Reply!ValuesIn(b)
            /\ Reply!StatesOutright(b) => s.outcome = "direct_support"
<1> DEFINE v == setup.verifier
           fact == Reply!RequestedFact(v, Reply!question, best)
           title == Titles[DocOf[b.chunk]]
           text == b.text
           s == Reply!ChunkSupport(v, fact, text, title)
           T == Reply!ToSet(TitleFor(fact, title))
           F == Reply!Fact
<1>1. /\ fact.entities = F.entities /\ fact.keywords = F.keywords /\ fact.type = F.type
      /\ IsFiniteSet(fact.keywords)
  BY SameFact
<1>2. Reply!WellFormed(text)  BY DEF GoodBlock
<1>3. IsSeq(title)
  <2>1. DocOf[b.chunk] \in Reply!Docs  BY DEF GoodBlock, Reply!Docs
  <2>2. Reply!IsSequence(title)  BY <2>1, AnsweringAssumption DEF Reply!Admissible
  <2> QED  BY <2>2, Sequences
<1>4. T = Reply!TitleOf(b)
  <2>1. Reply!ToSet(<<>>) = {}  BY DEF Reply!ToSet
  <2> QED  BY <1>1, <2>1 DEF TitleFor, Reply!TitleOf
<1> HIDE DEF fact, title, T, F, s
<1>5. \A X : Holds(v, fact, X) <=> Holds(v, F, X)
  BY <1>1 DEF Holds, HoldsAnchors, HoldsValue
<1>6. /\ s.outcome = "direct_support" =>
           /\ \E lo, hi \in DOMAIN text :
                /\ lo <= hi /\ Reply!Stops(text, lo, hi) \in Nat /\ Reply!Stops(text, lo, hi) <= 2
                /\ Holds(v, fact, Tokens(text, lo, hi) \cup T)
           /\ s.value # Reply!NoValue \/ fact.type # Reply!NoType =>
                /\ s.value \in Tokens(text, 1, Len(text)) \cup T
                /\ s.value[1] \in Reply!Accepts(v, fact.type)
      /\ (\E i \in DOMAIN text : Holds(v, fact, Reply!ToSet(text[i].tokens) \cup T)) =>
           s.outcome = "direct_support"
  <2> HIDE DEF v, text
  <2> QED  BY <1>1, <1>2, <1>3, SupportIsTrue DEF s, T
<1>7. ASSUME s.outcome = "direct_support"  PROVE  Reply!StatesWithin(b, 3)
  <2>1. PICK lo, hi \in DOMAIN text :
          /\ lo <= hi /\ Reply!Stops(text, lo, hi) \in Nat /\ Reply!Stops(text, lo, hi) <= 2
          /\ Holds(v, fact, Tokens(text, lo, hi) \cup T)
    BY <1>6, <1>7
  <2>2. Reply!Stops(text, lo, hi) < 3  BY <2>1
  <2>3. Reply!ToSet(Reply!Passage(text, lo, hi)) = Tokens(text, lo, hi)  BY <1>2, <2>1, PassageTokens
  <2>4. Reply!States(Reply!Passage(text, lo, hi), Reply!TitleOf(b))
    BY <1>4, <1>5, <2>1, <2>3, StatesWhatItHolds DEF F
  <2> QED  BY <2>1, <2>2, <2>4 DEF Reply!StatesWithin
<1>8. ASSUME s.outcome = "direct_support", s.value # Reply!NoValue \/ F.type # Reply!NoType
      PROVE  s.value \in Reply!ValuesIn(b)
  <2>1. Reply!ToSet(Reply!WholeText(text)) = Tokens(text, 1, Len(text))  BY <1>2, TextTokens
  <2>2. s.value \in Tokens(text, 1, Len(text)) \cup T /\ s.value[1] \in Reply!Accepts(v, F.type)
    BY <1>1, <1>6, <1>8
  <2> QED  BY <1>4, <2>1, <2>2 DEF Reply!ValuesIn, F
<1>9. ASSUME Reply!StatesOutright(b)  PROVE  s.outcome = "direct_support"
  <2>1. PICK i \in DOMAIN text : Reply!States(text[i].tokens, Reply!TitleOf(b))
    BY <1>9 DEF Reply!StatesOutright
  <2>2. Holds(v, fact, Reply!ToSet(text[i].tokens) \cup T)
    BY <1>4, <1>5, <2>1, StatesWhatItHolds DEF F
  <2> QED  BY <1>6, <2>2
<1> QED  BY <1>7, <1>8, <1>9 DEF s, fact, F, title

-----------------------------------------------------------------------------
\* The values of a block are finitely many.
LEMMA FiniteValues ==
  ASSUME Posed, NEW b, GoodBlock(b)
  PROVE  IsFiniteSet(Reply!ValuesIn(b))
<1> DEFINE w == Reply!WholeText(b.text)
           title == Titles[DocOf[b.chunk]]
<1>1. \A s : IsSeq(s) => IsFiniteSet(Reply!ToSet(s))
  <2> SUFFICES ASSUME NEW s, IsSeq(s)  PROVE  IsFiniteSet({s[i] : i \in DOMAIN s})
    BY DEF Reply!ToSet
  <2> DEFINE D == DOMAIN s
  <2>1. Len(s) \in Nat /\ D = 1 .. Len(s)  BY LenProperties DEF IsSeq
  <2>2. IsFiniteSet(D)  BY <2>1, UpTo
  <2> HIDE DEF D
  <2>3. IsFiniteSet({s[i] : i \in D})  BY <2>2, Images
  <2> QED  BY <2>3 DEF D
<1>2. IsFiniteSet(Reply!ToSet(w))  BY <1>1, TextTokens DEF GoodBlock
<1>3. IsFiniteSet(Reply!TitleOf(b))
  <2>1. DocOf[b.chunk] \in Reply!Docs  BY DEF GoodBlock, Reply!Docs
  <2>2. Reply!IsSequence(title)  BY <2>1, AnsweringAssumption DEF Reply!Admissible
  <2>3. IsFiniteSet(Reply!ToSet(title))  BY <1>1, <2>2, Sequences
  <2> QED  BY <2>3, FS_EmptySet DEF Reply!TitleOf
<1>4. IsFiniteSet(Reply!ToSet(w) \cup Reply!TitleOf(b))  BY <1>2, <1>3, FS_Union
<1>5. Reply!ValuesIn(b) \in SUBSET (Reply!ToSet(w) \cup Reply!TitleOf(b))  BY DEF Reply!ValuesIn
<1> QED  BY <1>4, <1>5, FS_Subset

\* Two elements make a set of more than one.
LEMMA MoreThanOne ==
  ASSUME NEW S, IsFiniteSet(S)
  PROVE  /\ \A x, y \in S : x # y => Cardinality(S) > 1
         /\ Cardinality(S) > 1 => \E x, y \in S : x # y
<1>1. ASSUME NEW x \in S, NEW y \in S, x # y  PROVE  Cardinality(S) > 1
  <2>1. IsFiniteSet({}) /\ Cardinality({}) = 0  BY FS_EmptySet
  <2>2. IsFiniteSet({x}) /\ Cardinality({x}) = 1  BY FS_Singleton
  <2>3. {x} \in SUBSET S /\ {x} # S  BY <1>1
  <2>4. Cardinality({x}) <= Cardinality(S) /\ Cardinality({x}) # Cardinality(S)
    BY <2>3, FS_Subset
  <2>5. Cardinality(S) \in Nat  BY FS_CardinalityType
  <2> QED  BY <2>2, <2>4, <2>5
<1>2. ASSUME Cardinality(S) > 1  PROVE  \E x, y \in S : x # y
  <2>1. S # {}
    <3>1. Cardinality({}) = 0  BY FS_EmptySet
    <3> QED  BY <1>2, <3>1
  <2>2. PICK x \in S : TRUE  BY <2>1
  <2>3. S # {x}
    <3>1. Cardinality({x}) = 1  BY FS_Singleton
    <3> QED  BY <1>2, <3>1
  <2> QED  BY <2>2, <2>3
<1> QED  BY <1>1, <1>2

-----------------------------------------------------------------------------
\* What the blocks a request is judged by support, and the sequence of it.
Fact(blocks) == Reply!RequestedFact(setup.verifier, Reply!question,
                                    Reply!Max({0} \cup {blocks[i].score : i \in DOMAIN blocks}))
Outcomes(blocks) ==
  [i \in DOMAIN blocks |-> Reply!ChunkSupport(setup.verifier, Fact(blocks), blocks[i].text,
                                              Titles[DocOf[blocks[i].chunk]])]
GoodBlocks(blocks) == IsSeq(blocks) /\ \A i \in DOMAIN blocks : GoodBlock(blocks[i])

\* The verdict rests on these.
LEMMA VerdictRests ==
  ASSUME NEW blocks
  PROVE  /\ Reply!Verdict(blocks).reason = Reply!Reason(setup.verifier, Fact(blocks), Outcomes(blocks))
         /\ Reply!Verdict(blocks).outcomes = IF Reply!Specific(Fact(blocks)) THEN Outcomes(blocks) ELSE <<>>
<1> DEFINE texts  == [i \in DOMAIN blocks |-> blocks[i].text]
           titles == [i \in DOMAIN blocks |-> Titles[DocOf[blocks[i].chunk]]]
<1>1. Reply!Verdict(blocks) =
        Reply!VerdictOn(setup.verifier, Fact(blocks),
          [i \in DOMAIN texts |-> Reply!ChunkSupport(setup.verifier, Fact(blocks), texts[i], titles[i])])
  BY DEF Reply!Verdict, Reply!EvidenceVerdict, Reply!VerdictFor, Fact
<1>2. [i \in DOMAIN texts |-> Reply!ChunkSupport(setup.verifier, Fact(blocks), texts[i], titles[i])]
        = Outcomes(blocks)
  BY DEF Outcomes
<1> QED  BY <1>1, <1>2 DEF Reply!VerdictOn

\* What the outcomes say of the blocks.
LEMMA OutcomesAreTrue ==
  ASSUME Posed, NEW blocks, GoodBlocks(blocks)
  PROVE  LET outcomes == Outcomes(blocks)
         IN /\ DOMAIN outcomes = DOMAIN blocks
            /\ \A i \in DOMAIN blocks :
                 /\ outcomes[i].outcome = "direct_support" =>
                      /\ Reply!StatesWithin(blocks[i], 3)
                      /\ outcomes[i].value # Reply!NoValue \/ Reply!Fact.type # Reply!NoType =>
                           outcomes[i].value \in Reply!ValuesIn(blocks[i])
                 /\ Reply!StatesOutright(blocks[i]) => outcomes[i].outcome = "direct_support"
<1> DEFINE best == Reply!Max({0} \cup {blocks[i].score : i \in DOMAIN blocks})
           S(b) == Reply!ChunkSupport(setup.verifier,
                     Reply!RequestedFact(setup.verifier, Reply!question, best), b.text, Titles[DocOf[b.chunk]])
<1>1. \A i \in DOMAIN blocks : Outcomes(blocks)[i] = S(blocks[i])  BY DEF Outcomes, Fact
<1>2. ASSUME NEW i \in DOMAIN blocks
      PROVE  /\ S(blocks[i]).outcome = "direct_support" =>
                  /\ Reply!StatesWithin(blocks[i], 3)
                  /\ S(blocks[i]).value # Reply!NoValue \/ Reply!Fact.type # Reply!NoType =>
                       S(blocks[i]).value \in Reply!ValuesIn(blocks[i])
             /\ Reply!StatesOutright(blocks[i]) => S(blocks[i]).outcome = "direct_support"
  <2> DEFINE b == blocks[i]
  <2>1. GoodBlock(b)  BY DEF GoodBlocks
  <2> HIDE DEF b, best
  <2>2. /\ S(b).outcome = "direct_support" =>
             /\ Reply!StatesWithin(b, 3)
             /\ S(b).value # Reply!NoValue \/ Reply!Fact.type # Reply!NoType => S(b).value \in Reply!ValuesIn(b)
        /\ Reply!StatesOutright(b) => S(b).outcome = "direct_support"
    BY <2>1, BlockSupport
  <2> QED  BY <2>2 DEF b
<1>3. DOMAIN Outcomes(blocks) = DOMAIN blocks  BY DEF Outcomes
<1> HIDE DEF S
<1> QED  BY <1>1, <1>2, <1>3

\* Which values compete, and that they are values of the blocks.
LEMMA CompetitorsAreTrue ==
  ASSUME Posed, NEW blocks, GoodBlocks(blocks)
  PROVE  LET C == Reply!CompetingValues(setup.verifier, Fact(blocks), Outcomes(blocks))
             U == UNION {Reply!ValuesIn(b) : b \in Reply!ToSet(blocks)}
         IN /\ C \subseteq U /\ IsFiniteSet(U) /\ IsFiniteSet(C)
            /\ Reply!Fact.type # Reply!NoType /\ Reply!AllCompared =>
                 \A i \in DOMAIN blocks : Outcomes(blocks)[i].outcome = "direct_support" =>
                   Outcomes(blocks)[i].value \in C
<1> DEFINE v == setup.verifier
           fact == Fact(blocks)
           outcomes == Outcomes(blocks)
           C == Reply!CompetingValues(v, fact, outcomes)
           V == {Reply!ValuesIn(b) : b \in Reply!ToSet(blocks)}
           U == UNION V
           Strong(i) == Reply!Hits(fact.keywords, outcomes[i].sentence)
                          >= IF Reply!Cardinality(fact.keywords) < 2 THEN Reply!Cardinality(fact.keywords) ELSE 2
           Competes(i) == /\ outcomes[i].outcome = "direct_support" /\ outcomes[i].value # Reply!NoValue
                          /\ v = "v2" /\ fact.keywords # {} => Strong(i)
<1>1. /\ DOMAIN outcomes = DOMAIN blocks
      /\ \A i \in DOMAIN blocks :
           outcomes[i].outcome = "direct_support"
             /\ (outcomes[i].value # Reply!NoValue \/ Reply!Fact.type # Reply!NoType) =>
               outcomes[i].value \in Reply!ValuesIn(blocks[i])
  BY OutcomesAreTrue
<1>2. C = {outcomes[i].value : i \in {j \in DOMAIN outcomes : Competes(j)}}
  BY DEF Reply!CompetingValues, Reply!Direct
<1>3. fact.entities = Reply!Fact.entities /\ fact.keywords = Reply!Fact.keywords
        /\ fact.type = Reply!Fact.type
  BY SameFact DEF Fact
<1> HIDE DEF fact, outcomes, Strong, C
<1>4. C \subseteq U
  <2> SUFFICES ASSUME NEW x \in C  PROVE  x \in U  OBVIOUS
  <2>1. PICK i \in DOMAIN blocks : x = outcomes[i].value /\ Competes(i)  BY <1>1, <1>2
  <2>2. x \in Reply!ValuesIn(blocks[i])  BY <1>1, <2>1
  <2>3. blocks[i] \in Reply!ToSet(blocks)  BY DEF Reply!ToSet
  <2> QED  BY <2>2, <2>3
<1>5. IsFiniteSet(U)
  <2> DEFINE D == DOMAIN blocks
             f == [i \in D |-> Reply!ValuesIn(blocks[i])]
  <2>1. Len(blocks) \in Nat /\ D = 1 .. Len(blocks)  BY LenProperties DEF GoodBlocks, IsSeq
  <2>2. IsFiniteSet(D)  BY <2>1, UpTo
  <2>3. \A i \in D : f[i] = Reply!ValuesIn(blocks[i])  OBVIOUS
  <2> HIDE DEF f
  <2>4. V = {f[i] : i \in D}  BY <2>3 DEF Reply!ToSet
  <2>5. \A X \in V : IsFiniteSet(X)  BY <2>3, <2>4, FiniteValues DEF GoodBlocks
  <2> HIDE DEF D, V
  <2>6. IsFiniteSet(V)  BY <2>2, <2>4, Images
  <2> QED  BY <2>5, <2>6, FS_UNION
<1>6. IsFiniteSet(C)  BY <1>4, <1>5, FS_Subset
<1>7. ASSUME Reply!Fact.type # Reply!NoType, Reply!AllCompared,
             NEW i \in DOMAIN blocks, outcomes[i].outcome = "direct_support"
      PROVE  outcomes[i].value \in C
  <2>1. outcomes[i].value \in Reply!ValuesIn(blocks[i])  BY <1>1, <1>7
  <2>2. outcomes[i].value[1] \in Reply!Accepts(v, Reply!Fact.type)  BY <2>1 DEF Reply!ValuesIn
  <2>3. Reply!NoType \notin Reply!Accepts(v, Reply!Fact.type)
    BY <1>7 DEF Reply!Accepts, Reply!NoType
  <2>4. Reply!NoValue[1] = Reply!NoType  BY DEF Reply!NoValue
  <2>5. outcomes[i].value # Reply!NoValue  BY <2>2, <2>3, <2>4
  <2>6. v = "v1" \/ fact.keywords = {}  BY <1>3, <1>7 DEF Reply!AllCompared
  <2>7. Competes(i)  BY <1>7, <2>5, <2>6
  <2> QED  BY <1>1, <1>2, <2>7
<1> HIDE DEF U
<1> QED  BY <1>4, <1>5, <1>6, <1>7 DEF C, U, fact, outcomes

-----------------------------------------------------------------------------
\* What the decision on a context says of the verdict.
LEMMA DecisionRests ==
  ASSUME Posed, NEW blocks, GoodBlocks(blocks)
  PROVE  LET d == Reply!Decision(blocks, Reply!Verdict(blocks))
             reason2 == Reply!Verdict(blocks).reason
         IN /\ d # "citation_foreign_scope"
            /\ d = "retrieval_empty" \/ d = reason2
                 \/ (d = "ambiguous_request" /\ reason2 = "conflicting_evidence")
<1> DEFINE verdict == Reply!Verdict(blocks)
           d == Reply!Decision(blocks, verdict)
<1>1. Reply!InScope(blocks)  BY DEF Reply!InScope, GoodBlocks, GoodBlock
<1>2. verdict.reason # "citation_foreign_scope"
  BY VerdictRests DEF Reply!Reason
<1> HIDE DEF verdict
<1>3. d = IF blocks = <<>> THEN "retrieval_empty"
          ELSE IF Reply!v3 THEN Reply!Constrained(setup.verifier, verdict) ELSE verdict.reason
  BY <1>1 DEF Reply!Decision
<1>4. \/ Reply!Constrained(setup.verifier, verdict) = verdict.reason
      \/ /\ Reply!Constrained(setup.verifier, verdict) = "ambiguous_request"
         /\ verdict.reason = "conflicting_evidence"
  BY DEF Reply!Constrained
<1> QED  BY <1>2, <1>3, <1>4 DEF verdict

\* Why the verdict is what it is.
LEMMA ReasonRests ==
  ASSUME Posed, NEW blocks, GoodBlocks(blocks)
  PROVE  LET why      == Reply!Verdict(blocks).reason
             outcomes == Outcomes(blocks)
             direct   == {i \in DOMAIN blocks : outcomes[i].outcome = "direct_support"}
             C        == Reply!CompetingValues(setup.verifier, Fact(blocks), outcomes)
         IN /\ why \in {"related_topic_only", "sufficient_evidence", "requested_fact_absent",
                        "conflicting_evidence"}
            /\ why = "related_topic_only" => ~Reply!Specific(Reply!Fact)
            /\ why = "requested_fact_absent" => Reply!Specific(Reply!Fact) /\ direct = {}
            /\ why = "conflicting_evidence" => Cardinality(C) > 1
            /\ why = "sufficient_evidence" /\ Reply!Specific(Reply!Fact) =>
                 /\ direct # {} /\ Reply!Direct(Reply!Verdict(blocks).outcomes) = direct
                 /\ ~(Reply!Fact.type \in ConflictTypes /\ Cardinality(C) > 1)
<1> DEFINE v        == setup.verifier
           fact     == Fact(blocks)
           outcomes == Outcomes(blocks)
           direct   == Reply!Direct(outcomes)
           C        == Reply!CompetingValues(v, fact, outcomes)
           why      == Reply!Verdict(blocks).reason
           told     == Reply!Verdict(blocks).outcomes
<1>1. why = Reply!Reason(v, fact, outcomes) /\ told = IF Reply!Specific(fact) THEN outcomes ELSE <<>>
  BY VerdictRests
<1>2. /\ Reply!Specific(fact) <=> Reply!Specific(Reply!Fact)
      /\ fact.offTopic => ~Reply!Specific(Reply!Fact)
      /\ fact.type = Reply!Fact.type
  BY SameFact DEF Fact
<1>3. direct = {i \in DOMAIN blocks : outcomes[i].outcome = "direct_support"}
  BY DEF Reply!Direct, Outcomes
<1>4. Reply!Cardinality(C) = Cardinality(C)  BY SameSize
<1> HIDE DEF fact, outcomes, direct, C, v
<1>5. why = CASE fact.offTopic -> "related_topic_only"
              [] ~fact.offTopic /\ ~Reply!Specific(fact) -> "sufficient_evidence"
              [] Reply!Specific(fact) /\ direct = {} -> "requested_fact_absent"
              [] OTHER -> IF fact.type \in ConflictTypes /\ Cardinality(C) > 1
                          THEN "conflicting_evidence" ELSE "sufficient_evidence"
  BY <1>1, <1>4 DEF Reply!Reason, direct, C
<1> HIDE DEF why
<1>6. CASE fact.offTopic
  <2>1. why = "related_topic_only"  BY <1>2, <1>5, <1>6
  <2> QED  BY <1>2, <1>6, <2>1 DEF why, outcomes, fact, v, C
<1>7. CASE ~Reply!Specific(fact) /\ ~fact.offTopic
  <2>1. why = "sufficient_evidence"  BY <1>5, <1>7
  <2> QED  BY <1>2, <1>7, <2>1 DEF why, outcomes, fact, v, C
<1>8. CASE Reply!Specific(fact) /\ direct = {}
  <2>1. why = "requested_fact_absent"  BY <1>2, <1>5, <1>8
  <2> QED  BY <1>2, <1>3, <1>8, <2>1 DEF why, outcomes, fact, v, C
<1>9. CASE Reply!Specific(fact) /\ direct # {}
  <2>1. why = IF fact.type \in ConflictTypes /\ Cardinality(C) > 1
              THEN "conflicting_evidence" ELSE "sufficient_evidence"
    BY <1>2, <1>5, <1>9
  <2>2. Reply!Direct(told) = direct  BY <1>1, <1>9 DEF direct
  <2> HIDE DEF told
  <2> QED  BY <1>2, <1>3, <1>9, <2>1, <2>2 DEF why, outcomes, fact, v, C, told
<1> QED  BY <1>6, <1>7, <1>8, <1>9

\* The model is shown the blocks it may use, and no other.
LEMMA ShownAre ==
  ASSUME NEW blocks, IsSeq(blocks), NEW verdict, DOMAIN verdict.outcomes \subseteq DOMAIN blocks
  PROVE  LET those == IF Reply!v3 /\ Reply!Direct(verdict.outcomes) # {}
                      THEN Reply!Direct(verdict.outcomes) ELSE DOMAIN blocks
         IN Reply!ToSet(Reply!Shown(blocks, verdict)) = {blocks[i] : i \in those}
<1> DEFINE direct == Reply!Direct(verdict.outcomes)
           n == Len(blocks)
           S == IF Reply!v3 /\ direct # {} THEN direct ELSE DOMAIN blocks
           R == {p \in S \X S : p[1] < p[2]}
           order == Reply!Sorted(S, R)
           s == Reply!Shown(blocks, verdict)
<1>1. n \in Nat /\ DOMAIN blocks = 1 .. n  BY LenProperties DEF IsSeq
<1>2. direct \subseteq DOMAIN verdict.outcomes  BY DEF Reply!Direct
<1>3. S = IF Reply!v3 THEN Reply!AllowedBlocks(verdict, n) ELSE DOMAIN blocks
  BY <1>1 DEF Reply!AllowedBlocks
<1> HIDE DEF direct
<1>4. S \in SUBSET (1 .. n)  BY <1>1, <1>2
<1>5. s = [i \in DOMAIN order |-> blocks[order[i]]]
  <2> DEFINE those == IF Reply!v3 THEN Reply!AllowedBlocks(verdict, n) ELSE DOMAIN blocks
             order2 == Reply!Sorted(those, {p \in those \X those : p[1] < p[2]})
  <2>1. s = [i \in DOMAIN order2 |-> blocks[order2[i]]]  BY DEF Reply!Shown
  <2>2. those = S  BY <1>3
  <2> HIDE DEF those, S, s
  <2> QED  BY <2>1, <2>2
<1> HIDE DEF S, n, s
<1>6. IsFiniteSet(S)
  <2>1. IsFiniteSet(1 .. n)  BY <1>1, UpTo
  <2> QED  BY <1>4, <2>1, FS_Subset
<1>7. Orders(R, S)
  <2>1. \A x, y \in S : <<x, y>> \in R <=> x < y  OBVIOUS
  <2>2. \A x \in S : x \in Int  BY <1>4
  <2> HIDE DEF R
  <2> QED  BY <2>1, <2>2 DEF Orders
<1> HIDE DEF R
<1>8. (\A i \in DOMAIN order : order[i] \in S) /\ (\A x \in S : \E i \in DOMAIN order : order[i] = x)
  BY <1>6, <1>7, Sorting
<1> HIDE DEF order
<1>9. Reply!ToSet(s) = {blocks[i] : i \in S}  BY <1>5, <1>8 DEF Reply!ToSet
<1> QED  BY <1>9 DEF s, S, direct, n

-----------------------------------------------------------------------------
\* DecisionIsRight of any context, of what the model is shown and of a reason.
MayBeShown(b) ==
  /\ allowed = Unscoped \/ DocOf[b.chunk] \in allowed
  /\ setup.pipeline = "dense" => b.score >= setup.floor
  /\ \A i \in DOMAIN b.text : ~b.text[i].injected

AnsweredRightly(blocks, those) ==
  /\ \E b \in those : Reply!StatesWithin(b, 3)
  /\ Reply!v3 => \A b \in those : Reply!StatesWithin(b, 3)
  /\ Reply!Fact.type \in ConflictTypes /\ Reply!AllCompared =>
       ~\E a, b \in blocks : Reply!Disagree(a, b)

RefusedRightly(blocks, why) ==
  /\ why = "requested_fact_absent" =>
       Reply!Specific(Reply!Fact) /\ ~\E b \in blocks : Reply!StatesOutright(b)
  /\ why \in {"conflicting_evidence", "ambiguous_request"} =>
       Reply!Cardinality(UNION {Reply!ValuesIn(b) : b \in blocks}) > 1
  /\ why = "related_topic_only" => ~Reply!Specific(Reply!Fact)
  /\ why # "citation_foreign_scope"

\* The decision on good blocks is right.
LEMMA RefusesRightly ==
  ASSUME Posed, NEW blocks, GoodBlocks(blocks)
  PROVE  RefusedRightly(Reply!ToSet(blocks), Reply!Decision(blocks, Reply!Verdict(blocks)))
<1> DEFINE d == Reply!Decision(blocks, Reply!Verdict(blocks))
           why == Reply!Verdict(blocks).reason
           C == Reply!CompetingValues(setup.verifier, Fact(blocks), Outcomes(blocks))
           U == UNION {Reply!ValuesIn(b) : b \in Reply!ToSet(blocks)}
           direct == {i \in DOMAIN blocks : Outcomes(blocks)[i].outcome = "direct_support"}
<1>1. /\ d # "citation_foreign_scope"
      /\ d = "retrieval_empty" \/ d = why \/ (d = "ambiguous_request" /\ why = "conflicting_evidence")
  BY DecisionRests
<1>2. /\ why \in {"related_topic_only", "sufficient_evidence", "requested_fact_absent",
                  "conflicting_evidence"}
      /\ why = "related_topic_only" => ~Reply!Specific(Reply!Fact)
      /\ why = "requested_fact_absent" => Reply!Specific(Reply!Fact) /\ direct = {}
      /\ why = "conflicting_evidence" => Cardinality(C) > 1
  BY ReasonRests
<1>3. C \subseteq U /\ IsFiniteSet(U) /\ IsFiniteSet(C)  BY CompetitorsAreTrue
<1>4. \A i \in DOMAIN blocks : Reply!StatesOutright(blocks[i]) => i \in direct  BY OutcomesAreTrue
<1>5. Reply!Cardinality(U) = Cardinality(U)  BY SameSize
<1> HIDE DEF d, why, C, U, direct
<1>6. why = "conflicting_evidence" => Cardinality(U) > 1
  <2>1. Cardinality(C) <= Cardinality(U) /\ Cardinality(C) \in Nat /\ Cardinality(U) \in Nat
    BY <1>3, FS_Subset, FS_CardinalityType
  <2> QED  BY <1>2, <2>1
<1>7. d = "related_topic_only" => ~Reply!Specific(Reply!Fact)  BY <1>1, <1>2
<1>8. d \in {"conflicting_evidence", "ambiguous_request"} => Reply!Cardinality(U) > 1
  BY <1>1, <1>2, <1>5, <1>6
<1>9. d = "requested_fact_absent" =>
        Reply!Specific(Reply!Fact) /\ ~\E b \in Reply!ToSet(blocks) : Reply!StatesOutright(b)
  <2> SUFFICES ASSUME d = "requested_fact_absent"
               PROVE  Reply!Specific(Reply!Fact) /\ ~\E b \in Reply!ToSet(blocks) : Reply!StatesOutright(b)
    OBVIOUS
  <2>1. Reply!Specific(Reply!Fact) /\ direct = {}  BY <1>1, <1>2
  <2>2. \A b \in Reply!ToSet(blocks) : \E i \in DOMAIN blocks : b = blocks[i]  BY DEF Reply!ToSet
  <2> QED  BY <1>4, <2>1, <2>2
<1> QED  BY <1>1, <1>7, <1>8, <1>9 DEF RefusedRightly, d, U

\* Two that disagree support the fact with two values.
LEMMA DisagreementCompetes ==
  ASSUME Posed, NEW blocks, GoodBlocks(blocks), NEW i \in DOMAIN blocks, NEW j \in DOMAIN blocks,
         Reply!Disagree(blocks[i], blocks[j]),
         Reply!Fact.type \in ConflictTypes, Reply!AllCompared
  PROVE  Cardinality(Reply!CompetingValues(setup.verifier, Fact(blocks), Outcomes(blocks))) > 1
<1> DEFINE C == Reply!CompetingValues(setup.verifier, Fact(blocks), Outcomes(blocks))
           o == Outcomes(blocks)
           V(k) == Reply!ValuesIn(blocks[k])
<1>1. Reply!Fact.type # Reply!NoType  BY AnsweringAssumption DEF Reply!Admissible
<1>2. /\ Reply!StatesOutright(blocks[i]) /\ Reply!StatesOutright(blocks[j])
      /\ Cardinality(V(i)) = 1 /\ Cardinality(V(j)) = 1 /\ V(i) # V(j)
  BY SameSize DEF Reply!Disagree
<1>3. o[i].value \in V(i) /\ o[j].value \in V(j) /\ o[i].outcome = "direct_support"
      /\ o[j].outcome = "direct_support"
  BY <1>1, <1>2, OutcomesAreTrue
<1>4. IsFiniteSet(V(i)) /\ IsFiniteSet(V(j))  BY FiniteValues DEF GoodBlocks
<1>5. IsFiniteSet(C) /\ o[i].value \in C /\ o[j].value \in C
  BY <1>1, <1>3, CompetitorsAreTrue
<1> HIDE DEF C, o, V
<1>6. o[i].value # o[j].value
  <2>1. (\E x : V(i) = {x}) /\ (\E y : V(j) = {y})  BY <1>2, <1>4, FS_Singleton
  <2> QED  BY <1>2, <1>3, <2>1
<1> QED  BY <1>5, <1>6, MoreThanOne DEF C

\* What an answerable question is answered from.
LEMMA AnswersRightly ==
  ASSUME Posed, NEW blocks, GoodBlocks(blocks),
         Reply!Decision(blocks, Reply!Verdict(blocks)) = "sufficient_evidence",
         Reply!Specific(Reply!Fact)
  PROVE  AnsweredRightly(Reply!ToSet(blocks), Reply!ToSet(Reply!Shown(blocks, Reply!Verdict(blocks))))
<1> DEFINE verdict == Reply!Verdict(blocks)
           direct == {i \in DOMAIN blocks : Outcomes(blocks)[i].outcome = "direct_support"}
           those == IF Reply!v3 THEN direct ELSE DOMAIN blocks
           sh == Reply!ToSet(Reply!Shown(blocks, verdict))
           C == Reply!CompetingValues(setup.verifier, Fact(blocks), Outcomes(blocks))
<1>1. verdict.reason = "sufficient_evidence"  BY DecisionRests
<1>2. /\ direct # {} /\ Reply!Direct(verdict.outcomes) = direct
      /\ ~(Reply!Fact.type \in ConflictTypes /\ Cardinality(C) > 1)
  BY <1>1, ReasonRests
<1>3. DOMAIN verdict.outcomes \subseteq DOMAIN blocks
  <2>1. DOMAIN Outcomes(blocks) = DOMAIN blocks  BY DEF Outcomes
  <2>2. verdict.outcomes = Outcomes(blocks) \/ verdict.outcomes = <<>>  BY VerdictRests
  <2>3. DOMAIN <<>> = {}  OBVIOUS
  <2> HIDE DEF verdict
  <2> QED  BY <2>1, <2>2, <2>3
<1>4. \A i \in direct : i \in DOMAIN blocks /\ Reply!StatesWithin(blocks[i], 3)  BY OutcomesAreTrue
<1>5. IsSeq(blocks)  BY DEF GoodBlocks
<1> HIDE DEF verdict, direct
<1>6. sh = {blocks[i] : i \in those}  BY <1>2, <1>3, <1>5, ShownAre
<1> HIDE DEF sh
<1>7. \E b \in sh : Reply!StatesWithin(b, 3)
  <2>1. PICK i \in direct : TRUE  BY <1>2
  <2> QED  BY <1>4, <1>6, <2>1
<1>8. Reply!v3 => \A b \in sh : Reply!StatesWithin(b, 3)  BY <1>4, <1>6
<1>9. ASSUME Reply!Fact.type \in ConflictTypes, Reply!AllCompared,
             NEW a \in Reply!ToSet(blocks), NEW b \in Reply!ToSet(blocks), Reply!Disagree(a, b)
      PROVE  FALSE
  <2>1. PICK i, j \in DOMAIN blocks : a = blocks[i] /\ b = blocks[j]  BY DEF Reply!ToSet
  <2>2. Reply!Disagree(blocks[i], blocks[j])  BY <1>9, <2>1
  <2>3. Cardinality(C) > 1  BY <1>9, <2>2, DisagreementCompetes
  <2> QED  BY <1>2, <1>9, <2>3
<1> QED  BY <1>7, <1>8, <1>9 DEF AnsweredRightly, sh, verdict

-----------------------------------------------------------------------------
\* What only depends on the case and the setup.
LEMMA Unmoved ==
  ASSUME case' = case, setup' = setup
  PROVE  /\ Reply!Fact' = Reply!Fact /\ (Reply!v3)' = Reply!v3
         /\ \A b : Reply!StatesWithin(b, 3)' <=> Reply!StatesWithin(b, 3)
         /\ \A b : Reply!StatesOutright(b)' <=> Reply!StatesOutright(b)
         /\ \A b : Reply!ValuesIn(b)' = Reply!ValuesIn(b)
         /\ Reply!AllCompared' <=> Reply!AllCompared
<1>1. Reply!Fact' = Reply!Fact /\ (Reply!v3)' = Reply!v3
  BY DEF Reply!Fact, Reply!question, Reply!v3
<1>2. \A b : Reply!TitleOf(b)' = Reply!TitleOf(b)  BY <1>1 DEF Reply!TitleOf
<1>3. \A p, t : Reply!States(p, t)' <=> Reply!States(p, t)  BY <1>1 DEF Reply!States
<1>4. \A b : Reply!StatesWithin(b, 3)' <=> Reply!StatesWithin(b, 3)
  BY <1>2, <1>3 DEF Reply!StatesWithin
<1>5. \A b : Reply!StatesOutright(b)' <=> Reply!StatesOutright(b)
  BY <1>2, <1>3 DEF Reply!StatesOutright
<1>6. \A b : Reply!ValuesIn(b)' = Reply!ValuesIn(b)
  BY <1>1, <1>2 DEF Reply!ValuesIn
<1>7. Reply!AllCompared' <=> Reply!AllCompared  BY <1>1 DEF Reply!AllCompared
<1> QED  BY <1>1, <1>4, <1>5, <1>6, <1>7

-----------------------------------------------------------------------------
\* A match that the context may be assembled from.
Fit(m) ==
  /\ m.chunk \in Chunks
  /\ allowed = Unscoped \/ DocOf[m.chunk] \in allowed
  /\ setup.pipeline = "dense" => m.score >= setup.floor

\* What the searches found is in scope and not below the floor.
Sourced == \A q \in DOMAIN rankings : \A i \in DOMAIN rankings[q] : Fit(rankings[q][i])

\* So are the candidates, whatever made them of it.
LEMMA CandidatesFit ==
  ASSUME AInv, Sourced, pc = "judge"
  PROVE  \A i \in DOMAIN Reply!Candidates : Fit(Reply!Candidates[i])
<1> DEFINE limit == Reply!CandidateLimit
<1>1. MaxBlocks \in Nat /\ Pool \in Nat  BY Constants
<1>2. Searches(rankings)  BY DEF AInv, Searched, Searches
<1>3. DOMAIN rankings = 1 .. Len(rankings)  BY <1>2, LenProperties DEF Searches, IsSeq
<1>4. ASSUME NEW q \in DOMAIN rankings, NEW c \in Reply!ChunksOf(rankings[q])
      PROVE  \E i \in DOMAIN rankings[q] :
               /\ Fit(rankings[q][i]) /\ rankings[q][i].chunk = c
               /\ rankings[q][i].score = Reply!ScoreOf(rankings[q], c)
  <2> DEFINE r == rankings[q]
  <2>1. IsRanking(r) /\ c \in Reply!ChunksOf(r)  BY <1>2 DEF Searches
  <2>2. \A i \in DOMAIN r : Fit(r[i])  BY DEF Sourced
  <2> HIDE DEF r
  <2>3. Reply!RankOf(r, c) \in DOMAIN r /\ r[Reply!RankOf(r, c)].chunk = c  BY <2>1, Ranks
  <2> QED  BY <2>2, <2>3 DEF r, Reply!ScoreOf
<1>5. CASE setup.pipeline # "dense"
  <2>1. Len(rankings) = 2  BY <1>5 DEF AInv, Searched
  <2>2. 1 \in DOMAIN rankings /\ 2 \in DOMAIN rankings  BY <1>3, <2>1
  <2>3. IsRanking(rankings[1]) /\ IsRanking(rankings[2])  BY <1>2, <2>2 DEF Searches
  <2>4. Reply!Candidates = Reply!Fuse(rankings[1], rankings[2], MaxBlocks)
    BY <1>5 DEF Reply!Candidates
  <2>5. ASSUME NEW i \in DOMAIN Reply!Candidates  PROVE  Fit(Reply!Candidates[i])
    <3> DEFINE c == Reply!Candidates[i].chunk
    <3>1. c \in Reply!ChunksOf(rankings[1]) \/ c \in Reply!ChunksOf(rankings[2])
      BY <1>1, <2>3, <2>4, <2>5, Fused
    <3> HIDE DEF c
    <3>2. \E q \in DOMAIN rankings : \E k \in DOMAIN rankings[q] :
            Fit(rankings[q][k]) /\ rankings[q][k].chunk = c
      BY <1>4, <2>2, <3>1
    <3> QED  BY <1>5, <3>2 DEF Fit, c
  <2> QED  BY <2>5
<1>6. CASE setup.pipeline = "dense" /\ Reply!DenseQueries > 1
  <2>1. limit \in Nat  BY <1>1 DEF Reply!CandidateLimit, Reply!Larger
  <2>2. Reply!Candidates = Reply!Merge(rankings, limit)  BY <1>6 DEF Reply!Candidates
  <2> HIDE DEF limit
  <2>3. ASSUME NEW i \in DOMAIN Reply!Candidates  PROVE  Fit(Reply!Candidates[i])
    <3> DEFINE m == Reply!Candidates[i]
    <3>1. m.chunk \in AllFound(rankings) /\ m.score = Reply!BestScore(rankings, m.chunk)
      BY <1>2, <2>1, <2>2, <2>3, Merged
    <3> HIDE DEF m
    <3>2. PICK q \in Reply!FoundBy(rankings, m.chunk) :
            Reply!BestScore(rankings, m.chunk) = Reply!ScoreOf(rankings[q], m.chunk)
      BY <1>2, <3>1, Best
    <3>3. q \in DOMAIN rankings /\ m.chunk \in Reply!ChunksOf(rankings[q])  BY DEF Reply!FoundBy
    <3>4. PICK k \in DOMAIN rankings[q] :
            /\ Fit(rankings[q][k]) /\ rankings[q][k].chunk = m.chunk
            /\ rankings[q][k].score = Reply!ScoreOf(rankings[q], m.chunk)
      BY <1>4, <3>3
    <3>5. Fit(m)  BY <3>1, <3>2, <3>4 DEF Fit
    <3> QED  BY <3>5 DEF m
  <2> QED  BY <2>3
<1>7. CASE setup.pipeline = "dense" /\ ~(Reply!DenseQueries > 1)
  <2>1. queries \in Nat /\ queries >= 1  BY Constants DEF AInv, Searched
  <2>2. Reply!DenseQueries = 1  BY <1>7, <2>1 DEF Reply!DenseQueries
  <2>3. Len(rankings) = 1  BY <1>7, <2>2 DEF AInv, Searched
  <2>4. 1 \in DOMAIN rankings  BY <1>3, <2>3
  <2>5. Reply!Candidates = rankings[1]  BY <1>7 DEF Reply!Candidates
  <2> QED  BY <2>4, <2>5 DEF Sourced
<1> QED  BY <1>5, <1>6, <1>7

\* A reranker adds none.
LEMMA RankingFits ==
  ASSUME AInv, Sourced, pc = "judge", NEW r \in Reply!Rankings
  PROVE  \A i \in DOMAIN r : Fit(r[i])
<1>1. \A i \in DOMAIN Reply!Candidates : Fit(Reply!Candidates[i])  BY CandidatesFit
<1>2. CASE setup.reranker
  <2>1. r \in [1 .. Len(Reply!Top(Reply!Candidates, MaxBlocks)) -> Reply!ToSet(Reply!Candidates)]
    BY <1>2 DEF Reply!Rankings, Reply!Rerankings
  <2>2. \A i \in DOMAIN r : r[i] \in Reply!ToSet(Reply!Candidates)  BY <2>1
  <2> QED  BY <1>1, <2>2 DEF Reply!ToSet
<1>3. CASE ~setup.reranker
  <2>1. r = Reply!Candidates  BY <1>3 DEF Reply!Rankings
  <2> QED  BY <1>1, <2>1
<1> QED  BY <1>2, <1>3

\* What sanitising leaves is a text without injected sentences.
LEMMA Sanitising ==
  ASSUME NEW text, Reply!WellFormed(text)
  PROVE  /\ Reply!WellFormed(Reply!SanitiseText(text))
         /\ \A i \in DOMAIN Reply!SanitiseText(text) : ~Reply!SanitiseText(text)[i].injected
<1> DEFINE t == Reply!SanitiseText(text)
           Blank == [tokens |-> <<>>, ends |-> "none", injected |-> FALSE]
<1>1. DOMAIN text = 1 .. Len(text) /\ Len(text) \in Nat /\ \A i \in DOMAIN text : IsSeq(text[i].tokens)
  BY LenProperties, Sequences DEF Reply!WellFormed, Reply!IsSequence
<1>2. t = [i \in 1 .. Len(text) |-> t[i]]  BY <1>1 DEF Reply!SanitiseText
<1>3. \A i \in 1 .. Len(text) : t[i] = IF text[i].injected THEN Blank ELSE text[i]
  BY <1>1 DEF Reply!SanitiseText
<1>4. Blank.tokens = <<>> /\ ~Blank.injected  OBVIOUS
<1>5. IsSeq(<<>>)  BY DEF IsSeq
<1> HIDE DEF t, Blank
<1>6. IsSeq(t) /\ DOMAIN t = 1 .. Len(text)  BY <1>1, <1>2, TupleIsSeq
<1>7. \A i \in DOMAIN t : IsSeq(t[i].tokens) /\ ~t[i].injected
  BY <1>1, <1>3, <1>4, <1>5, <1>6
<1> QED  BY <1>6, <1>7, Sequences DEF Reply!WellFormed, t

\* The beginning of a text is a text.
LEMMA TopIsText ==
  ASSUME NEW text, Reply!WellFormed(text), NEW n \in Nat
  PROVE  Reply!WellFormed(Reply!Top(text, n))
<1>1. IsSeq(text) /\ \A i \in DOMAIN text : IsSeq(text[i].tokens)  BY Sequences DEF Reply!WellFormed
<1>2. /\ IsSeq(Reply!Top(text, n))
      /\ \A i \in DOMAIN Reply!Top(text, n) : i \in DOMAIN text /\ Reply!Top(text, n)[i] = text[i]
  BY <1>1, TopIsSeq
<1> QED  BY <1>1, <1>2, Sequences DEF Reply!WellFormed

\* What the blocks before the i-th leave is a number.
LEMMA RoomIsInt ==
  ASSUME NEW r, NEW texts, NEW i \in Nat \ {0}, \A j \in 1 .. i - 1 : Reply!WellFormed(texts[r[j].chunk])
  PROVE  Reply!RoomFor(r, texts, Budget, i) \in Int
<1> DEFINE n == i - 1
           s == [j \in 1 .. n |-> texts[r[j].chunk]]
<1>1. n \in Nat  OBVIOUS
<1>2. s = [j \in 1 .. n |-> s[j]] /\ \A j \in 1 .. n : s[j] = texts[r[j].chunk]  OBVIOUS
<1>3. \A j \in 1 .. n : IsSeq(texts[r[j].chunk])  BY Sequences DEF Reply!WellFormed
<1>4. Reply!RoomFor(r, texts, Budget, i) = Budget - n * Reply!Heading - Len(Reply!FlattenSeq(s))
  BY DEF Reply!RoomFor
<1> HIDE DEF s, n
<1>5. SeqOfSeqs(s)  BY <1>1, <1>2, <1>3, TupleIsSeq DEF SeqOfSeqs
<1>6. Len(Reply!FlattenSeq(s)) \in Nat  BY <1>5, Flattened, LenProperties DEF IsSeq
<1>7. Budget \in Nat  BY AnsweringAssumption DEF Reply!Admissible
<1> QED  BY <1>1, <1>4, <1>6, <1>7 DEF Reply!Heading

\* The context of a ranking that fits is good.
LEMMA ContextIsGood ==
  ASSUME NEW r, IsSeq(r), \A i \in DOMAIN r : Fit(r[i]),
         NEW texts, \A c \in Chunks : Reply!WellFormed(texts[c])
  PROVE  GoodBlocks(Reply!Sanitised(Reply!AssembleContext(r, texts, MaxBlocks, Budget)))
<1> DEFINE top == Reply!Top(r, MaxBlocks)
           Room(i) == Reply!RoomFor(top, texts, Budget, i)
           fits == {i \in DOMAIN top : \A j \in 1 .. i : Room(j) > Reply!Heading /\ texts[top[j].chunk] # <<>>}
           n == Cardinality(fits)
           blocks == Reply!AssembleContext(r, texts, MaxBlocks, Budget)
           clean == Reply!Sanitised(blocks)
<1>1. MaxBlocks \in Nat  BY Constants
<1>2. IsSeq(top) /\ \A i \in DOMAIN top : i \in DOMAIN r /\ top[i] = r[i]  BY <1>1, TopIsSeq
<1>3. \A i \in DOMAIN top : Fit(top[i])  BY <1>2
<1>4. Len(top) \in Nat /\ DOMAIN top = 1 .. Len(top)  BY <1>2, LenProperties DEF IsSeq
<1>5. /\ DOMAIN blocks = 1 .. n
      /\ \A i \in DOMAIN blocks :
           blocks[i] = [index |-> i, chunk |-> top[i].chunk, score |-> top[i].score,
                        text |-> Reply!Top(texts[top[i].chunk], Room(i) - Reply!Heading)]
  BY SameSize DEF Reply!AssembleContext
<1>6. Numbered(clean)  BY ContextNumbered
<1>7. DOMAIN clean = DOMAIN blocks
      /\ \A i \in DOMAIN blocks : clean[i] = [blocks[i] EXCEPT !.text = Reply!SanitiseText(blocks[i].text)]
  BY DEF Reply!Sanitised
<1> HIDE DEF clean, blocks, top, Room
<1>8. fits \in SUBSET (1 .. Len(top))  BY <1>4
<1>9. ASSUME NEW i \in (1 .. Len(top)) \ fits, NEW j \in fits  PROVE  j < i
  <2>1. i \in Int /\ j \in Int  BY <1>4, <1>8
  <2>2. i <= j => 1 .. i \subseteq 1 .. j  BY <2>1
  <2>3. i <= j => i \in fits  BY <1>4, <2>2
  <2> QED  BY <2>1, <2>3
<1>10. \A i \in 1 .. n : i \in fits
  <2> HIDE DEF fits
  <2> QED  BY <1>4, <1>8, <1>9, Foremost
<1>11. ASSUME NEW i \in DOMAIN clean  PROVE  GoodBlock(clean[i])
  <2> DEFINE text == texts[top[i].chunk]
             cut == Reply!Top(text, Room(i) - Reply!Heading)
             b == clean[i]
  <2>1. i \in fits  BY <1>5, <1>7, <1>10
  <2>2. i \in DOMAIN top /\ i \in 1 .. i /\ i \in Nat \ {0} /\ 1 .. i \subseteq DOMAIN top  BY <1>4, <2>1
  <2>3. Room(i) > Reply!Heading  BY <2>1, <2>2
  <2>4. \A j \in 1 .. i : Reply!WellFormed(texts[top[j].chunk])  BY <1>3, <2>2 DEF Fit
  <2>5. Room(i) \in Int
    <3>1. \A j \in 1 .. i - 1 : j \in 1 .. i  BY <2>2
    <3> QED  BY <2>2, <2>4, <3>1, RoomIsInt DEF Room
  <2>6. Room(i) - Reply!Heading \in Nat  BY <2>3, <2>5 DEF Reply!Heading
  <2>7. Reply!WellFormed(cut)  BY <2>2, <2>4, <2>6, TopIsText
  <2>8. /\ b.chunk = top[i].chunk /\ b.score = top[i].score
        /\ b.text = Reply!SanitiseText(cut)
    BY <1>5, <1>7
  <2>9. Fit(top[i])  BY <1>3, <2>2
  <2> HIDE DEF cut, b, text
  <2>10. Reply!WellFormed(b.text) /\ \A k \in DOMAIN b.text : ~b.text[k].injected
    BY <2>7, <2>8, Sanitising
  <2>11. GoodBlock(b)  BY <2>8, <2>9, <2>10 DEF GoodBlock, Fit
  <2> QED  BY <2>11 DEF b
<1> QED  BY <1>6, <1>11 DEF GoodBlocks, Numbered, clean, blocks

-----------------------------------------------------------------------------
\* Only the search, the judge and whoever reads the scope touch what the
\* decision rests on.
LEMMA OtherSteps ==
  ASSUME AInv, [Reply!Next]_(Reply!vars)
  PROVE  \/ Reply!JudgeRanking
         \/ /\ UNCHANGED <<case, setup, context, shown>>
            /\ reason' \in {reason, "blocked", "provider_failed"}
            /\ \/ UNCHANGED <<rankings, allowed>>
               \/ UNCHANGED rankings /\ DOMAIN rankings = {} /\ shown = <<>>
               \/ UNCHANGED allowed /\ (Reply!SearchDense \/ Reply!SearchLexical)
<1>1. CASE Reply!StartTrace
  BY <1>1 DEF Reply!StartTrace, Reply!world
<1>2. CASE Reply!ResolveFails
  BY <1>2 DEF Reply!ResolveFails, Reply!world
<1>3. CASE Reply!AppendUserMessage
  BY <1>3 DEF Reply!AppendUserMessage, Reply!world
<1>4. CASE Reply!InputPolicy
  BY <1>4 DEF Reply!InputPolicy, Reply!world
<1>5. CASE Reply!ReadScope
  BY <1>5 DEF AInv, Searched, Blocks, Beginning, Reply!ReadScope, Reply!world
<1>6. CASE Reply!TransformQuery
  BY <1>6 DEF Reply!TransformQuery, Reply!world, Reply!Rewritten, Reply!RewriteFails, Reply!RewriteTimesOut, Reply!Untransformed, Reply!Transform
<1>7. CASE Reply!SearchDense
  BY <1>7 DEF Reply!SearchDense, Reply!world
<1>8. CASE Reply!EmbeddingFails
  BY <1>8 DEF Reply!EmbeddingFails, Reply!world
<1>9. CASE Reply!SearchLexical
  BY <1>9 DEF Reply!SearchLexical, Reply!world
<1>10. CASE Reply!JudgeRanking  BY <1>10
<1>11. CASE Reply!RerankFails
  BY <1>11 DEF Reply!RerankFails, Reply!world
<1>12. CASE Reply!PersistFallback
  BY <1>12 DEF Reply!PersistFallback, Reply!world
<1>13. CASE Reply!Generate
  BY <1>13 DEF Reply!Generate, Reply!world, Reply!Generated, Reply!ProviderAnswers, Reply!ProviderRefuses, Reply!ProviderUnavailable
<1>14. CASE Reply!PersistReply
  BY <1>14 DEF Reply!PersistReply, Reply!world
<1>23. CASE Reply!MessageNotStored
  BY <1>23 DEF Reply!MessageNotStored, Reply!world
<1>15. CASE Reply!AttachCitations
  BY <1>15 DEF Reply!AttachCitations, Reply!world
<1>16. CASE Reply!FinishTrace
  BY <1>16 DEF Reply!FinishTrace, Reply!world
<1>17. CASE Reply!OthersRecord
  BY <1>17 DEF Reply!OthersRecord, Reply!world, Reply!request
<1>18. CASE Reply!OrphanRecords
  BY <1>18 DEF Reply!OrphanRecords, Reply!world, Reply!request
<1>19. CASE Reply!SetScope
  BY <1>19 DEF Reply!SetScope, Reply!world, Reply!request
<1>20. CASE Reply!SetLive
  BY <1>20 DEF Reply!SetLive, Reply!world, Reply!request
<1>21. CASE Reply!Die
  BY <1>21 DEF Reply!Die, Reply!world
<1>22. CASE UNCHANGED Reply!vars
  BY <1>22 DEF Reply!vars, Reply!world, Reply!request
<1> QED
  BY <1>1, <1>2, <1>3, <1>4, <1>5, <1>6, <1>7, <1>8, <1>9, <1>10, <1>11, <1>12, <1>13, <1>14,
     <1>15, <1>16, <1>17, <1>18, <1>19, <1>20, <1>21, <1>22, <1>23 DEF Reply!Next, Reply!Request

\* Only what fits is searched.
LEMMA SearchableFits ==
  ASSUME NEW m, m.chunk \in Reply!Searchable, setup.pipeline = "dense" => m.score >= setup.floor
  PROVE  Fit(m)
BY DEF Fit, Reply!Searchable

\* Every step preserves Sourced.
LEMMA SourcedStep ==
  ASSUME AInv, Sourced, [Reply!Next]_(Reply!vars)
  PROVE  Sourced'
<1>1. CASE Reply!JudgeRanking
  <2>1. rankings' = <<>>  BY <1>1, Judged
  <2>2. DOMAIN rankings' = {}  BY <2>1
  <2> QED  BY <2>2 DEF Sourced
<1>2. CASE UNCHANGED <<case, setup, rankings, allowed>>
  BY <1>2 DEF Sourced, Fit
<1>3. CASE UNCHANGED rankings /\ DOMAIN rankings = {}
  BY <1>3 DEF Sourced
<1>4. ASSUME NEW r, rankings' = Append(rankings, r), \A i \in DOMAIN r : Fit(r[i]),
             UNCHANGED <<setup, allowed>>
      PROVE  Sourced'
  <2> DEFINE S == {rankings[i] : i \in DOMAIN rankings} \cup {r}
  <2>1. rankings \in Seq(S)  BY SeqDef DEF AInv, Searched, IsSeq
  <2> HIDE DEF S
  <2>2. \A q \in DOMAIN rankings' : rankings'[q] = IF q \in DOMAIN rankings THEN rankings[q] ELSE r
    BY <1>4, <2>1, r \in S DEF S
  <2>3. \A q \in DOMAIN rankings' : \A i \in DOMAIN rankings'[q] : Fit(rankings'[q][i])
    BY <1>4, <2>2 DEF Sourced
  <2> QED  BY <1>4, <2>3 DEF Sourced, Fit
<1>5. CASE Reply!SearchDense /\ UNCHANGED <<setup, allowed>>
  <2>1. PICK score \in [Reply!Searchable -> Scores] :
          rankings' = Append(rankings, Reply!DenseSearch(Reply!Searchable, score, Reply!DenseLimit,
                                                         Reply!DenseFloor))
    BY <1>5 DEF Reply!SearchDense
  <2> DEFINE r == Reply!DenseSearch(Reply!Searchable, score, Reply!DenseLimit, Reply!DenseFloor)
  <2>2. Reply!DenseLimit \in Nat
    BY Constants DEF AInv, Searched, Reply!DenseLimit, Reply!DenseQueries, Reply!CandidateLimit,
       Reply!Larger
  <2>3. \A i \in DOMAIN r : r[i].chunk \in Reply!Searchable /\ r[i].score >= Reply!DenseFloor
    <3>1. \A c \in Reply!Searchable : score[c] \in Nat  BY Constants
    <3> QED  BY <2>2, <3>1, SearchableChunks, FloorIsNat, DenseIsRanking
  <2>4. setup.pipeline = "dense" => Reply!DenseFloor = setup.floor  BY DEF Reply!DenseFloor
  <2> HIDE DEF r
  <2>5. \A i \in DOMAIN r : Fit(r[i])  BY <2>3, <2>4, SearchableFits
  <2> QED  BY <1>4, <1>5, <2>1, <2>5 DEF r
<1>6. CASE Reply!SearchLexical /\ UNCHANGED <<setup, allowed>>
  <2> DEFINE wordsIn == [c \in Chunks |-> Reply!ToSet(Reply!WholeText(case.texts[c]))]
             r == Reply!LexicalSearch(Reply!Searchable, Reply!question.terms, wordsIn, Pool)
  <2>1. rankings' = Append(rankings, r) /\ pc = "lexical"  BY <1>6 DEF Reply!SearchLexical
  <2>2. setup.pipeline # "dense"  BY <2>1 DEF AInv, Searched
  <2>3. \A i \in DOMAIN r : r[i].chunk \in Reply!Searchable
    <3>1. IsFiniteSet(Reply!question.terms)  BY Constants DEF AInv, Searched, Posed, Reply!question
    <3> QED  BY <3>1, SearchableChunks, Constants, LexicalIsRanking
  <2> HIDE DEF r
  <2>4. \A i \in DOMAIN r : Fit(r[i])  BY <2>2, <2>3, SearchableFits
  <2> QED  BY <1>4, <1>6, <2>1, <2>4
<1> QED  BY <1>1, <1>2, <1>3, <1>5, <1>6, OtherSteps

-----------------------------------------------------------------------------
\* The requirement, in its parts.
Right ==
  /\ shown # <<>> /\ Reply!Specific(Reply!Fact) =>
       AnsweredRightly(Reply!ToSet(context), Reply!ToSet(shown))
  /\ \A b \in Reply!ToSet(shown) : MayBeShown(b)
  /\ RefusedRightly(Reply!ToSet(context), reason)

LEMMA RightIsRight == Right <=> DecisionIsRight
BY DEF Right, AnsweredRightly, MayBeShown, RefusedRightly, DecisionIsRight, Reply!DecisionIsRight

\* What is right stays right while the case, the context and what is shown do.
LEMMA StaysRight ==
  ASSUME Right, UNCHANGED <<case, setup, context, shown>>,
         allowed' = allowed \/ shown = <<>>,
         reason' \in {reason, "blocked", "provider_failed"}
  PROVE  Right'
<1>1. /\ Reply!Fact' = Reply!Fact /\ (Reply!v3)' = Reply!v3
      /\ \A b : Reply!StatesWithin(b, 3)' <=> Reply!StatesWithin(b, 3)
      /\ \A b : Reply!StatesOutright(b)' <=> Reply!StatesOutright(b)
      /\ \A b : Reply!ValuesIn(b)' = Reply!ValuesIn(b)
      /\ Reply!AllCompared' <=> Reply!AllCompared
  BY Unmoved
<1> DEFINE blocks == Reply!ToSet(context)  those == Reply!ToSet(shown)
<1>2. blocks' = blocks /\ those' = those  OBVIOUS
<1>3. \A a, b : Reply!Disagree(a, b)' <=> Reply!Disagree(a, b)  BY <1>1 DEF Reply!Disagree
<1>4. UNION {Reply!ValuesIn(b) : b \in blocks}' = UNION {Reply!ValuesIn(b) : b \in blocks}
  BY <1>1, <1>2
<1>5. Reply!Specific(Reply!Fact)' <=> Reply!Specific(Reply!Fact)  BY <1>1 DEF Reply!Specific
<1> HIDE DEF blocks, those
<1>6. AnsweredRightly(blocks, those)' <=> AnsweredRightly(blocks, those)
  BY <1>1, <1>2, <1>3 DEF AnsweredRightly
<1>7. RefusedRightly(blocks, reason) => RefusedRightly(blocks, reason)'
  BY <1>1, <1>2, <1>4, <1>5 DEF RefusedRightly
<1>8. \A b \in those' : MayBeShown(b)'
  <2>1. CASE allowed' = allowed  BY <1>2, <2>1 DEF Right, MayBeShown, those
  <2>2. CASE shown = <<>>
    <3>1. those = {}  BY <2>2 DEF those, Reply!ToSet
    <3> QED  BY <1>2, <3>1
  <2> QED  BY <2>1, <2>2
<1> QED  BY <1>2, <1>5, <1>6, <1>7, <1>8 DEF Right, blocks, those

\* The judge makes it right.
LEMMA JudgesRightly ==
  ASSUME AInv, Sourced, Reply!JudgeRanking
  PROVE  Right'
<1>1. PICK r \in Reply!Rankings :
        \E blocks \in {Reply!Sanitised(Reply!AssembleContext(r, case.texts, MaxBlocks, Budget))} :
          \E verdict \in {Reply!Verdict(blocks)} : Reply!Judge(blocks, verdict)
  BY DEF Reply!JudgeRanking
<1> DEFINE blocks == Reply!Sanitised(Reply!AssembleContext(r, case.texts, MaxBlocks, Budget))
           verdict == Reply!Verdict(blocks)
           d == Reply!Decision(blocks, verdict)
           chosen == Reply!Shown(blocks, verdict)
           U(S) == UNION {Reply!ValuesIn(b) : b \in S}
<1>2. /\ pc = "judge" /\ Reply!Judge(blocks, verdict)
      /\ UNCHANGED <<case, setup, allowed>>
  BY <1>1 DEF Reply!JudgeRanking, Reply!world
<1>3. Posed  BY DEF AInv, Searched
<1>4. GoodBlocks(blocks)
  <2>1. \A c \in Chunks : Reply!WellFormed(case.texts[c])
    BY <1>3, AnsweringAssumption DEF Posed, Reply!Admissible
  <2>2. IsSeq(r) /\ \A i \in DOMAIN r : Fit(r[i])  BY <1>2, RankingIsSeq, RankingFits
  <2> QED  BY <2>1, <2>2, ContextIsGood
<1>5. shown = <<>>  BY <1>2 DEF AInv, Blocks, Beginning
<1> HIDE DEF blocks
<1>6. context' = blocks /\ reason' = d /\ shown' = IF d = "sufficient_evidence" THEN chosen ELSE <<>>
  BY <1>2, <1>5 DEF Reply!Judge
<1>7. RefusedRightly(Reply!ToSet(blocks), d)  BY <1>3, <1>4, RefusesRightly
<1>8. d = "sufficient_evidence" /\ Reply!Specific(Reply!Fact) =>
        AnsweredRightly(Reply!ToSet(blocks), Reply!ToSet(chosen))
  BY <1>3, <1>4, AnswersRightly
<1>9. \A b \in Reply!ToSet(chosen) : MayBeShown(b)
  <2>1. DOMAIN verdict.outcomes \subseteq DOMAIN blocks
    <3>1. DOMAIN Outcomes(blocks) = DOMAIN blocks  BY DEF Outcomes
    <3>2. verdict.outcomes = Outcomes(blocks) \/ verdict.outcomes = <<>>  BY VerdictRests
    <3>3. DOMAIN <<>> = {}  OBVIOUS
    <3> HIDE DEF verdict
    <3> QED  BY <3>1, <3>2, <3>3
  <2>2. IsSeq(blocks)  BY <1>4 DEF GoodBlocks
  <2> HIDE DEF verdict
  <2>3. \A b \in Reply!ToSet(chosen) : \E i \in DOMAIN blocks : b = blocks[i]
    <3>1. Reply!Direct(verdict.outcomes) \subseteq DOMAIN blocks  BY <2>1 DEF Reply!Direct
    <3> QED  BY <2>1, <2>2, <3>1, ShownAre
  <2> QED  BY <1>4, <2>3 DEF GoodBlocks, GoodBlock, MayBeShown
<1> HIDE DEF verdict, d, chosen
<1>10. /\ shown' # <<>> /\ Reply!Specific(Reply!Fact) =>
            AnsweredRightly(Reply!ToSet(blocks), Reply!ToSet(shown'))
       /\ \A b \in Reply!ToSet(shown') : MayBeShown(b)
  <2>1. CASE d = "sufficient_evidence"  BY <1>6, <1>8, <1>9, <2>1
  <2>2. CASE d # "sufficient_evidence"
    <3>1. Reply!ToSet(<<>>) = {}  BY DEF Reply!ToSet
    <3> QED  BY <1>6, <2>2, <3>1
  <2> QED  BY <2>1, <2>2
<1>11. /\ Reply!Fact' = Reply!Fact /\ (Reply!v3)' = Reply!v3
       /\ \A b : Reply!StatesWithin(b, 3)' <=> Reply!StatesWithin(b, 3)
       /\ \A b : Reply!StatesOutright(b)' <=> Reply!StatesOutright(b)
       /\ \A b : Reply!ValuesIn(b)' = Reply!ValuesIn(b)
       /\ Reply!AllCompared' <=> Reply!AllCompared
  BY <1>2, Unmoved
<1>12. \A a, b : Reply!Disagree(a, b)' <=> Reply!Disagree(a, b)  BY <1>11 DEF Reply!Disagree
<1>13. Reply!Specific(Reply!Fact)' <=> Reply!Specific(Reply!Fact)  BY <1>11 DEF Reply!Specific
<1>14. Reply!ToSet(context)' = Reply!ToSet(blocks)  BY <1>6
<1>15. AnsweredRightly(Reply!ToSet(context), Reply!ToSet(shown))'
         <=> AnsweredRightly(Reply!ToSet(blocks), Reply!ToSet(shown'))
  BY <1>11, <1>12, <1>14 DEF AnsweredRightly
<1>16. RefusedRightly(Reply!ToSet(context), reason)' <=> RefusedRightly(Reply!ToSet(blocks), d)
  BY <1>6, <1>11, <1>13, <1>14 DEF RefusedRightly
<1>17. \A b : MayBeShown(b)' <=> MayBeShown(b)  BY <1>2 DEF MayBeShown
<1> QED  BY <1>7, <1>10, <1>13, <1>15, <1>16, <1>17 DEF Right

(* An answer has evidence within reach of each other, in scope, not below   *)
(* the floor and sanitised; it has no two chunks that state different       *)
(* values outright, of the types that are compared and where every value is *)
(* (so not of a question of keywords under the second verifier); a refusal  *)
(* has a reason that holds: for every library, request, pipeline, reranker  *)
(* and interleaving.                                                        *)
THEOREM RightDecision == Reply!Spec => []DecisionIsRight
<1> DEFINE RightInv == AInv /\ Sourced /\ Right
<1>1. Reply!Init => RightInv
  <2> SUFFICES ASSUME Reply!Init  PROVE  RightInv  OBVIOUS
  <2>1. AInv  BY AInitially
  <2>2. /\ DOMAIN rankings = {} /\ context = <<>> /\ shown = <<>> /\ reason = NoAnswer
    BY DEF Reply!Init
  <2>3. Reply!ToSet(<<>>) = {}  BY DEF Reply!ToSet
  <2>4. NoAnswer \notin {"requested_fact_absent", "conflicting_evidence", "ambiguous_request",
                         "related_topic_only", "citation_foreign_scope"}
    BY AnsweringAssumption DEF Reply!Admissible
  <2>5. Right  BY <2>2, <2>3, <2>4 DEF Right, RefusedRightly
  <2> QED  BY <2>1, <2>2, <2>5 DEF Sourced
<1>2. RightInv /\ [Reply!Next]_(Reply!vars) => RightInv'
  <2> SUFFICES ASSUME RightInv, [Reply!Next]_(Reply!vars)  PROVE  RightInv'  OBVIOUS
  <2>1. AInv'  BY AStep
  <2>2. Sourced'  BY SourcedStep
  <2>3. Right'
    <3>1. CASE Reply!JudgeRanking  BY <3>1, JudgesRightly
    <3>2. CASE ~Reply!JudgeRanking  BY <3>2, OtherSteps, StaysRight
    <3> QED  BY <3>1, <3>2
  <2> QED  BY <2>1, <2>2, <2>3
<1>3. RightInv => DecisionIsRight  BY RightIsRight
<1> QED  BY <1>1, <1>2, <1>3, PTL DEF Reply!Spec
=============================================================================
