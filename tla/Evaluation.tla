----------------------------- MODULE Evaluation -----------------------------
(***************************************************************************)
(* The golden dataset of one assistant and the gate in front of a release: *)
(* accepted production failures are promoted to cases, which bumps the     *)
(* dataset's version; runs answer and score cases; regression reports      *)
(* compare runs; the gate reads all of it and lets a release pass or not.  *)
(*                                                                         *)
(* Each is a process of its own that reads statement by statement, under   *)
(* READ COMMITTED, what the others commit.  A row's created_at is when its *)
(* transaction began, here a tick of a clock that every writing            *)
(* transaction advances.  A result counts for nothing before its run has   *)
(* completed, so that a run's results and completion are one step.         *)
(***************************************************************************)
EXTENDS Integers, Sequences, FiniteSets

CONSTANTS
  Threads,
  Candidates,       \* candidates of the triage queue, accepted at first
  Golden,           \* number of cases the dataset starts with
  MaxCases, MaxTicks,   \* bounds
  None

\* Assumed by ReleaseGate, which instantiates this module.
Admissible ==
  /\ Golden \in Nat /\ MaxCases \in Nat /\ MaxTicks \in Nat
  /\ Golden <= MaxCases
  /\ None \notin Candidates

VARIABLES
  dataset,     \* its version and its cases
  cands,       \* evaluation_candidates: accepted or not, and the case promoted to
  events,      \* evaluation_dataset_version_events, in the order of their commits
  latest,      \* the evaluation_run completed last
  reported,    \* created_at of the latest regression report, or 0
  threads,     \* what each process does
  clock,       \* time
  slipped      \* history: failures a release passed with, fixed or not in the run its gate read

vars == <<dataset, cands, events, latest, reported, threads, clock, slipped>>

Cases    == 1 .. MaxCases
Times    == 0 .. MaxTicks
Versions == 1 .. 1 + MaxCases
Run      == [label : Versions, cases : SUBSET Cases, full : BOOLEAN, passed : SUBSET Cases, hard : BOOLEAN]
Event    == [from : Versions, to : Versions, case : Cases, createdAt : Times]
Work     ==
  [op : {"promote"}, candidate : Candidates, began : Times, version : Versions \cup {None}]
    \cup [op : {"run"}, version : Versions, todo : SUBSET Cases, full : BOOLEAN]
    \cup [op : {"report"}, began : Times]
    \cup [op : {"gate"}, at : {"run", "candidates", "event", "report"}, version : Versions,
          required : SUBSET Cases,   \* history: see StartGate
          run : Run \cup {None}, since : Times]

TypeOK ==
  /\ dataset \in [version : Versions, size : 0 .. MaxCases]
  /\ cands \in [Candidates -> [accepted : BOOLEAN, case : Cases \cup {None}]]
  /\ events \in Seq(Event) /\ latest \in Run \cup {None}
  /\ reported \in Times /\ clock \in Times
  /\ threads \in [Threads -> Work \cup {None}]
  /\ slipped \subseteq Cases

-----------------------------------------------------------------------------
Idle(t)       == threads[t] = None
Does(t, op)   == ~Idle(t) /\ threads[t].op = op
Gates(t, at)  == Does(t, "gate") /\ threads[t].at = at
Turn(t, work) == threads' = [threads EXCEPT ![t] = work]
Done(t)       == Turn(t, None)

Tick == clock < MaxTicks /\ clock' = clock + 1
Promoted(c) == cands[c].accepted /\ cands[c].case # None

-----------------------------------------------------------------------------
(* The dataset.                                                            *)

\* A reviewer takes an acceptance back, to a status that is final or not, and a gate
\* under way owes nothing more to that candidate.
Withdraw(c) ==
  /\ cands[c].accepted
  /\ cands' = [cands EXCEPT ![c].accepted = FALSE]
  /\ threads' = [t \in Threads |->
                   IF Does(t, "gate") THEN [threads[t] EXCEPT !.required = @ \ {cands[c].case}] ELSE threads[t]]
  /\ UNCHANGED <<dataset, events, latest, reported, clock, slipped>>

\* From a status that is not final a candidate may be accepted, again or for the first
\* time; the case it was promoted to before is still its own.
Accept(c) ==
  /\ ~cands[c].accepted
  /\ cands' = [cands EXCEPT ![c].accepted = TRUE]
  /\ UNCHANGED <<dataset, events, latest, reported, threads, clock, slipped>>

\* A case written by hand leaves the version alone.
CreateCase ==
  /\ dataset.size < MaxCases
  /\ dataset' = [dataset EXCEPT !.size = @ + 1]
  /\ UNCHANGED <<cands, events, latest, reported, threads, clock, slipped>>

FindCandidate(t, c) ==
  /\ Idle(t) /\ cands[c].accepted
  /\ Tick
  /\ Turn(t, [op |-> "promote", candidate |-> c, began |-> clock', version |-> None])
  /\ UNCHANGED <<dataset, cands, events, latest, reported, slipped>>

FindDataset(t) ==
  /\ Does(t, "promote") /\ threads[t].version = None
  /\ Turn(t, [threads[t] EXCEPT !.version = dataset.version])
  /\ UNCHANGED <<dataset, cands, events, latest, reported, clock, slipped>>

\* Case, version, event and pointer in one commit, from the version as it was read.
CommitPromotion(t) ==
  LET work == threads[t]
      case == dataset.size + 1
      to   == work.version + 1
  IN
  /\ Does(t, "promote") /\ work.version # None
  /\ dataset.size < MaxCases
  /\ dataset' = [version |-> to, size |-> case]
  /\ events' = Append(events, [from |-> work.version, to |-> to, case |-> case, createdAt |-> work.began])
  /\ cands' = [cands EXCEPT ![work.candidate].case = case]
  /\ Done(t)
  /\ UNCHANGED <<latest, reported, clock, slipped>>

-----------------------------------------------------------------------------
(* Runs and reports.                                                       *)

StartRun(t) ==
  /\ Idle(t)
  /\ Turn(t, [op |-> "run", version |-> dataset.version, todo |-> {}, full |-> FALSE])
  /\ UNCHANGED <<dataset, cands, events, latest, reported, clock, slipped>>

\* The whole dataset, or the cases a category, an option or their origin selects.
ListCases(t) ==
  /\ Does(t, "run") /\ threads[t].todo = {}
  /\ \E todo \in SUBSET (1 .. dataset.size) \ {{}} :
       Turn(t, [threads[t] EXCEPT !.todo = todo, !.full = todo = 1 .. dataset.size])
  /\ UNCHANGED <<dataset, cands, events, latest, reported, clock, slipped>>

\* Variant of the next: the label is the version at the end.
CompleteRunRelabelled(t) ==
  /\ Does(t, "run") /\ threads[t].todo # {}
  /\ \E passed \in SUBSET threads[t].todo :
       latest' = [label |-> dataset.version, cases |-> threads[t].todo, full |-> threads[t].full,
                  passed |-> passed, hard |-> FALSE]
  /\ Done(t)
  /\ UNCHANGED <<dataset, cands, events, reported, clock, slipped>>

\* Each case passes, fails or fails hard.
CompleteRun(t) ==
  LET work == threads[t] IN
  /\ Does(t, "run") /\ work.todo # {}
  /\ \E passed \in SUBSET work.todo : \E hard \in {FALSE} \cup {passed # work.todo} :
       latest' = [label |-> work.version, cases |-> work.todo, full |-> work.full,
                  passed |-> passed, hard |-> hard]
  /\ Done(t)
  /\ UNCHANGED <<dataset, cands, events, reported, clock, slipped>>

StartReport(t) ==
  /\ Idle(t) /\ latest # None
  /\ Tick
  /\ Turn(t, [op |-> "report", began |-> clock'])
  /\ UNCHANGED <<dataset, cands, events, latest, reported, slipped>>

CommitReport(t) ==
  /\ Does(t, "report")
  /\ reported' = IF threads[t].began > reported THEN threads[t].began ELSE reported
  /\ Done(t)
  /\ UNCHANGED <<dataset, cands, events, latest, clock, slipped>>

-----------------------------------------------------------------------------
(* The gate: a reason not to pass ends it.                                 *)

\* It owes every failure promoted by now, while the acceptance stands.
StartGate(t) ==
  /\ Idle(t)
  /\ Turn(t, [op |-> "gate", at |-> "run", version |-> dataset.version, run |-> None, since |-> 0,
               required |-> {cands[c].case : c \in {d \in Candidates : Promoted(d)}}])
  /\ UNCHANGED <<dataset, cands, events, latest, reported, clock, slipped>>

ReadLatestRun(t) ==
  /\ Gates(t, "run")
  /\ latest # None
  /\ latest.label = threads[t].version /\ ~latest.hard
  /\ Turn(t, [threads[t] EXCEPT !.at = "candidates", !.run = latest])
  /\ UNCHANGED <<dataset, cands, events, latest, reported, clock, slipped>>

\* Variant of the next: a case without a result is no reason.
FixedIfRun(t) ==
  \A c \in Candidates :
    Promoted(c) /\ cands[c].case \in threads[t].run.cases => cands[c].case \in threads[t].run.passed

Fixed(t) == \A c \in Candidates : Promoted(c) => cands[c].case \in threads[t].run.passed

ReadCandidates(t) ==
  /\ Gates(t, "candidates")
  /\ Fixed(t)
  /\ Turn(t, [threads[t] EXCEPT !.at = "event"])
  /\ UNCHANGED <<dataset, cands, events, latest, reported, clock, slipped>>

\* The latest bump is the one whose transaction began last.
LatestBump ==
  IF events = <<>> THEN 0
  ELSE CHOOSE n \in {events[i].createdAt : i \in DOMAIN events} :
         \A i \in DOMAIN events : events[i].createdAt <= n

ReadLatestEvent(t) ==
  /\ Gates(t, "event")
  /\ Turn(t, [threads[t] EXCEPT !.at = "report", !.since = LatestBump])
  /\ UNCHANGED <<dataset, cands, events, latest, reported, clock, slipped>>

Pass(t) ==
  /\ Gates(t, "report")
  /\ reported >= threads[t].since
  /\ slipped' = slipped \cup {cands[c].case : c \in {d \in Candidates :
                   Promoted(d) /\ cands[d].case \in threads[t].required \ threads[t].run.passed}}
  /\ Done(t)
  /\ UNCHANGED <<dataset, cands, events, latest, reported, clock>>

\* A gate that finds a reason, the run's age or citations among them, and a process that dies.
GiveUp(t) ==
  /\ ~Idle(t)
  /\ Done(t)
  /\ UNCHANGED <<dataset, cands, events, latest, reported, clock, slipped>>

-----------------------------------------------------------------------------
Init ==
  /\ dataset = [version |-> 1, size |-> Golden]
  /\ cands = [c \in Candidates |-> [accepted |-> TRUE, case |-> None]]
  /\ events = <<>> /\ latest = None /\ reported = 0 /\ clock = 0
  /\ threads = [t \in Threads |-> None] /\ slipped = {}

Step(t) ==
  \/ \E c \in Candidates : FindCandidate(t, c)
  \/ FindDataset(t) \/ CommitPromotion(t)
  \/ StartRun(t) \/ ListCases(t) \/ CompleteRun(t)
  \/ StartReport(t) \/ CommitReport(t)
  \/ StartGate(t) \/ ReadLatestRun(t) \/ ReadCandidates(t) \/ ReadLatestEvent(t) \/ Pass(t)
  \/ GiveUp(t)

Next ==
  \/ \E t \in Threads : Step(t)
  \/ \E c \in Candidates : Withdraw(c) \/ Accept(c)
  \/ CreateCase

Spec == Init /\ [][Next]_vars

-----------------------------------------------------------------------------
(* When the gate lets a release pass, every failure that had been promoted  *)
(* when it began has passed in the run it read, whatever was promoted, run  *)
(* or reported meanwhile and whichever candidates were withdrawn or         *)
(* accepted again.  It says nothing of a failure whose own candidate was    *)
(* not accepted for a while as the gate read, or was promoted again: the    *)
(* gate does not look twice.                                                *)
PassMeansFixed == slipped = {}

(* A run of the whole dataset that is labelled with a version holds every   *)
(* case that was promoted up to the first bump to that version, though      *)
(* overlapping promotions may take one version twice.                       *)
RunCoversItsVersion ==
  latest # None /\ latest.full =>
    \A i, first \in DOMAIN events :
      /\ events[first].to = latest.label
      /\ \A j \in 1 .. first - 1 : events[j].to # latest.label
      /\ i <= first
      => events[i].case \in latest.cases
=============================================================================
