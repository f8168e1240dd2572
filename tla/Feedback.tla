------------------------------ MODULE Feedback ------------------------------
(***************************************************************************)
(* The triage queue of production failures: the scanner that turns an      *)
(* assistant's recent failure signals into candidates, or counts them on   *)
(* the candidate already open, and the reviewers who grade, close, link    *)
(* and file candidates.                                                    *)
(*                                                                         *)
(* Signals with one question, assistant and reason share a key.  A scan    *)
(* looks back over any number of hours, so that scans overlap, and commits *)
(* per signal; scans, triage and crashes interleave at their database      *)
(* statements.  A commit writes the columns changed since the row was      *)
(* loaded, and a scan's session reuses the row of the signal before.       *)
(***************************************************************************)
EXTENDS Integers, Sequences, FiniteSets

CONSTANTS
  Scanners, Reviewers,
  Keys,            \* dedup hashes of the signals
  Severe,          \* keys of the signals in SEVERE_ON_FIRST_OCCURRENCE
  Asked,           \* severity the detector asks for, by key
  Verdicts,        \* statuses reviewers give
  Grades,          \* severities reviewers give
  MaxSignals, MaxScans, MaxCandidates, MaxReviews,  \* bounds
  None

Severities == 0 .. 3   \* low, medium, high and critical
Low        == 0
Medium     == 1
Statuses   == {"new", "triaged", "needs_information", "accepted", "rejected", "duplicate", "resolved"}
Terminal   == {"rejected", "duplicate", "resolved"}
Recurrence == 3        \* _RECURRENCE_ESCALATION_THRESHOLD

\* Assumed by Triage, which instantiates this module.
Admissible ==
  /\ Severe \subseteq Keys /\ Asked \in [Keys -> Severities]
  /\ Verdicts \subseteq Statuses \ {"duplicate"} /\ Grades \subseteq Severities
  /\ {MaxSignals, MaxScans, MaxCandidates, MaxReviews} \subseteq Nat
  /\ None \notin Keys /\ None \notin Statuses /\ None \notin Severities

VARIABLES
  raised,     \* keys of the signals in production data, oldest first
  cands,      \* evaluation_candidates, in the order of their creation
  scanners,   \* the scans under way
  reviewers,  \* the reviewers' requests under way
  begun,      \* number of scans and of reviews begun: bounded
  story,      \* history: what happened to each candidate
  crowded     \* history: two scans have overlapped

vars == <<raised, cands, scanners, reviewers, begun, story, crowded>>

Ids       == 1 .. MaxCandidates
Candidate == [key : Keys, severity : Severities, status : Statuses, count : Nat,
              reopen : BOOLEAN, duplicateOf : Ids \cup {None}]
Row       == [id : Ids, count : Nat, severity : Severities]
Scan      == [todo : SUBSET (1 .. MaxSignals), at : {"look", "back", "create", "bump", "refresh"},
              key : Keys \cup {None}, row : Row \cup {None}, reopen : BOOLEAN]
Review    == [at : {"commit", "link"}, id : Ids, target : Ids \cup {None}, verdict : Statuses \cup {None},
              grade : Severities \cup {None},
              seen : [status : Statuses, severity : Severities]]
Story     == [sightings : Nat, byHand : BOOLEAN, graded : BOOLEAN, revived : BOOLEAN]

TypeOK ==
  /\ raised \in Seq(Keys) /\ cands \in Seq(Candidate)
  /\ scanners \in [Scanners -> Scan \cup {None}]
  /\ reviewers \in [Reviewers -> Review \cup {None}]
  /\ begun \in [scans : 0 .. MaxScans, reviews : 0 .. MaxReviews]
  /\ story \in Seq(Story) /\ Len(story) = Len(cands)
  /\ crowded \in BOOLEAN

-----------------------------------------------------------------------------
(* Candidates.                                                             *)

Of(key)      == {id \in DOMAIN cands : cands[id].key = key}
Open(id)     == cands[id].status \notin Terminal
Escalated(n) == IF n < 3 THEN n + 1 ELSE n
Loaded(id)   == [id |-> id, count |-> cands[id].count, severity |-> cands[id].severity]

\* A new row of the queue.
File(key, severity, reopen, byHand) ==
  /\ Len(cands) < MaxCandidates
  /\ cands' = Append(cands, [key |-> key, severity |-> severity, status |-> "new", count |-> 1,
                             reopen |-> reopen, duplicateOf |-> None])
  /\ story' = Append(story, [sightings |-> IF byHand THEN 0 ELSE 1, byHand |-> byHand,
                             graded |-> FALSE, revived |-> FALSE])

Raise(key) ==
  /\ Len(raised) < MaxSignals
  /\ raised' = Append(raised, key)
  /\ UNCHANGED <<cands, scanners, reviewers, begun, story, crowded>>

-----------------------------------------------------------------------------
(* The scanner.                                                            *)

Scanning(s)        == scanners[s] # None
ScanAt(s, at)      == Scanning(s) /\ scanners[s].at = at
Go(s, scan)        == scanners' = [scanners EXCEPT ![s] = scan]
\* Variant of the next: an accepted candidate is taken for closed.
MatchesUndecided(key) == {id \in Of(key) : Open(id) /\ cands[id].status # "accepted"}

Matches(key)       == {id \in Of(key) : Open(id)}
HasResolved(key)   == \E id \in Of(key) : cands[id].status = "resolved"

StartScan(s) ==
  /\ ~Scanning(s) /\ begun.scans < MaxScans
  /\ \E oldest \in DOMAIN raised :
       Go(s, [todo |-> oldest .. Len(raised), at |-> "look", key |-> None, row |-> None, reopen |-> FALSE])
  /\ begun' = [begun EXCEPT !.scans = @ + 1]
  /\ crowded' = (crowded \/ \E other \in Scanners : Scanning(other))
  /\ UNCHANGED <<raised, cands, reviewers, story>>

\* The open candidate of the next signal; two of them raise out of the whole scan.
Look(s, i) ==
  /\ ScanAt(s, "look") /\ i \in scanners[s].todo
  /\ LET scan  == scanners[s]
         next  == [scan EXCEPT !.todo = @ \ {i}, !.key = raised[i]]
         found == Matches(raised[i])
     IN \/ found = {} /\ Go(s, [next EXCEPT !.at = "back", !.row = None])
        \/ Cardinality(found) > 1 /\ Go(s, None)
        \/ \E id \in found :
             /\ found = {id}
             /\ Go(s, [next EXCEPT !.at = "bump",
                         !.row = IF scan.row # None /\ scan.row.id = id THEN scan.row ELSE Loaded(id)])
  /\ UNCHANGED <<raised, cands, reviewers, begun, story, crowded>>

LookBack(s) ==
  /\ ScanAt(s, "back")
  /\ Go(s, [scanners[s] EXCEPT !.at = "create", !.reopen = HasResolved(scanners[s].key)])
  /\ UNCHANGED <<raised, cands, reviewers, begun, story, crowded>>

InitialSeverity(key, reopen) ==
  LET first == IF key \in Severe THEN Asked[key] ELSE Low
  IN  IF reopen THEN Escalated(first) ELSE first

Create(s) ==
  LET scan     == scanners[s]
      severity == InitialSeverity(scan.key, scan.reopen)
  IN
  /\ ScanAt(s, "create")
  /\ File(scan.key, severity, scan.reopen, FALSE)
  /\ Go(s, [scan EXCEPT !.at = "refresh", !.reopen = FALSE,
                        !.row = [id |-> Len(cands) + 1, count |-> 1, severity |-> severity]])
  /\ UNCHANGED <<raised, reviewers, begun, crowded>>

\* Variant of the next: the second sighting is taken for a recurrence.
RecurredAtSecond(count, severity, key) ==
  IF count > 1 /\ severity = Low THEN (IF Asked[key] = Low THEN Medium ELSE Asked[key]) ELSE severity

\* The severity a candidate is raised to once its count says that it recurs.
Recurred(count, severity, key) ==
  IF count >= Recurrence /\ severity = Low
    THEN (IF Asked[key] = Low THEN Medium ELSE Asked[key])
    ELSE severity

Bump(s) ==
  LET scan     == scanners[s]
      row      == scan.row
      count    == row.count + 1
      severity == Recurred(count, row.severity, scan.key)
  IN
  /\ ScanAt(s, "bump")
  /\ cands' = [cands EXCEPT ![row.id].count = count,
                            ![row.id].severity = IF severity = row.severity THEN @ ELSE severity]
  /\ story' = [story EXCEPT ![row.id].sightings = @ + 1]
  /\ Go(s, [scan EXCEPT !.at = "refresh"])
  /\ UNCHANGED <<raised, reviewers, begun, crowded>>

\* The session keeps the row it refreshed until it has the next signal's; the scan ends after its last.
Refresh(s) ==
  LET scan == scanners[s] IN
  /\ ScanAt(s, "refresh")
  /\ Go(s, IF scan.todo = {} THEN None
           ELSE [scan EXCEPT !.at = "look", !.key = None, !.row = Loaded(scan.row.id)])
  /\ UNCHANGED <<raised, cands, reviewers, begun, story, crowded>>

-----------------------------------------------------------------------------
(* The reviewers.                                                          *)

Reviewing(r)    == reviewers[r] # None
ReviewAt(r, at) == Reviewing(r) /\ reviewers[r].at = at
Answer(r, work) == reviewers' = [reviewers EXCEPT ![r] = work]
Changes(r)      == Reviewing(r) /\ reviewers[r].verdict \notin {None, reviewers[r].seen.status}

\* One commit, that looks for no open candidate.
CreateByHand(key, severity) ==
  /\ File(key, severity, FALSE, TRUE)
  /\ UNCHANGED <<raised, scanners, reviewers, begun, crowded>>

\* A candidate that was closed takes no other verdict.
MayMove(from, to) == from \in Terminal => to = from

Read(r, id, target, verdict, grade) ==
  /\ ~Reviewing(r) /\ begun.reviews < MaxReviews
  /\ verdict # None => MayMove(cands[id].status, verdict)
  /\ Answer(r, [at |-> "commit", id |-> id, target |-> target, verdict |-> verdict,
                grade |-> grade,
                seen |-> [status |-> cands[id].status, severity |-> cands[id].severity]])
  /\ begun' = [begun EXCEPT !.reviews = @ + 1]
  /\ UNCHANGED <<raised, cands, scanners, story, crowded>>

StartTriage(r) ==
  \E id \in DOMAIN cands, verdict \in Verdicts \cup {None}, grade \in Grades \cup {None} :
    /\ verdict # None \/ grade # None
    /\ Read(r, id, None, verdict, grade)

StartMarkDuplicate(r) ==
  \E id, target \in DOMAIN cands : Read(r, id, target, "duplicate", None)

CommitTriage(r) ==
  LET work   == reviewers[r]
      id     == work.id
      status == IF Changes(r) THEN work.verdict ELSE cands[id].status
      grades == work.grade \notin {None, work.seen.severity}
  IN
  /\ ReviewAt(r, "commit")
  /\ cands' = [cands EXCEPT ![id].status = status, ![id].severity = IF grades THEN work.grade ELSE @]
  /\ story' = [story EXCEPT ![id].graded = @ \/ grades,
                            ![id].revived = @ \/ (~Open(id) /\ status \notin Terminal)]
  /\ Answer(r, IF work.target = None THEN None ELSE [work EXCEPT !.at = "link"])
  /\ UNCHANGED <<raised, scanners, begun, crowded>>

\* A commit of its own.
LinkDuplicate(r) ==
  /\ ReviewAt(r, "link")
  /\ cands' = [cands EXCEPT ![reviewers[r].id].duplicateOf = reviewers[r].target]
  /\ Answer(r, None)
  /\ UNCHANGED <<raised, scanners, begun, story, crowded>>

-----------------------------------------------------------------------------
(* Crashes: what was not committed is rolled back.                         *)

CrashScan(s)   == /\ Scanning(s) /\ Go(s, None)
                  /\ UNCHANGED <<raised, cands, reviewers, begun, story, crowded>>
CrashReview(r) == /\ Reviewing(r) /\ Answer(r, None)
                  /\ UNCHANGED <<raised, cands, scanners, begun, story, crowded>>

-----------------------------------------------------------------------------
Init ==
  /\ raised = <<>> /\ cands = <<>> /\ story = <<>>
  /\ scanners = [s \in Scanners |-> None] /\ reviewers = [r \in Reviewers |-> None]
  /\ begun = [scans |-> 0, reviews |-> 0] /\ crowded = FALSE

ScannerStep(s) ==
  \/ StartScan(s) \/ LookBack(s) \/ Create(s) \/ Bump(s) \/ Refresh(s) \/ CrashScan(s)
  \/ \E i \in DOMAIN raised : Look(s, i)

ReviewerStep(r) ==
  \/ StartTriage(r) \/ StartMarkDuplicate(r) \/ CommitTriage(r) \/ LinkDuplicate(r) \/ CrashReview(r)

Next ==
  \/ \E key \in Keys : Raise(key)
  \/ \E s \in Scanners : ScannerStep(s)
  \/ \E r \in Reviewers : ReviewerStep(r)
  \/ \E key \in Keys, severity \in Grades : CreateByHand(key, severity)

Spec == Init /\ [][Next]_vars

-----------------------------------------------------------------------------
(* "Do not treat every fallback as a defect": a candidate never counts more *)
(* sightings than were committed on it and, while scans never overlap,      *)
(* counts each, whatever reviewers write meanwhile and whichever scans      *)
(* crash (the first is a reviewer's own if it was filed by hand); and what  *)
(* a scan made of an ordinary signal is louder than low only once three     *)
(* were counted, unless a reviewer graded it or its problem had been        *)
(* resolved before.                                                         *)
SightingsAreTrue ==
  \A id \in DOMAIN cands :
    LET seen == story[id].sightings + (IF story[id].byHand THEN 1 ELSE 0)
    IN  /\ cands[id].count <= seen /\ (~crowded => cands[id].count = seen)
        /\ \/ cands[id].severity = Low \/ cands[id].key \in Severe \/ cands[id].reopen
           \/ story[id].byHand \/ story[id].graded \/ story[id].sightings >= Recurrence

(* One key has two open candidates, on which every later scan of it stops,  *)
(* only if scans overlapped, a reviewer filed one by hand, or a verdict     *)
(* read before another closed the candidate opened it again.                *)
TwinsAreExplained ==
  \A key \in Keys : Cardinality({id \in Of(key) : Open(id)}) > 1 =>
    crowded \/ \E id \in Of(key) : story[id].byHand \/ story[id].revived
=============================================================================
