------------------------------- MODULE Triage -------------------------------
(***************************************************************************)
(* Feedback under names of its own, so that one module may extend it       *)
(* together with another component: BackOfficeProofs holds its theorems   *)
(* and MCFeedback gives the instance that TLC checks.                      *)
(***************************************************************************)
EXTENDS Naturals

CONSTANTS
  Scanners, Reviewers, Keys, Severe, Asked, Verdicts, Grades,
  MaxSignals, MaxScans, MaxCandidates, MaxReviews,
  TriageNone        \* Feedback's None

VARIABLES
  raised, scanners, reviewers, begun, story, crowded,
  queue             \* its cands

Queue == INSTANCE Feedback WITH None <- TriageNone, cands <- queue

ASSUME TriageAssumption == Queue!Admissible

TriageSpec == Queue!Spec

\* A candidate counts sightings that there were, and is no more severe than they
\* warrant: Feedback's property of scans and reviews that overlap.
SightingsAreTrue == Queue!SightingsAreTrue
\* Two open candidates of one key have a cause: Feedback's property of
\* deduplication.
TwinsAreExplained == Queue!TwinsAreExplained
=============================================================================
