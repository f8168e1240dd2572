---------------------------- MODULE ReleaseGate ----------------------------
(***************************************************************************)
(* Evaluation under names of its own, so that one module may extend it     *)
(* together with another component: BackOfficeProofs holds its theorems   *)
(* and MCEvaluation gives the instance that TLC checks.                    *)
(***************************************************************************)
EXTENDS Naturals

CONSTANTS
  Workers,          \* Evaluation's Threads
  Candidates, Golden, MaxCases, MaxTicks,
  GateNone          \* its None

VARIABLES
  dataset, cands, latest, reported, clock, slipped,
  bumps,            \* its events
  workers           \* its threads

Gate == INSTANCE Evaluation WITH
  Threads <- Workers, None <- GateNone, events <- bumps, threads <- workers

ASSUME ReleaseGateAssumption == Gate!Admissible

ReleaseGateSpec == Gate!Spec

\* A release that passes leaves no failure unfixed that was promoted when the gate
\* began to read and whose acceptance stood until it passed: Evaluation's property of
\* the release gate.
PassMeansFixed == Gate!PassMeansFixed
\* A run of the whole dataset holds every case of the version it is labelled with:
\* Evaluation's property of runs that overlap promotions.
RunCoversItsVersion == Gate!RunCoversItsVersion
=============================================================================
