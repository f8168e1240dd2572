SPECIFICATION ReleaseGateSpec
CONSTANTS
  Workers = {t1, t2}
  Candidates = {c1, c2}
  Golden = 0
  MaxCases = 2
  MaxTicks = 3
  GateNone = GateNone
SYMMETRY Alike
INVARIANTS
  PassMeansFixed
  RunCoversItsVersion
CHECK_DEADLOCK FALSE
