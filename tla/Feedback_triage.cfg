SPECIFICATION TriageSpec
CONSTANTS
  Scanners = {s1, s2}
  Reviewers = {r1, r2}
  Keys = {"low_confidence"}
  Severe = {}
  Asked <- MCAsked
  Verdicts = {"accepted", "resolved"}
  Grades = {2}
  MaxSignals = 2
  MaxScans = 2
  MaxCandidates = 2
  MaxReviews = 2
  TriageNone = TriageNone
SYMMETRY Alike
INVARIANTS
  SightingsAreTrue
  TwinsAreExplained
CHECK_DEADLOCK FALSE
