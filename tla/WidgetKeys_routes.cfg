SPECIFICATION Spec
CONSTANTS
  Requests = {r1, r2, r3}
  Regimes <- BothRegimes
  Origins = {plain, ported, third}
  DefaultPort = {plain}
  MaxOrigins = 2
  MaxKeys = 4
  MaxCopies = 4
SYMMETRY Interchangeable
INVARIANTS
  OverlapKeeps
  SerialKeeps
PROPERTIES
  RotationIsFaithful
