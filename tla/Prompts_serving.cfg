SPECIFICATION Spec
CONSTANTS
  t1 = t1
  t2 = t2
  p1 = p1
  p2 = p2
  v1 = v1
  v2 = v2
  Versions = {v1, v2}
  PlatformVersions = {v1, v2}
  Widgets = {w}
  Platform = Platform
  Keys = {w}
  Processes = {p1, p2}
  Threads = {t1, t2}
  Home <- MCHome
  Experiments = {e}
  TTL = 2
  MaxRows = 2
  None = None
SYMMETRY Alike
CONSTRAINT Apart
INVARIANTS
  OnlyReviewedIsDeployed
  ServedWithinTTL
  KilledStaysDead
CHECK_DEADLOCK FALSE
