SPECIFICATION GatewaySpec
CONSTANTS
  Requests = {r1, r2, r3}
  Clients = {c1, c2}
  NoClient = NoClient
  Platform = Platform
  NumRules = 2
  PerClient = {2}
  FailOpen = {1}
  Capacity <- Capacities
  Refill <- Refills
  Period <- Periods
  Cost = 1
  FallbackEnabled = TRUE
  Skew = 0
  MaxLate = 1
  MaxTime = 6
  Visits = {v1, v2}
  Keys = {"k1", "k2"}
  FirstKey = "k1"
  Pages = {"page", "sub", "none"}
  Refused = {"none"}
  Wildcard = "*"
  Covered = {"sub"}
  FirstOrigins = {{"page"}, {"*"}}
  MaxRevision = 2
  MaxChanges = 2
  MaxWork = 3
  None = None
SYMMETRY Interchangeable
INVARIANTS
  BucketsBalance
  AdmittedByRules
  AnswersAreJust
  NotModifiedIsTrue
  VisitsAreObserved
PROPERTIES
  RetryAfterIsExact
