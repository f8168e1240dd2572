SPECIFICATION Spec
CONSTANTS
  MaxSends = 2
  MaxSessions = 2
  MaxMessages = 2
  MaxCalls = 6
  None = None
INVARIANTS
  ThreadIsTrue
  ProcessedOncePerLife
PROPERTIES
  SendsEnd
