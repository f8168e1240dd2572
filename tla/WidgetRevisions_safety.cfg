SPECIFICATION FairSpec
CONSTANTS
  Requests = {r1, r2, r3}
  Fields = {f1, f2}
  Initial = Initial
  MaxRevision = 7
INVARIANTS
  DraftsWhole
  PublishedHashMatches
PROPERTIES
  ImplementsHistory
  Responds
