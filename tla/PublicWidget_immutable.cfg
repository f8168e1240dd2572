SPECIFICATION Spec
CONSTANTS
  Requests = {r1}
  Keys = {"k1"}
  FirstKey = "k1"
  Pages = {"page", "none"}
  Refused = {"none"}
  Wildcard = "*"
  Covered = {}
  FirstOrigins <- MCFirstOrigins
  MaxRevision = 2
  MaxChanges = 2
  MaxWork = 2
  None = None
PROPERTIES
  PublishedRevisionsStay
