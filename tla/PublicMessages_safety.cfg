SPECIFICATION Spec
CONSTANTS
  Requests = {r1, r2, r3}
  Sessions = {s1}
  Keys = {k1, k2, k3}
  Bodies = {b1, b2}
  MaxMessages = 2
  None = None
SYMMETRY Interchangeable
INVARIANTS
  AtMostOncePerKey
  ConversationWhole
  RecordsAreTrue
  RepliesAgree
  SlotsAccounted
PROPERTIES
  ImplementsContract
