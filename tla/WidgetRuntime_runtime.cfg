SPECIFICATION Spec
CONSTANTS
  Commands = {c1, c2}
  MaxControllers = 2
  MaxClicks = 1
  MaxForeign = 1
SYMMETRY Interchangeable
INVARIANTS
  StatesAgree
  NothingLeftBehind
  CallsSettle
