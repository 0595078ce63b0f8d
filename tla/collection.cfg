SPECIFICATION Spec
CONSTANTS
  Clients = {1, 2}
  Typists = {2}
  Base = 2
  MaxTyped = 1
  MaxErased = 2
  MaxUndone = 1
  MaxEdits = 3
  MaxOps = 1
  MaxCycles = 1
CHECK_DEADLOCK FALSE
INVARIANTS
  WellFormed
  SameText
  UndoHonoured
PROPERTIES
  ForgottenIsStable
