SPECIFICATION Spec
CONSTANTS
  Replicas = {1, 2}
  Budgets <- MCUndone
INVARIANTS
  UndoConverges
