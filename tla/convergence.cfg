SPECIFICATION Spec
CONSTANTS
  Replicas = {1, 2, 3}
  Budgets <- MCBudgets
INVARIANTS
  StateConvergence
  WellFormed
  RedoInvertsUndo
PROPERTIES
  EditsKeepPlace
