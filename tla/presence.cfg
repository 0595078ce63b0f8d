SPECIFICATION Spec
CONSTANTS
  Clients = {c1, c2}
  Coalesce = 1
  Window = 2
  MaxUpdates = 2
  PingEvery = 2
  Gap = 3
  Stale = 4
  MaxSessions = 3
  MaxMoves = 3
  Budgets <- MCBudgets
SYMMETRY MCInterchangeable
CHECK_DEADLOCK FALSE
INVARIANTS
  OverlayFollowsRoom
  RoomIsTimely
