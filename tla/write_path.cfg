SPECIFICATION AuditSpec
CONSTANTS
  s1 = s1
  s2 = s2
  a = a
  b = b
  c = c
  d = d
  e = e
  NoOp = NoOp
  Sessions <- MCSessions
  Ops <- MCOps
  Dep <- MCDep
  Script <- MCScript
  Budgets <- MCBudgets
  Audited <- MCAudited
  Ceiling = 3
  SweepTimeout = 2
  MaxPending = 1
CHECK_DEADLOCK FALSE
INVARIANTS
  TypeOK
  AckedDurable
  SeqDiscipline
  RelayedMatchesLog
  OpsAccounted
  Restartable
  AuditTells
PROPERTIES
  CatchupBoundStable
  EverySendSettles
