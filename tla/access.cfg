SPECIFICATION Spec
CONSTANTS
  Users = {u1, u2}
  Founder = u1
  Slots = {q1, q2}
  MaxRequests = 2
  MaxErrors = 1
  Sessions = {s1}
  Lookups = {l1, l2}
  TTL = 2
SYMMETRY Interchangeable
CHECK_DEADLOCK FALSE
INVARIANTS
  WellFormed
  DecisionsHold
  AdmissionRechecked
