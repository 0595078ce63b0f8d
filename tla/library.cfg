SPECIFICATION LibrarySpec
CONSTANTS
  Browsers = {"b"}
  Calls = {1, 2}
  Requests = {1, 2}
  Keys = {"k1", "k2"}
  Titles = {"t1", "t2"}
  PageSize = 1
  PartsPerMs = 2
  SignIns <- MCSignIns
  Errands <- MCErrands
CHECK_DEADLOCK FALSE
INVARIANTS
  TypeOK
  SessionHolds
  KeyHonoured
  WalkComplete
