SPECIFICATION FairSpec
CONSTANTS
  MaxEdits = 2
  MaxPeerEdits = 1
  MaxConnections = 3
  MaxReloads = 0
  ChunkSize = 2
  FaultModels = {
    {"others", "relay_first", "lookups"},
    {"others", "lanes", "commit_lag", "relay_first", "joining_drop", "lookups"}}
CHECK_DEADLOCK FALSE
INVARIANTS
  CeilingHonest
  ScreenHonest
PROPERTIES
  EditSettles
