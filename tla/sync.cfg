SPECIFICATION Spec
CONSTANTS
  MaxEdits = 2
  MaxPeerEdits = 1
  MaxConnections = 3
  MaxReloads = 1
  ChunkSize = 1
  FaultModels = {
    {"others", "lanes", "commit_lag", "relay_first", "joining_drop", "lookups", "early_typing"},
    {"others", "lanes", "commit_lag", "relay_first", "joining_drop", "lookups"},
    {"others", "lanes", "commit_lag", "relay_first", "joining_drop"},
    {"closings", "lanes", "commit_lag", "joining_drop", "lookups", "early_typing", "lagging_rows"},
    {"closings", "lanes", "commit_lag", "joining_drop", "lookups", "early_typing", "lagging_rows",
     "lost_rows"}}
CHECK_DEADLOCK FALSE
INVARIANTS
  TypeOK
  ForeignCeilingHonest
  NothingRefused
  RowsComplete
PROPERTIES
  ImplementsDocument
