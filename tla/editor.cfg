SPECIFICATION Spec
CONSTANTS
  RunMax = 2
  Base <- MCBase
  Texts <- MCTexts
  Compositions <- MCCompositions
  PeerTexts <- MCPeerTexts
  Replicas <- MCReplicas
  Erasures = {"selection", "clusterBackward", "clusterForward", "wordBackward", "wordForward", "lineBackward"}
  CapOps = 2
  MaxInputs = 2
  MaxOthers = 1
  MaxForeign = 1
  MaxEvents = 3
CHECK_DEADLOCK FALSE
INVARIANTS
  PageIntact
  QueueIsUnderWay
  SameTextAtRest
PROPERTIES
  CommitLandsAtAnchor
  ErasesWholeClusters
