SPECIFICATION Spec
CONSTANTS
  MaxBytes = 3
  MaxSafe = 1048575
  UuidLength = 2
  Patches = {0, 1, 2, 127, 128, 200, 255}
  Messages <- MCMessages
CHECK_DEADLOCK FALSE
INVARIANT
  FramesFaithful
