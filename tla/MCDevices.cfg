CONSTANTS
  KEY_QUEUE_LEN = 3
  Keys = {k1, k2}
  KEY_NONE = none
  LANES = 4
  BYTE = 2
  MaxTime = 3
  MaxTyped = 5
  Stored <- MCStored
  UseSets <- MCUseSets
SPECIFICATION DevSpec
CHECK_DEADLOCK FALSE
INVARIANTS DevTypeOK KeysInOrder
PROPERTIES ImplementsFifo ImplementsBytes
