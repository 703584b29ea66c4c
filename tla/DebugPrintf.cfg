SPECIFICATION Spec
CONSTANTS
  ULONG = 4096
  Calls <- MCCalls
INVARIANTS
  TypeOK
  MeaningWritten
PROPERTIES
  Returns
CHECK_DEADLOCK FALSE
