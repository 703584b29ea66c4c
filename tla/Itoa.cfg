SPECIFICATION Spec
CONSTANTS
  Values <- MCValues
  BufferSize = 5
INVARIANTS
  TypeOK
  StaysInBuffer
  NumeralWritten
PROPERTIES
  Returns
