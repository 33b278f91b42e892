SPECIFICATION Spec
CONSTANTS
  Text <- MCText
  Decodable <- MCDecodable
  MaxInput = 6
  MaxLineBytes = 2
  MaxTraceBytes = 5
  MaxRecords = 2
INVARIANTS LinesAsSplit VerdictIsBufferFree
CHECK_DEADLOCK FALSE
