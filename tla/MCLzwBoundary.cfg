SPECIFICATION Spec
CONSTANTS
  Minimum = 4
  MaxWidth = 12
  ByteBits = 8
  MaxCodes = 2361600
  Inputs <- MCAuditedFrame
INVARIANTS RoundTrip
CHECK_DEADLOCK FALSE
