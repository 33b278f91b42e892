SPECIFICATION Spec
CONSTANTS
  Minimum = 2
  MaxWidth = 5
  ByteBits = 8
  MaxCodes = 90
  Inputs <- MCInputs
INVARIANTS DecoderInStep RoundTripUnlessUnpadded
CHECK_DEADLOCK FALSE
