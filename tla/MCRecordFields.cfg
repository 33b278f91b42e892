SPECIFICATION Spec
CONSTANTS
  Lines <- MCLines
  Built <- MCBuilt
  Profile <- MCProfile
  FingerprintLeft = {50, 400}
  TraceFormat = "v1"
  MaxSafeInteger = 100
  MaxJsonDepth = 64
  MaxU16 = 64
  MaxU32 = 255
  MaxU64 = 65535
  DigestCharacters = 4
INVARIANT UnknownFieldsAreRejected
CHECK_DEADLOCK FALSE
