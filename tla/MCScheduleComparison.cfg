SPECIFICATION ComparisonSpec
CONSTANTS
  k1 = k1
  k2 = k2
  store = store
  swap = swap
  clear = clear
  Key <- MCKey
  KeyBytes <- MCKeyBytes
  Payload <- MCPayload
  Mutations <- MCMutations
  CanonicalBytes <- MCCanonicalBytes
  InitialCursor = 1
  LastCursor = 3
  MaxGapSpan = 2
  MaxPending = 2
  MaxPendingBytes = 4
  Window = 1
  MaxCacheKeys = 2
  MaxCacheIdentityBytes = 2
  MaxDiagnosticCount = 1
  MaxSources = 3
  MaxOccurrences = 2
INVARIANTS DivergenceIsUnverified ReorderingConverges
CHECK_DEADLOCK FALSE
