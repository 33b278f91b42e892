SPECIFICATION MCSpec
CONSTANTS
  k1 = k1
  k2 = k2
  k3 = k3
  store = store
  swap = swap
  clear = clear
  Key <- MCKey
  KeyBytes <- MCKeyBytes
  Payload <- MCPayload
  Mutations <- MCMutations
  CanonicalBytes <- MCCanonicalBytes
  InitialCursor = 1
  LastCursor = 5
  MaxGapSpan = 3
  MaxPending = 2
  MaxPendingBytes = 3
  Window = 2
  MaxCacheKeys = 2
  MaxCacheIdentityBytes = 3
  MaxOps = 4
  MaxDiagnosticCount = 0
INVARIANTS CountsExact ProjectsLog
  TypeOK CertaintyCurrent WaitsWithReason
  ConflictsPoison PendingBytesExact RecentSuffix
  AuthoritativeViewIsTruth ExactMeansComplete NoFalseEquivocation
PROPERTIES AtomicSpec UnknownIsSticky
CHECK_DEADLOCK FALSE
