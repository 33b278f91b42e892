SPECIFICATION Spec
CONSTANTS
  Header <- MCHeader
  StreamDecl <- MCStreamDecl
  Envelope <- MCEnvelope
  Schedule <- MCSchedule
  MaxRecords = 8
  MaxStreams = 2
  MaxEnvelopes = 3
  MaxSchedules = 2
  MaxFaultActions = 2
  MaxIdentityBytes = 6
  MaxOccurrences = 3
  MaxScheduleWork = 4
  MaxLineBytes = 2
  MaxFingerprintBytes = 4
INVARIANTS LayersAgree SealedTraceExecutes ContractsChargedOnce
CHECK_DEADLOCK FALSE
