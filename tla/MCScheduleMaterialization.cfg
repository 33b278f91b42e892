SPECIFICATION ExecutionSpec
CONSTANTS
  MaxPrefix = 3
  MaxOccurrence = 2
  MaxFaultActions = 3
  MaxCopies = 2
  MaxOccurrences = 5
  WorkLeft = 5
  MaxStreams = 2
INVARIANTS PlansNeverBreak DeliversPlanned StreamsAreIsolated
PROPERTY OrderSpec
CHECK_DEADLOCK FALSE
