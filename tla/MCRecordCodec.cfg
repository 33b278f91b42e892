SPECIFICATION Spec
CONSTANTS
  Line <- MCLine
  Serialized <- MCSerialized
  MaxSafeInteger = 10
  MaxLineBytes = 24
  MaxDepth = 3
  MaxValues = 4
  MaxStringBytes = 4
  MaxTotalStringBytes = 6
  MaxArrayItems = 2
  MaxObjectMembers = 2
INVARIANTS AcceptedWithinBudgets AcceptedIntegersOnly
CHECK_DEADLOCK FALSE
