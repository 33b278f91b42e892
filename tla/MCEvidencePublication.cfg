SPECIFICATION Spec
CONSTANTS
  a = a
  b = b
  Documents <- MCDocuments
  Manifest = manifest
  Absent = absent
  Foreign = foreign
  MaxEdits = 1
  MaxDisturbances = 1
INVARIANTS ManifestBindsItsSources StagingIsBounded
PROPERTIES ManifestLast SuccessMeansCurrent
