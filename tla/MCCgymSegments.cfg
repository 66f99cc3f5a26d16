SPECIFICATION Spec
CONSTANTS
  INT_MAX <- MCIntMax
  ULONG_MAX <- MCULongMax
INVARIANTS
  TypeOK
  UsageUnderstood
  SegmentsPartition
  PositiveCountPartitions
