SPECIFICATION Spec
CONSTANTS
  Requests <- SomeRequests
  SizeMod = 1024
  NULL = NULL
  Free = Free
CHECK_DEADLOCK FALSE
INVARIANTS
  SegmentsFit
