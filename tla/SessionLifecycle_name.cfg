SPECIFICATION Spec
CONSTANTS
  Starter = {s1, s2, s3}
  Closer = {c1}
  Name = {n1}
  Port = {x1, x2, x3}
  NoOne = NoOne
  LongStarts = FALSE
SYMMETRY Perms
INVARIANTS TypeOK FailedStartLeavesNothing AnsweredByOwnBridge OneBridgePerName 
CHECK_DEADLOCK FALSE
