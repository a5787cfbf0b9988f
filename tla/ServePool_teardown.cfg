SPECIFICATION Spec
CONSTANTS
  Call <- Calls
  Closer <- Closers
  Probe <- Probes
  Knock <- Knocks
  NoOne = NoOne
  Limit = 1
  Backlog = 2
  a1 = a1
  c1 = c1
  a2 = a2
  q1 = q1
  k1 = k1
INVARIANT TeardownCompletes
CHECK_DEADLOCK FALSE
