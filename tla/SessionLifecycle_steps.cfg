SPECIFICATION FairSpec
CONSTANTS
  Starter = {s1, s2}
  Closer = {c1}
  Name = {n1}
  Port = {x1, x2}
  NoOne = NoOne
  LongStarts = FALSE
PROPERTIES StartSparesLiveSessions AbandonedBridgeEnds StartsEnd ClosesEnd
CHECK_DEADLOCK FALSE
