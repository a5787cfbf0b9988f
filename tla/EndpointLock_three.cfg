SPECIFICATION FairSpec
CONSTANTS
  Proc = {p1, p2, p3}
  NoInode = NoInode
  NoBytes = NoBytes
  MaxTries = 2
INVARIANTS TypeOK OneStarterProceeds OneBridgePerEndpoint
PROPERTIES ReleaseOnlyOwn ClaimResolves
CHECK_DEADLOCK FALSE
