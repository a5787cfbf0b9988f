SPECIFICATION FairSpec
CONSTANTS
  Cli = {c1}
  Child = {}
  Idle = Idle
  NoOne = NoOne
  MaxHalts = 2
  MaxLoad = 1
PROPERTIES StopsArePublished
CHECK_DEADLOCK FALSE
