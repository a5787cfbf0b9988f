SPECIFICATION FairSpec
CONSTANTS
  Cli = {c1, c2}
  Child = {x1}
  Key <- TwoConds
  Startup <- OneKey
  NoOne = NoOne
  f1 = f1
  f2 = f2
  l1 = l1
  l2 = l2
  l3 = l3
  plain = plain
  cond = cond
INVARIANT TypeOK
PROPERTY SlotsAreFreed
CHECK_DEADLOCK FALSE
