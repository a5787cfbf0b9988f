SPECIFICATION Spec
CONSTANTS
  Cli = {c1}
  Child = {x1}
  Key <- OneKey
  Startup <- NoBreaks
  NoOne = NoOne
  f1 = f1
  f2 = f2
  l1 = l1
  l2 = l2
  l3 = l3
  plain = plain
  cond = cond
SYMMETRY Perms
INVARIANT CaptureNeverLeaks
CHECK_DEADLOCK FALSE
