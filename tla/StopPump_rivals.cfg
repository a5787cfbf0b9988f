SPECIFICATION Spec
CONSTANTS
  Cli = {c1, c2}
  Child = {x1}
  Idle = Idle
  NoOne = NoOne
  MaxHalts = 1
  MaxLoad = 2
SYMMETRY Perms
INVARIANTS TypeOK NoStopIsLost ParksAreReal
PROPERTIES TimeoutIsHonest AnswersAreFresh OnlyTheHolderResumes
CHECK_DEADLOCK FALSE
