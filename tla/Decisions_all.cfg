SPECIFICATION Spec
CONSTANTS
  MaxHeader = 4
  MaxFrame = 7
  ArrayCap = 2
  FieldCap = 5
  TotalCap = 5
  Cut = 3
  Mark = 2
  MaxPasses = 28
  MaxWords = 4
  MaxStrings = 3
  MaxLength = 8
  LastLook = 9
  SettleFor = 2
INVARIANTS SegmentationIsInvisible  NoRivalPasses JudgmentsAgree DiagnosesAreObserved
