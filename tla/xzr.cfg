CHECK_DEADLOCK FALSE
SPECIFICATION MCFairSpec
CONSTANTS
  CheckLen <- CheckSizes
  ParCheckLen <- CheckSizes
  MaxExpansion = 3
  MaxRead = 2
INVARIANTS
  XRTypeOK
  EOFExactlyWhenSound
  CutShortIsUnexpectedEOF
  ParallelAgrees
  SingleStreamAlone
PROPERTY
  ReadsReturn
