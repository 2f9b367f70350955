CHECK_DEADLOCK FALSE
SPECIFICATION Spec
CONSTANTS
  BlockSize = 3
  Flags = 1
  CheckSize = 4
  CLens = {1, 4, 120}
  MaxInput = 8
  WriteSizes = {0, 1, 3, 7}
  MaxRead = 2
  MaxExpansion = 3
INVARIANTS
  XWTypeOK
  NeverRecovers
  BlocksAsConfigured
  ReadsBack
  LocatesBlocks
PROPERTY
  WritesNothingAfterFailure
