SPECIFICATION MCFairSpec
CONSTANTS
  Streams <- LaterStreams
  FirstLen = 4
  ResetLen = 2
  MaxFill = 2
  MaxRead = 3
INVARIANTS
  RTypeOK
  RefusesExactlyIllegal
  DeliversOwnData
  CleanEndIsWhole
PROPERTY
  RCallsReturn
