SPECIFICATION WFairSpec
CONSTANTS
  MaxUncompressed = 16
  MaxCompressed = 14
  Margin = 7
  Ops <- SmallOps
  MaxMatchLen = 5
  DictCap = 10
  BufSize = 5
  MaxInput = 28
  WriteSizes = {0, 3, 16}
INVARIANTS
  WTypeOK
  ChunksFit
  OnlyIOFails
  Contiguous
PROPERTIES
  SilentAfterFailure
  FlushWritesAll
  WCallsReturn
