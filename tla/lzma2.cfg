SPECIFICATION Spec
CONSTANTS
  MaxUncompressed = 16
  MaxCompressed = 14
  Margin = 7
  Ops <- SmallOps
  MaxMatchLen = 9
  DictCap = 4
  BufSize = 9
  MaxInput = 20
  WriteSizes = {2, 9}
  MaxFill = 9
  MaxRead = 2
INVARIANTS
  RoundTrip
  EndsAsWritten
  InStep
