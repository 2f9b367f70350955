SPECIFICATION WSpec
CONSTANTS
  MaxUncompressed = 16
  MaxCompressed = 14
  Margin = 7
  Ops <- DearOps
  MaxMatchLen = 5
  DictCap = 10
  BufSize = 5
  MaxInput = 28
  WriteSizes = {0, 3, 16}
INVARIANT
  LimitStaysInside
