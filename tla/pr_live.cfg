\* One worker, five blocks: a Close, or dropping the reader, may find the dispatcher
\* blocked on a full queue.
SPECIFICATION FairSpec
CONSTANTS
  w1 = w1
  w2 = w2
  c1 = c1
  c2 = c2
  Workers = {w1}
  NBlocks = 5
  Offset <- Offset5
  Faulty = {1}
  Large = {5}
  Closers = {c1}
  MaxRead = 1
  BufIds <- Buffers
  WriteErrs = {"write"}
  MayAbandon = TRUE
INVARIANTS
  QuietAfterClose
  BuffersBounded
PROPERTIES
  CallsReturn
  CloseReturns
  GoroutinesExit
CHECK_DEADLOCK FALSE
