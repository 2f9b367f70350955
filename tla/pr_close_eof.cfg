\* A Close racing with a call that is about to take the next block.
SPECIFICATION Spec
CONSTANTS
  w1 = w1
  w2 = w2
  c1 = c1
  c2 = c2
  Workers = {w1}
  NBlocks = 2
  Offset <- Offset2
  Faulty = {}
  Large = {}
  Closers = {c1}
  MaxRead = 1
  BufIds <- Buffers
  WriteErrs = {"write"}
  MayAbandon = FALSE
INVARIANTS
  CleanEndIsComplete
