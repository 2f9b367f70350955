\* What the dispatcher may still hand out after done is closed.
SPECIFICATION Spec
CONSTANTS
  w1 = w1
  w2 = w2
  c1 = c1
  c2 = c2
  Workers = {w1}
  NBlocks = 2
  Offset <- Offset2
  Faulty = {}
  Large = {}
  Closers = {c1}
  MaxRead = 1
  BufIds <- Buffers
  WriteErrs = {"write"}
  MayAbandon = FALSE
PROPERTIES
  NoBlockTakenAfterStop
