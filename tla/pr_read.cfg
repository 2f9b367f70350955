\* Two workers, blocks of 2, 0 and 1 bytes, faults in the first two, no Close.
SPECIFICATION Spec
CONSTANTS
  w1 = w1
  w2 = w2
  c1 = c1
  c2 = c2
  Workers = {w1, w2}
  NBlocks = 3
  Offset <- Offset3
  Faulty = {1, 2}
  Large = {3}
  Closers = {}
  MaxRead = 2
  BufIds <- Buffers
  WriteErrs = {"write"}
  MayAbandon = FALSE
SYMMETRY WorkerSymmetry
INVARIANTS
  TypeOK
  InOrder
  CleanEndIsComplete
  BufferOwnership
PROPERTIES
  MeetsContract
