\* WriteTo on a writer that fails with io.EOF, then further calls.
SPECIFICATION Spec
CONSTANTS
  w1 = w1
  w2 = w2
  c1 = c1
  c2 = c2
  Workers = {w1}
  NBlocks = 2
  Offset <- Offset2
  Faulty = {}
  Large = {}
  Closers = {}
  MaxRead = 1
  BufIds <- Buffers
  WriteErrs = {"write", "writeEOF"}
  MayAbandon = FALSE
INVARIANTS
  CleanEndIsComplete
