\* Growth 1 -> 2 -> 4, then wrapping.
SPECIFICATION Spec
CONSTANTS
  Byte = {0, 1}
  DictCap = 4
  Initial = 1
  MaxMatchLen = 4
  MaxInt = 99
  MaxHead = 5
  MaxWrite = 2
INVARIANTS
  TypeOK
  NotWrappedWhileGrowing
PROPERTIES
  ActsAsEagerDictionary
