SPECIFICATION Spec
CONSTANTS
  StreamLen = 5
  Byte <- MCByte
  Stream <- MCStream
  Capacity = 3
  Pow32 = 22
INVARIANTS AckIsFirstMissing UnwrapMatchesLoops
PROPERTY NeverTakesBack
