SPECIFICATION FairSpec
CONSTANTS
  StreamLen = 8
  Byte <- MCByte
  Stream <- MCStream
  Capacity = 5
  Pow32 = 64
INVARIANTS DeliversPrefix StoredPieces LoopsMatch
PROPERTIES Refines TakesWhatFits EventuallyAll
