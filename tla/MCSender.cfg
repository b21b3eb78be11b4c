SPECIFICATION Spec
CONSTANTS
  Pow32 = 32
  MAX_PAYLOAD_SIZE = 2
  Capacity = 3
  RetxTimeout = 2
  ISN = 30
  MaxBytes = 3
  MaxWindow = 3
  MaxAcks = 2
  MaxTick = 1
  MaxRetx = 0
INVARIANTS SentWithinWindow InFlightExact NothingForgotten SegmentsFaithful NeverLate NeverStuck LoopsMatch
PROPERTIES RetransmitsOldest
