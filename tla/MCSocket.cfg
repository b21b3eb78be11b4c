SPECIFICATION FairSpec
CONSTANTS
  Pow32 = 64
  Pow16 = 8
  MAX_PAYLOAD_SIZE = 2
  MAX_RETX_ATTEMPTS = 0
  LingerFactor = 1
  PipeSize = 1
  MaxWrite = 2
  Modes = {"connect", "listen"}
  ISN = 63
  PeerISN = 7
  SendCapacity = 1
  RecvCapacity = 2
  RetxTimeout = 1
  PeerWindow = 1
  MaxOut = 2
  MaxIn = 2
INVARIANTS InboundInOrder OutboundInOrder EndOfFileIsTrue
 
CHECK_DEADLOCK FALSE
