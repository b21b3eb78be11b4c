SPECIFICATION FairSpec
CONSTANTS
  Pow32 = 32
  Pow16 = 8
  MAX_PAYLOAD_SIZE = 1
  MAX_RETX_ATTEMPTS = 0
  LingerFactor = 2
  Client = Client
  Server = Server
  ClientISN = 31
  ServerISN = 7
  Capacity = 1
  RetxTimeout = 1
  ClientBytes = 2
  ServerBytes = 0
  MaxBytes <- MCMaxBytes
  Impatient = {}
  Duplicating = FALSE
  MaxTick = 1
PROPERTY FinAlwaysSent
CHECK_DEADLOCK FALSE
