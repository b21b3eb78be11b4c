SPECIFICATION Spec
CONSTANTS
  Pow32 = 32
  Pow16 = 8
  MAX_PAYLOAD_SIZE = 1
  MAX_RETX_ATTEMPTS = 0
  LingerFactor = 2
  Client = Client
  Server = Server
  ClientISN = 31
  ServerISN = 7
  Capacity = 2
  RetxTimeout = 1
  ClientBytes = 1
  ServerBytes = 0
  MaxBytes <- MCMaxBytes
  Impatient = {Server}
  Duplicating = TRUE
  MaxTick = 1
INVARIANTS EndToEnd AckedIsReceived CleanCloseIsComplete
CHECK_DEADLOCK FALSE
