CONSTANTS
  IdxMod = 8
  TxQueueSize = 4
  VNET_MAX_PENDING = 64
  Bufs = {b1, b2}
  NoBuf = NoBuf
  TxNotifyMayFail = TRUE
SPECIFICATION TxSpec
INVARIANTS
  NeverAlreadyStarted
