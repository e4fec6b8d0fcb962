CONSTANTS
  IdxMod = 4
  TxQueueSize = 4
  RxQueueSize = 4
  VNET_MAX_PENDING = 64
  Bufs = {b1, b2}
  NoBuf = NoBuf
  TxNotifyMayFail = FALSE
  RxNotifyMayFail = FALSE
  Lens = {0, 2}
  MaxPackets = 4
SPECIFICATION DataFairSpec
PROPERTIES
  LentIsReturned
  PacketsAreConsumed
  HostGetsBuffers
