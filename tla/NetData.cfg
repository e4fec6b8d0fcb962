CONSTANTS
  IdxMod = 8
  TxQueueSize = 4
  RxQueueSize = 4
  VNET_MAX_PENDING = 64
  Bufs = {b1, b2, b3}
  NoBuf = NoBuf
  TxNotifyMayFail = TRUE
  RxNotifyMayFail = TRUE
  Lens = {0, 2}
  MaxPackets = 8
SYMMETRY BufSymmetry
SPECIFICATION DataSpec
INVARIANTS
  TxChains
  TxDmaMapped
  TxAsserts
  RxChains
  DeliveredInOrder
PROPERTIES
  ImplementsTxPool
