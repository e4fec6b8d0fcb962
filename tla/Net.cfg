CONSTANTS
  IdxMod = 4
  TxQueueSize = 2
  RxQueueSize = 2
  VNET_MAX_PENDING = 64
  Bufs = {b1, b2}
  NoBuf = NoBuf
  TxNotifyMayFail = TRUE
  RxNotifyMayFail = TRUE
  Lens = {1}
  MaxPackets = 5
SPECIFICATION NetSpec
INVARIANTS
  LifeInv
  QuietUnlessInitialized
  RunningDeviceIsBacked
  NoDmaToReleasedMemory
  SessionsAreIndependent
PROPERTIES
  ResetBetweenRuns
