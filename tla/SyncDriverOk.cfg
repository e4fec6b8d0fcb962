CONSTANTS
  IdxMod = 4
  QueueSize = 4
  QueueSizes = {2, 4}
  MaxKickFailures = 1
  DriverOkMayFail = TRUE
  SectorUnits = 2
  LenMod = 8
  SIZE_1GB = 5
  LbaMod = 8
  SectorCounts = {0, 2, 3}
  MaxSectorCounts = {0, 3}
  RngLengths = {0, 3}
  MAX_UINT32 = 2
SPECIFICATION SyncSpec
INVARIANTS
  RingBacksDevice
