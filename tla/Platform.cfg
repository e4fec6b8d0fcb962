\* The drivers and libraries of the platform, one at a time.
SPECIFICATION PlatformSpec
CONSTANTS
  Parts = {"virtio", "pcicap", "hotplug", "fwcfg", "nor", "fvb", "iommu", "relocation", "smm", "timer", "unwind",
           "pei", "acpi", "nvvars", "tpm", "kernel", "linux", "initrd"}
  \* VirtioTransport
  VQueues = {0, 1}
  VRings = {7, 8}
  VLengths = {4, 8, 56}
  VCapLists <- SomeCapLists
  Unknown = Unknown
  MaxVCalls = 3
  \* PciCap
  NormalPtrs = {0, 67, 248}
  ExtPtrs = {0, 130, 259, 272}
  CapIds = {9, 16}
  PCIEXP = 16
  CapVersions = {1, 2}
  AccessSizes = {0, 4, 8}
  \* PciHotPlug
  Bits32 = 6
  Bits64 = 8
  DefaultIoSize = 8
  DefaultMmioSize = 16
  Bridges <- SomeBridges
  \* FwCfg
  FwDir <- SomeFwDir
  FwNames = {"a", "b", "c"}
  FwSizes = {0, 1, 7, 12, 300}
  FwMaxDma = 256
  FwSkipChunk = 32
  MaxFwCalls = 3
  \* NorFlash
  BufferBytes = 4
  BlockSize = 12
  LastBlock = 1
  NorWrites <- SomeNorWrites
  NorErases <- SomeNorErases
  NorHeaders <- SomeNorHeaders
  ERASE_RETRY = 2
  MaxNorFaults = 1
  \* QemuFlash
  FdBlockSize = 2
  FdBlockCount = 3
  FvBlocks = 2
  FvbHeader <- SomeFvbHeader
  FvbAttributeSets <- SomeAttributes
  FvbWrites <- SomeFvbWrites
  MaxFvbCalls = 3
  \* IoMmu
  Pages = {1, 2, 3, 4}
  LowPages = {1, 2, 3}
  HostPage = 1
  MaxMaps = 2
  \* SmmRelocation
  NumCpus = 4
  MaxCpus = 6
  BspIndex = 1
  MaxCapInHob = 4
  SmramSize = 8192
  \* SmmAccess
  SmiFeatureSets = {{}, {"BROADCAST"}, {"BROADCAST", "HOTPLUG"}}
  StandaloneMm = TRUE
  SmramAtDefault = TRUE
  MaxSmmCalls = 3
  \* Timer8254
  Irqs = {0, 3}
  TimerPeriods <- SomePeriods
  LegacyModeMask = {3}
  PicArgs <- SomePicArgs
  MasterBases = {8, 104}
  MaxTicks = 2
  MaxPicCalls = 4
  \* Unwind
  MaxPasses = 2
  \* PlatformPei
  Machines <- SomeMachines
  MaxLogicalProcessors = 4
  \* AcpiLoader
  AcpiScripts <- SomeScripts
  AcpiItems <- SomeAcpiItems
  INSTALLED_TABLES_MAX = 2
  \* NvVars
  NvNames <- SomeNames
  NvDatas <- SomeDatas
  NvFiles <- SomeFiles
  MaxNvEvents = 4
  MaxNvFaults = 1
  \* Tcg2Presence
  TpmRequests = {"NO_ACTION", "CLEAR", "SET_PCR_BANKS", "CHANGE_EPS", "LOG_ALL_DIGESTS", "ENABLE_BLOCK_SID", "LEGACY", "VENDOR"}
  TpmBanks = {"sha1", "sha256"}
  MaxTpmBoots = 4
  MaxTpmSubmits = 2
  \* KernelLoader
  KernelItems <- SomeItems
  KernelSizes = 64
  KernelChunk = 2
  KernelPositions = {0, 1, 7, 99}
  MaxPosition = 99
  MaxStubFiles = 2
  MaxFileCalls = 5
  \* LoadLinux
  LinuxMaps <- SomeMaps
  LinuxMasks <- SomeMasks
  KernelAligns = {2, 4, 16, 2048}
  LinuxFree <- SomeFree
  E820Max = 2
  \* LinuxInitrd
  Initrds <- SomeInitrds
  InitrdPages = {1, 2}
INVARIANTS
  DeviceAsAsked
  CapsPartitionSpace
  PaddingCoversHints
  FwCfgInStep
  NorFlashAsAsked
  QemuFlashAsAsked
  SharedOnlyWhileMapped
  EachCpuRelocatedOnce
  SmramLockIsFinal
  TimerNeverNests
  
  PlatformMemoryMap
  HostPointersLive
  TablesInstalledOnce
  NvVarsRestored
  PresenceConfirmed
  KernelFilesAreTheItems
  LinuxIsToldTheTruth
  InitrdServed
CHECK_DEADLOCK FALSE
