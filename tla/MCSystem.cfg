SPECIFICATION Spec
VIEW Focused
CHECK_DEADLOCK FALSE
CONSTANTS
  Ways = {0, 1, 2, 3}
  None = None
  Denied = Denied
  Parts <- FlashParts
  Inputs <- FlashInputs
  Sectors <- FlashSectors
  Values = {"a", "0"}
  Zero = "0"
  Protects <- FlashProtects
  FtmWidth = 4
  FtmLongFilter = 5
  FtmUses = {"counts", "compares", "software", "hardware", "faults", "pairs", "captures"}
  FtmStarts <- Found
  FtmModuli = {1}
  FtmValues = {0, 1}
  FtmNumtofs = {0, 1}
  FtmModes <- ChannelModes
  FtmPairs <- PairModes
  FtmSyncs <- Synchronizations
  FtmPoints <- LoadingPoints
  FtmSteps = {1, 2}
  DebugControls <- DebuggerControls
  DebugDemcrs <- MonitorControls
  DwtWidth = 6
  DwtTargets = {2}
  DwtSteps = {1, 2}
  MpuRegionCount = 2
  MpuSpace = 8
  MpuSizes = {2, 4, 8}
  MpuSubregions = 4
  MpuBases = {5}
  MpuSetups <- RegionSetups
  MpuBackground = {0, 1, 2, 3}
  ExWords = {0, 1, 2}
  ExGranules = {0, 1, 2}
  ExSizes = {1, 4}
  ExWaits = {0, 3}
  ExBases = {1, 3}
  OwnGate = {"uart", "port"}
  RawGate = {"uart"}
  PlainGate = {"dma"}
  BridgeSetups <- BridgeModes
  SysSpace = 4
  SysRegionCount = 2
  SysBounds <- RegionBounds
  SysRights <- RegionRights
  SignBit = 4
  WordBits = 3
  ItBlocks <- Blocks
  ItOperands <- WordPairs
  ItDepth = 1
INVARIANTS
  SystemTypeOK
  DebugHonest
  ConditionsTell
PROPERTIES
  FlashHonest
  CacheHonest
  FtmHonest
  ReservationsFair
  AccessesConfined
