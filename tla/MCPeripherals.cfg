SPECIFICATION Spec
VIEW Focused
CHECK_DEADLOCK FALSE
CONSTANTS
  PitLast = 1
  PitLoads = {0, 1}
  PitSteps = {1, 3}
  RtcSecond = 3
  RtcMax = 3
  RtcSeconds = {1, 2}
  RtcCompensations <- Compensations
  RtcPrescalers = {1}
  RtcEnables = {{"TIF", "TOF", "TAF", "second"}}
  RtcLocks = {{"TCL", "LRL"}, {"CRL", "SRL", "TCL"}}
  RtcAccesses = {{"TSR", "SR", "CR"}}
  RtcSteps = {1, 2, 5}
  LptmrWidth = 4
  LptmrCompares = {1, 2}
  LptmrPrescales = {0, 1}
  LptmrInputs = {0}
  LptmrSteps = {1, 2}
  PdbModuli = {1, 3}
  PdbDelays = {2}
  PdbSteps = {1, 2}
  PowerRuns = {"run", "vlpr"}
  PowerStops = {"lls", "vlls"}
  PowerAllows = {{"vlp", "lls", "vlls"}}
  PowerEdges = {"any"}
  CmtMarks = {0, 1}
  CmtModes <- CmtModeValues
  CmtSteps = {1, 3}
  Endpoints = {1, 2}
  Capacity = 3
  EventsMade = 6
  I2cFrame = 2
  I2cSteps = {1, 3}
  SpiDepth = 2
  SpiFrame = 2
  SpiFrames = 3
  SpiSteps = {3}
  UartPorts <- Ports
  UartDepth = 2
  UartFrame = 2
  UartWrap = 4
  UartSteps = {1, 3}
  Pins = {0, 1}
  PinSetups <- PinModes
  PinWidths = {1}
  PinSteps = {1}
  CanMailboxes = {0, 1}
  CanIds = {1, 2}
  CanFrames = 2
  I2sDepth = 2
  I2sSamples = 4
  DcdTimeout = 6
  DcdElapsedMax = 8
  DcdPrelude = {1, 3}
  DcdTimes <- DetectionTimes
  DcdSteps = {1, 2}
  SdCards = {2, 4}
  SdBlock = 2
  SdLengths = {1}
  SdSizes = {0, 1}
  SdCounts = {0, 2}
  SdEnables <- StatusEnables
  AdcCycles = 2
  AdcChannels = {0}
  AdcInputs = {1}
  AdcSetups <- Comparisons
  AdcSteps = {1, 3}
  DacLast = 2
  DacValues = {0, 1}
  CmpInputs = {0, 7}
  CmpLevels = {0, 1}
  VrefCycles = 3
  VrefSteps = {1, 2}
  CrcByte = 2
  CrcControls <- CrcModes
  CrcPolynomials <- Polynomials
  CrcSeeds = {{}, {0, 1, 2}}
  CrcBytes = {1, 2}
  CrcMessage = 2
  RngCycles = 3
  RngSteps = {1, 2}
INVARIANTS
  DevicesTypeOK
  BatchesSplit
  ResultsHonest
PROPERTIES
  TimersTell
  LinksHonest
  RingIsQueue
  PinsHonest
  TransfersHonest
  PowerHonest
  LptmrHonest
  AnalogHonest

