SPECIFICATION Spec
CONSTANTS
  SequenceTime = 1
  ServiceTime = 1
  WindowTime = 2
  InitialTime = 3
  ResetDelay = 2
  ControlValues <- UpdateControls
  Timeouts = {4}
  Windows = {3}
  ResetTimeout = 3
  ResetWindow = 0
  EwmControlValues <- MonitorControls
  Compares = {3}
  NoCompare = 9
  BusSteps = {1, 3}
  CounterSteps = {0, 2}
  CounterLimit = 4
  Features <- BothFeatures
CONSTRAINT OneAtATime
INVARIANTS
  WatchdogSound
PROPERTIES
  ConfigKept
  CounterKept
  MonitorHonest
