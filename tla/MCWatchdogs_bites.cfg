SPECIFICATION FairSpec
CONSTANTS
  SequenceTime = 1
  ServiceTime = 1
  WindowTime = 1
  InitialTime = 1
  ResetDelay = 2
  ControlValues <- LiveControls
  Timeouts = {2}
  Windows = {}
  ResetTimeout = 2
  ResetWindow = 0
  EwmControlValues = {}
  Compares = {}
  NoCompare = 9
  BusSteps = {0, 2}
  CounterSteps = {0, 1}
  CounterLimit = 10
  Features <- LiveFeatures
PROPERTIES
  NoEscape
  Bites
