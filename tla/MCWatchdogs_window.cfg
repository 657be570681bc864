SPECIFICATION Spec
CONSTANTS
  SequenceTime = 1
  ServiceTime = 1
  WindowTime = 2
  InitialTime = 3
  ResetDelay = 2
  ControlValues <- UpdateControls
  Timeouts = {2, 4}
  Windows = {1}
  ResetTimeout = 3
  ResetWindow = 0
  EwmControlValues = {}
  Compares = {}
  NoCompare = 9
  BusSteps = {0, 1, 3}
  CounterSteps = {0, 1, 2}
  CounterLimit = 10
  Features <- UpdateFeatures
PROPERTIES
  WindowLasts
