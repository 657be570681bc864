SPECIFICATION Spec
CONSTANTS
  Irqs = {16, 17}
  Configurable = {}
  PriorityBits = 4
  PriorityValues = {0, 1}
  GroupValues = {}
  BasepriValues = {}
  FrameLimit = 4
  Features <- NestingFeatures
INVARIANTS
  NestingSound
  HandlersAccounted
PROPERTIES
  RequestsSurvive
  EntersByUrgency
