SPECIFICATION Spec
CONSTANTS
  Irqs = {16, 17}
  Configurable = {}
  PriorityBits = 4
  PriorityValues = {0, 1}
  GroupValues = {}
  BasepriValues = {}
  FrameLimit = 3
  Features <- UnrestrictedFeatures
INVARIANTS
  StacksSound
  NoSleepOnWork
