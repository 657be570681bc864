SPECIFICATION FairSpec
CONSTANTS
  Irqs = {16}
  Configurable = {15}
  PriorityBits = 4
  PriorityValues = {0, 1}
  GroupValues = {}
  BasepriValues = {0, 1}
  FrameLimit = 4
  Features <- SleepFeatures
PROPERTIES
  PreemptionHappens
  WorkWakes
