SPECIFICATION Spec
CONSTANTS
  Irqs = {16}
  Configurable = {6, 11}
  PriorityBits = 4
  PriorityValues = {0, 1}
  GroupValues = {0, 4}
  BasepriValues = {}
  FrameLimit = 5
  Features <- FaultFeatures
INVARIANTS
  LockupOnlyInFaultHandlers
  UrgencyHeld
