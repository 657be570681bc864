SPECIFICATION Spec
CONSTANTS
  Uart = Uart
  Always = Always
  N = 1
  Limit = 2
  LinkedLimit = 2
  None = None
  Sources <- AllSources
  AlwaysEnabled <- AlwaysSources
  TriggerChannels = {0}
  HighChannels = {0}
  Programmed = {0}
  Descriptors <- ChainDescriptors
  CrValues = {}
  PriorityValues = {}
  MuxValues <- ChainMux
  Budgets = {1, 2}
  Commands = {"SSRT", "CDNE"}
  Features = {"WORDS", "REGISTERS"}
PROPERTIES
  ChannelsFinish
