SPECIFICATION FairSpec
CONSTANTS
  Uart = Uart
  Always = Always
  N = 2
  Limit = 3
  LinkedLimit = 2
  None = None
  Sources <- AllSources
  AlwaysEnabled <- AlwaysSources
  TriggerChannels = {0}
  HighChannels = {1}
  Programmed = {0}
  Descriptors <- LiveDescriptors
  CrValues = {{"ERCA"}}
  PriorityValues = {}
  MuxValues <- LiveMux
  Budgets = {1}
  Commands = {"SSRT", "SERQ"}
  Features = {}
PROPERTIES
  EveryoneIsServed
  AdvanceReturns
