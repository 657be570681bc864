SPECIFICATION Spec
CONSTANTS
  Uart = Uart
  Always = Always
  N = 2
  Limit = 2
  LinkedLimit = 2
  None = None
  Sources <- AllSources
  AlwaysEnabled <- AlwaysSources
  TriggerChannels = {0}
  HighChannels = {1}
  Programmed = {0}
  Descriptors <- OnceDescriptors
  CrValues = {{"EDBG", "HOE"}, {"ERCA"}}
  PriorityValues = {0}
  MuxValues <- RequestMux
  Budgets = {1}
  Commands = {"SSRT", "SERQ", "CERQ", "SEEI", "CEEI", "CERR", "CINT"}
  Features = {"DURING", "RESET"}
CONSTRAINT RequestsOrErrors
INVARIANTS
  ErrorsReported
  OnlyTheServedIsActive
