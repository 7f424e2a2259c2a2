CONSTANTS
  Boots <- MCBoots
  Requests <- MCRequests
  Built = {"kafka", "h3"}
  Faults = TRUE
  MaxStarts = 2
  MaxBytes = 1
  MaxClients = 1
SPECIFICATION FairSpec
CHECK_DEADLOCK FALSE
INVARIANTS
  TypeOK
  WiredAsConfigured
  HandlersAlive
  AnswersAreCurrent
PROPERTIES
  StopCompletes
