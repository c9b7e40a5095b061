SPECIFICATION FairSpec
CONSTANTS
  None = None
  NoEngine = NoEngine
  a = a
  b = b
  r1 = r1
  Configs <- MCConfigs
  Refused = {}
  Requests <- MCRequests
  Capacity = 1
  Budget <- MCBudget3
PROPERTIES AnsweredByCurrent RequestsDrain ChangeReaches DeadSourceReplaced HealthCatchesUp
CHECK_DEADLOCK FALSE
