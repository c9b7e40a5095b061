SPECIFICATION CaptureFairSpec
CONSTANTS
  Capacity = 1
  MaxEvents = 2
  Budget <- MCBudget
INVARIANT Covered
PROPERTIES Captured GoesQuiet
CHECK_DEADLOCK FALSE
