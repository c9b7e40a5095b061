\* Safety and liveness of one worker.
SPECIFICATION FairSpec
CONSTANTS
  Triggers <- MCTriggers
  MaxAttempts <- MCMaxAttempts
  LockAttempts <- MCLockAttempts
  MaxInbox <- MCMaxInbox
INVARIANTS
  NoZombieRetry
  FailureIsShown
PROPERTIES
  NeverDropped
  RetryConverges
  ImplementsAxis
