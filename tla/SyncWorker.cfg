\* The sync side of one worker: one caller beside the daemon's own requests.
SPECIFICATION FairSpec
CONSTANTS
  None = None
  w1 = w1
  Waiters <- MCWaiters
  SyncAttempts <- MCSyncAttempts
  DrainAttempts <- MCDrainAttempts
  MaxAhead <- MCMaxAhead
INVARIANT
  NotStranded
PROPERTIES
  SyncedMeansPublished
  DrainEnds
  WaitersAnswered
  ErrorHeals
