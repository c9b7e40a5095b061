SPECIFICATION FairSpec
CONSTANTS
  f = f
  g = g
  addG = addG
  delG = delG
  mine = mine
  hidden = hidden
  theirs = theirs
  theirG = theirG
  Own = {mine, hidden}
  Peers = {theirs, theirG}
  Files = {f, g}
  Deletes = {delG}
  Hidden = {hidden}
  FileOf <- MCFileOf
  Base <- MCBase
  Budget <- MCBudget
INVARIANTS NothingLost CommitsKept PublishedOnce
PROPERTY Published
CHECK_DEADLOCK FALSE
