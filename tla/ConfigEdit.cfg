SPECIFICATION EditFairSpec
CONSTANTS
  Editors = {e1, e2}
  n1 = n1
  n2 = n2
  dirA = dirA
  dirB = dirB
  linkA = linkA
  Names = {n1, n2}
  Paths = {dirA, dirB, linkA}
  Absent = Absent
  Garbage = Garbage
  MaxSaves = 1
  Commands <- MCCommands
  Drafts <- MCDrafts
  Canonical <- MCCanonical
INVARIANT EditKept
PROPERTIES Atomic ValidKept NeverWedged
CHECK_DEADLOCK FALSE
