\* Aliased paths, a legacy journal, one crash, one edit, one move of the disk.
\* An empty config and a daemon that is off may rest for ever.
CONSTANTS
  Absent = Absent
  Empty = Empty
  r1 = r1
  r2 = r2
  l = l
  n1 = n1
  n2 = n2
  Repos = {r1, r2}
  Links = {l}
  Names = {n1, n2}
  Configs <- MCConfigs
  Ops = 2
  Deaths = 1
  Edits = 1
  Moves = 1

SPECIFICATION StoreSpec
CHECK_DEADLOCK FALSE
INVARIANT
  OneWriterPerRepo
  EvidenceFound
