SPECIFICATION FairSpec
CONSTANTS
  None = None
  Torn = Torn
  Orphan = Orphan
  Other = Other
  w = w
  c = c
  p1 = p1
  p2 = p2
  i1 = i1
  i2 = i2
  Agents <- MCAgents
  Pids <- MCPids
  Home <- MCHome
  Inodes <- MCInodes
  Slack = 0
  Window = 0
  Grace = 1
INVARIANT OneWriter
PROPERTIES CrashSafe Unwedged
