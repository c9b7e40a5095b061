SPECIFICATION Spec
CONSTANTS
  d1 = d1
  d2 = d2
  None = None
  c1 = c1
  c2 = c2
  n1 = n1
  Daemons = {d1, d2}
  Commands = {c1, c2}
  Probes = {n1}
  Retries = 2
SYMMETRY Symmetry
INVARIANTS OneWorker DaemonNamed DocIsOwn
CHECK_DEADLOCK FALSE
