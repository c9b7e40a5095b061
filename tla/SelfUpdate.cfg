SPECIFICATION Spec
CONSTANTS
  u1 = u1
  u2 = u2
  A = A
  B = B
  n1 = n1
  n2 = n2
  n3 = n3
  n4 = n4
  n5 = n5
  n6 = n6
  None = None
  Clients <- Users
  Versions <- Releases
  Nodes <- Files
  Updaters <- Users
  Installed = A
  MaxMishaps = 2
SYMMETRY Symmetry
INVARIANTS InstalledWhole VerifiedFresh ReportedUp
CHECK_DEADLOCK FALSE
