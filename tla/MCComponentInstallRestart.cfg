CONSTANTS
  a = a
  b = b
  r1 = r1
  r2 = r2
  d1 = d1
  d2 = d2
  None = None
  Host = {a, b}
  Request = {r1, r2}
  Versions <- MCVersions
  Published = d2
  Faults = {"refused"}
  Settings <- UpgradedTwice
SYMMETRY Requests
SPECIFICATION Spec
PROPERTY RestartRestores
CHECK_DEADLOCK FALSE
