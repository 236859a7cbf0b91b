CONSTANTS
  a = a
  b = b
  r1 = r1
  r2 = r2
  d1 = d1
  d2 = d2
  None = None
  Host = {a, b}
  Request = {r1, r2}
  Versions <- MCVersions
  Published = d2
  Faults = {"refused", "lost", "cancel", "trap"}
  Settings <- MCSettings
SYMMETRY Requests
SPECIFICATION Spec
INVARIANTS
  TypeOK
  ServesEnabledVersion
  StoresAgreeAtRest
  SchemaCoversRelease
PROPERTIES
  OutgrownOnly
CHECK_DEADLOCK FALSE
