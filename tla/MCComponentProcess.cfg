CONSTANTS
  t1 = t1
  t2 = t2
  d1 = d1
  d2 = d2
  None = None
  Validation = Validation
  Tenant = {t1, t2}
  Digest = {d1, d2}
  Faults = {"refused", "unanswered", "sick", "cancel", "exit", "crash"}
  MaxFaults = 4
SYMMETRY Symmetry
SPECIFICATION Spec
INVARIANTS
  TypeOK
  OneConnected
  NothingLeftBehind
  ListedIsEnabled
CHECK_DEADLOCK FALSE
