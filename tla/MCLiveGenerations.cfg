CONSTANTS
  base = base
  middle = middle
  top = top
  watcher = watcher
  r1 = r1
  Plugin = {base, middle, top, watcher}
  Request = {r1}
  Depends <- MCDepends
  Observers = {watcher}
  Selections <- MCSelections
  MaxChanges = 2
  Budgets <- MCBudgets
SPECIFICATION Spec
INVARIANTS
  TypeOK
  OneInstance
  DependenciesOutlive
  WorkOnLive
  AvailableMeansWhole
  DownMeansReleased
PROPERTIES
  KeepsPromise
  OperationsEnd
  RequestsEnd
CHECK_DEADLOCK FALSE
