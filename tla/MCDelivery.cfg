CONSTANTS
  s1 = s1
  s2 = s2
  c1 = c1
  c2 = c2
  w1 = w1
  w2 = w2
  d1 = d1
  d2 = d2
  h1 = h1
  h2 = h2
  t1 = t1
  None = None
  Source = {s1, s2}
  Commit = {c1, c2}
  Worker = {w1, w2}
  Discoverer = {d1, d2}
  Host = {h1, h2}
  Tenant = {t1}
  Default = t1
  Budgets <- MCBudgets
SPECIFICATION DeliverySpec
SYMMETRY Symmetry
INVARIANTS
  DeliveryTypeOK
  OneBuilder
  PublishedIsActive
  NothingStranded
PROPERTIES
  ObservationsInOrder
  CompletesOwnUpload
  ReplacedStaysReplaced
  PublicationFollowsTarget
  UpgradesAsChosen
CHECK_DEADLOCK FALSE
