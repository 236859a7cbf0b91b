CONSTANTS
  g1 = g1
  g2 = g2
  sick = sick
  legacy = legacy
  x1 = x1
  x2 = x2
  None = None
  Release = {g1, g2, sick, legacy}
  Verified = {g1, g2, sick}
  Healthy = {g1, g2, legacy}
  Deployment = {x1, x2}
  MaxFaults = 2
SPECIFICATION Spec
PROPERTY BootSparesInFlight
CHECK_DEADLOCK FALSE
