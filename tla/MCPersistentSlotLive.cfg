CONSTANTS
  a = a
  b = b
  t1 = t1
  t2 = t2
  t3 = t3
  t4 = t4
  d1 = d1
  d2 = d2
  None = None
  Host <- MCHost
  Task <- LiveTask
  HostOf <- LiveHostOf
  MayCall <- LiveMayCall
  Digest = {d1, d2}
  Migrations <- MCMigrations
  MaxGeneration = 3
SPECIFICATION FairSpec
PROPERTIES
  CallsReturn
CHECK_DEADLOCK FALSE
