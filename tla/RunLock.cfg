CONSTANTS
  p1 = p1
  p2 = p2
  p3 = p3
  Procs = {p1, p2, p3}
  away = p3
  HostMaps <- TwoHosts
  MaxAttempts = 3
  MaxAcquires = 2
  MaxCrashes = 2
SPECIFICATION FairSpec
INVARIANT MutualExclusion
PROPERTY CallsTerminate
PROPERTY StaleLockRecovered
CHECK_DEADLOCK FALSE
