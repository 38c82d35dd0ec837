CONSTANTS
  p1 = p1
  p2 = p2
  p3 = p3
  p4 = p4
  Procs = {p1, p2, p3, p4}
  away = p4
  HostMaps <- OneHost
  MaxAttempts = 5
  MaxAcquires = 1
  MaxCrashes = 1
SPECIFICATION Spec
SYMMETRY ProcSymmetry
INVARIANT MutualExclusion
CHECK_DEADLOCK FALSE
