CONSTANTS
  p1 = p1
  p2 = p2
  None = None
  Procs = {p1, p2}
  MaxEvents = 6
  MaxCalls = 3
  MaxCuts = 1
SPECIFICATION Spec
SYMMETRY ProcSymmetry
INVARIANT ParentsAreContinued
INVARIANT ExecutionTreeExists
INVARIANT UndisturbedCallsCompose
CHECK_DEADLOCK FALSE
