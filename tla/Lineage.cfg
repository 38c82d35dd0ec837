CONSTANTS
  MaxRuns = 3
  MaxEvents = 6
  MaxObservations = 1
  MaxMillis = 1
  MaxLate = 1
SPECIFICATION ForestSpec
INVARIANT DiffRangesExact
INVARIANT LineagesAgree
INVARIANT TimelineParentsFirst
CHECK_DEADLOCK FALSE
