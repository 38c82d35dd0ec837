SPECIFICATION Spec
CONSTANTS
  Order <- MCOrder
  Above <- MCAbove
  Excluded = {".env"}
  Preserved = {".env"}
  Contents <- MCContents
  Gone = "gone"
  Size <- MCSize
  Sanitized <- MCSanitized
  Skip = "skip"
  CheckedOut <- MCCheckedOut
  MaxFileBytes = 1
  Modes = {"100644", "100755"}
  Inodes = {1, 2}
  Workspaces <- MCWorkspaces
  Elsewhere <- MCElsewhere
  Granularity = 2
  RacyWindow = 2
  MaxTime = 3
  MaxWrites = 2
  MaxPasses = 3
INVARIANT CheckpointIsRecent
INVARIANT DeltaAlwaysFits
INVARIANT RestoredUnchanged
INVARIANT DetectedIsRecent
CHECK_DEADLOCK FALSE
