SPECIFICATION Spec
CONSTANTS
  Tools = {edit, bash}
  WorkspaceTools = {edit, bash}
  Digests = {clean, dirty}
  Clean = clean
  None = None
  Launcher = Launcher
  Other = Other
  MaxWait = 1
  MaxScan = 2
  MaxDisturbances = 1
INVARIANT ResultIsWhatHappened
INVARIANT UndisturbedRecorded
INVARIANT ObservationsAreTrue
PROPERTY HooksEnd
CHECK_DEADLOCK FALSE
