SPECIFICATION Spec
CONSTANTS
  Saves = {"s1", "s2"}
  Others = {o1, o2}
  Replies <- MCReplies
  Costs = {1}
  Cap = 1
  None = "none"
  Writer = "writer"
  FanOut <- MCFanOut
  OldDirs = {"old"}
  MaxLog = 5
  MaxDistills = 1
  MaxReindexes = 1
  MaxFailures = 1
SYMMETRY MCSymmetry
INVARIANT EvidenceInRange
INVARIANT AckedListed
INVARIANT SavesDoNotDisturb
CHECK_DEADLOCK FALSE
