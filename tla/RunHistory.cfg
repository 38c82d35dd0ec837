CONSTANTS
  a = a
  b = b
  Ids = {a, b}
  None = None
  Alphabets <- BothKinds
  MaxLedger = 6
  MaxCheckpoints = 2
SPECIFICATION Spec
INVARIANT DerivationCorrect
INVARIANT ResumesReportHistory
INVARIANT WarningsAgreeWithIntents
CHECK_DEADLOCK FALSE
