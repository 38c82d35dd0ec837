CONSTANTS
  b1 = b1
  b2 = b2
  None = None
  Backends = {b1, b2}
  MaxCalls = 3
SPECIFICATION FairSpec
INVARIANT LedgerChain
INVARIANT VisibleIsWhole
INVARIANT AckedDurable
INVARIANT WriterConverged
PROPERTY ImplementsRunLog
PROPERTY CallsEnd
CHECK_DEADLOCK FALSE
