SPECIFICATION ContextSpec
CONSTANTS
  a = a
  Ids = {a}
  None = None
  Alphabets <- MCAlphabets
  MaxLedger = 5
  MaxCheckpoints = 2
  MaxCiting = 2
  ClaimLists <- MCClaimLists
  Origins <- MCOrigins
  Fields = {"goal", "plan"}
  MandatoryFields = {"goal"}
  EventChars <- MCEventChars
  IntentLineChars <- MCIntentLineChars
  IntentEntryChars <- MCIntentEntryChars
  FixedChars = 10
  OmittedChars = 3
  NoneChars = 1
  Radix = 2
  PageSize = 2
  PendingCap = 1
  CompletedCap = 1
  Budgets = {8, 34, 66}
INVARIANT ScanFindsHistory
INVARIANT ContextFits
INVARIANT NothingHidden
CHECK_DEADLOCK FALSE
