CONSTANTS
  Texts <- AllTexts
  PemMaxBody = 3
  TokenMin = 2
  TokenMax = 3
  EntropyMin = 3
  MaxBytes = 4
  WindowBytes = 5
  OverlapBytes = 2
  MaxGrowth = 2
SPECIFICATION Spec
INVARIANT WindowsCoverSinglePass
INVARIANT SanitizeSettles
INVARIANT CapturesKeepNoSecret
CHECK_DEADLOCK FALSE
