SPECIFICATION Spec
CONSTANTS
  a = a
  b = b
  Services = {a, b}
  NoService = NoService
  NoFile = NoFile
  NoBlob = NoBlob
  Runs <- MCRuns
  Blobs <- MCBlobs
  BlobContent <- MCBlobContent
  Objects <- MCObjects
  ObjectContent <- MCObjectContent
  Stores <- MCStores
  Targets <- MCTargets
  Received <- MCReceived
  NewEvent = "later"
  UnsafeEvent = "unsafe"
  OutPath = "out"
  Options <- MCOptions
  Bodies <- MCBodies
  BodyContent <- MCBodyContent
  MaxCalls = 2
  MaxAppends = 1
  MaxFaults = 1
SYMMETRY Symmetry
INVARIANT VisibleRunWhole
INVARIANT ImportsAllOrNothing
INVARIANT RoundTrip
INVARIANT BundlesAreSafeOrRecorded
PROPERTY RunsOnlyGrow
CHECK_DEADLOCK FALSE
