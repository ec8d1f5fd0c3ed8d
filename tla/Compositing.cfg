SPECIFICATION Spec
CONSTANTS
  None = None
  Requests <- MCRequests
  Jobs <- MCJobs
  Word = 64
  Threshold = 2
INVARIANTS
  OverlaysInPlace
  StackedInOrder
  CornersRound
  IndicesInBounds
  FitsItsBounds
  CoversItsBox
CHECK_DEADLOCK FALSE
