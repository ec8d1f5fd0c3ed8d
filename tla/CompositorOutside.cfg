SPECIFICATION Spec
CONSTANTS
  None = None
  Requests <- FarRequests
  Jobs <- FarJobs
  Word = 8
  Threshold = 2
INVARIANT OutsideNotDrawn
CHECK_DEADLOCK FALSE
