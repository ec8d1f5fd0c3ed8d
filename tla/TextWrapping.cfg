SPECIFICATION FairSpec
CONSTANTS
  Jobs <- MCJobs
  Limit = 6
  Half = 256
  None = None
INVARIANTS
  TypeOK
  LinesFit
  NothingLost
  BreaksForced
  DrawnWhole
  BaselinesInBox
PROPERTIES
  MakesProgress
  EndsLayout
CHECK_DEADLOCK FALSE
