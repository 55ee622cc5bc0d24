CONSTANTS
  FileCount = 2
  Contents = {old, new}
  NumSteps = 2
  WallLimit = 2
  Touched = {1}
  Backend = "linux"
  InputFits = FALSE
SPECIFICATION FairSpec
INVARIANTS
  StepsSeePlannedSource
  VerdictIsEarned
  EvidenceAccepted
PROPERTIES
  EndsQuietly
CHECK_DEADLOCK FALSE
