CONSTANTS
  Descendants = {d}
  Termination = "group"
  JoinsLate = TRUE
  MayLeave = FALSE
  PipeCapacity = 2
  MaxBytes = 2
  OutputLimit = 2
  TerminationMayFail = TRUE
  StreamBytes = 3
  StreamLimit = 1
  InputSize = 2
  InputCapacity = 1
  ReadsInput = TRUE
SPECIFICATION SupervisorsSpec
INVARIANT SupervisionIsExact
PROPERTY CallsReturn
CHECK_DEADLOCK FALSE
