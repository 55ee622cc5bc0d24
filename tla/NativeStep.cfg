SPECIFICATION NativeSpec
CONSTANTS
  SourceNodes = 2
  ScratchNodes = 2
  OutputLimit = 1
  MaxBytes = 3
  Limit = 2
INVARIANT AnswersAreExact
PROPERTIES
  AdaptersContain
  AdaptersReturn
CHECK_DEADLOCK FALSE
