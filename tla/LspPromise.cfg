CONSTANTS
  Uris = {a, b}
  Ids = {r1}
  NoUri = NoUri
  Ill <- MCIll
  Refused <- MCRefused
  WorkspaceOf <- MCWorkspaceOf
  MaxVersion = 2
  MaxCompletedRequestIds = 1
  MaxInbox = 2
  MaxRounds = 1
  Methods = {"open", "garble", "close", "analyse", "direct", "shutdown", "cancel"}
  FreshIds = TRUE
  FreshVersions = TRUE
SPECIFICATION FairSpec
PROPERTIES
  ImplementsSession
  CancellationHonoured
CHECK_DEADLOCK FALSE
