CONSTANTS
  Uris = {a, b}
  Ids = {r1}
  NoUri = NoUri
  Ill <- MCIll
  Refused <- MCRefused
  WorkspaceOf <- MCWorkspaceOf
  MaxVersion = 2
  MaxCompletedRequestIds = 1
  MaxInbox = 3
  MaxRounds = 2
  Methods = {"open", "change", "close", "analyse", "lookup", "survey", "edit", "cancel", "exit", "end"}
  FreshIds = FALSE
  FreshVersions = TRUE
SPECIFICATION Spec
SYMMETRY MCSymmetry
INVARIANTS
  RegistryKept
  LivePublicationIsCurrent
  NothingPartialLeaves
  RequestsAccountedFor
  QuietIsSettled
CHECK_DEADLOCK FALSE
