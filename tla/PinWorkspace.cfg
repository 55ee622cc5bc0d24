CONSTANTS
  Urls <- MCUrls
  OfficialHosts <- MCOfficialHosts
  ConfiguredHosts <- MCConfiguredHosts
  MaxRedirects = 2
  MaxBody = 2
  DnsAnswers <- MCDnsAnswers
  Proxy = TRUE
  Names = {1, 2, 3, 4, 5}
  MaxRevision = 2
  NumFiles = 2
  KindOf <- MCKindOf
  Linked = {3}
  Allowed = {1, 4, 5}
  ProviderOf <- MCProviderOf
  UrlOf <- MCUrlOf
  Official <- MCOfficial
  Bound <- MCBound
  Store <- MCStore
  MaxRuns = 1
  Moving = {1}
  StartLocks <- MCStartLocks
  StartTexts <- MCStartTexts
  Drafts <- MCDrafts
  MaxEdits = 1
SPECIFICATION Spec
INVARIANTS
  FetchIsConfined
  AnswersAreWhole
  EntriesAreSnapshots
  PassMeansLocked
  FixPinsWhenPassed
PROPERTIES
  LockNeverForgets
CHECK_DEADLOCK FALSE
