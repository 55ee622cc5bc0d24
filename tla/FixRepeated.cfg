CONSTANTS
  Urls <- MCUrls
  OfficialHosts <- MCOfficialHosts
  ConfiguredHosts <- MCConfiguredHosts
  MaxRedirects = 2
  MaxBody = 2
  DnsAnswers <- MCDnsAnswers
  Proxy = TRUE
  Names = {1, 2, 3, 4, 5}
  MaxRevision = 2
  NumFiles = 1
  KindOf <- MCKindOf
  Linked = {3}
  Allowed = {1}
  ProviderOf <- MCProviderOf
  UrlOf <- MCUrlOf
  Official <- MCOfficial
  Bound <- MCBound
  Store <- MCStore
  MaxRuns = 1
  Moving = {1}
  StartLocks <- MCStartLocks
  StartTexts <- Repeating
  Drafts <- NoDrafts
  MaxEdits = 0
SPECIFICATION Spec
INVARIANTS
  FixPins
CHECK_DEADLOCK FALSE
