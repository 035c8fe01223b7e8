SPECIFICATION FairSpec
CONSTANTS
  Pages <- MCPages
  Open = "{"
  Close = "}"
  ConnectTimeout = 10
INVARIANTS
  TypeOK
  WholePageOrThrown
  HandleCleaned
PROPERTIES
  GivesUpConnecting
