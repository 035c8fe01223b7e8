SPECIFICATION FairSpec
CONSTANTS
  Base = 4
  Mark = 3
  PayloadSize = 4
  MaxSize = 3
  Requests <- MCRequests
  Replies <- MCReplies
  Cuts = {1, 3, 4}
  MaxPending = 2
  MaxCalls = 3
  MaxFailures = 2
  NoMessage = NoMessage
  Thrown = Thrown
  Transient = FALSE
INVARIANTS
  OnlyPaddingLeft
PROPERTIES
  KeepsPromise
  CallEnds
