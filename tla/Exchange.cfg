SPECIFICATION FairSpec
CONSTANTS
  Processes = {p1, p2}
  w1 = w1
  Paths = {w1, w2}
  NoPath = NoPath
  FirstBus <- OneWallet
  MaxMessages = 3
  MaxKills = 2
  MaxChanges = 2
INVARIANTS
  TypeOK
  LibraryOutlivesHandle
  OwnAnswer
  LeftByTheKilled
PROPERTIES
  ReachesTheAsker
  HandleReleased
  FollowsDialogue
