SPECIFICATION Spec
CONSTANTS
  Processes = {p1}
  w1 = w1
  Paths = {w1, w2}
  NoPath = NoPath
  FirstBus <- OneWallet
  MaxMessages = 3
  MaxKills = 0
  MaxChanges = 2
PROPERTY
  RepliesReachTheAsker
