SPECIFICATION FairSpec
CONSTANTS
  IntMax <- MCIntMax
  TotalAmount <- MCTotalAmount
  Fee <- MCFee
  Orders <- MCOrders
  PrevTxs <- MCPrevTxs
  MaxMessages = 5
INVARIANTS
  TypeOK
  AnswersStable
  PrevTxFaithful
  MetaCountBound
  ChangeExact
  NobodyLeftWaiting
PROPERTIES
  OnlyTheLatestIsAnswered
  DialogueUnwinds
