SPECIFICATION Spec
CONSTANTS
  IntMax <- MCIntMax
  TotalAmount <- MCTotalAmount
  Fee <- MCFee
  Orders <- MCOrders
  PrevTxs <- MCPrevTxs
  MaxMessages = 3
INVARIANTS
  MetaReportsTheTransaction
