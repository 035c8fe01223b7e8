SPECIFICATION Spec
CONSTANTS
  IntMax <- MCIntMax
  TotalAmount <- MCTotalAmount
  Fee <- MCFee
  Orders <- PlainOrder
  PrevTxs <- OneOutTx
  MaxMessages = 2
INVARIANTS
  PrevIndexIsAnOutput
