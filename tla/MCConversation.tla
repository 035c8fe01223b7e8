--------------------------- MODULE MCConversation ---------------------------
(***************************************************************************)
(* Small instances of Conversation: an int of 6 bits, the literal 200000   *)
(* scaled to 20 and the fee to 2.                                          *)
(***************************************************************************)
EXTENDS Conversation

MCIntMax == 31
MCTotalAmount == 20
MCFee == 2

Vin(count) == [i \in 1 .. count |-> [n |-> i - 1, present |-> TRUE]]
Out(value, inexact) == [value |-> value, inexact |-> inexact, present |-> TRUE]

\* One exact output, one a satoshi short, one on each side of IntMax.
Exact    == Out(7, FALSE)
Inexact  == Out(9, TRUE)
JustFits == Out(32, TRUE)
TooBig   == Out(32, FALSE)

\* A JSON page that is no transaction.
ErrorPage == [vin |-> <<>>, vout |-> <<>>]

MCPrevTxs ==
  {[vin |-> Vin(1), vout |-> <<TooBig, Inexact>>],
   [vin |-> Vin(2), vout |-> <<JustFits>>],
   ErrorPage}

OneOutTx == {[vin |-> Vin(2), vout |-> <<Exact>>]}

\* A payment of 5; one that is more than there is; one that overflows with
\* the fee; one that is no int at all.
Order(amount, inputs, outputs) ==
  [amount |-> amount, inputs_count |-> inputs, outputs_count |-> outputs]

MCOrders == {Order(a, 2, 2) : a \in {5, 19, 31, 40}} \union {Order(5, 1, 1)}
PlainOrder == {Order(5, 2, 2)}
=============================================================================
