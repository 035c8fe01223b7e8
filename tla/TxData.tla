------------------------------- MODULE TxData -------------------------------
(***************************************************************************)
(* The data of a transaction signing session, as common_msg.hpp keeps it:  *)
(* the global url_data (the previous transaction, downloaded as JSON), the *)
(* global config_data (the user's signing order) and the global            *)
(* total_amount, with the TxAck each write_tx* function builds from them.  *)
(*                                                                         *)
(* url_data["vin"] and url_data["vout"] are jsoncpp arrays.  A non-const   *)
(* operator[] on such an array creates the missing member: reading past    *)
(* the end makes the array longer (ArrayGet below).  A member that was     *)
(* created this way is null, and a null converts to 0 or to the empty      *)
(* string (NoInput, NoOutput).                                             *)
(*                                                                         *)
(* An entry of vin stands for all its fields, told apart by n, its         *)
(* position in the transaction.  Amounts are satoshis; `inexact' says that *)
(* the decimal value of the output, times 1e8 in a double, falls just      *)
(* below the integer, so that static_cast<int> drops one satoshi.          *)
(***************************************************************************)
EXTENDS Integers, Sequences

CONSTANTS
  IntMax,       (* Largest int (2^31 - 1 in the build).                    *)
  TotalAmount,  (* The literal 200000 of write_txbin_outputs.              *)
  Fee           (* The static fee (10000).                                 *)

ASSUME AmountsAssumption ==
  /\ IntMax \in Nat
  /\ TotalAmount \in 1 .. IntMax
  /\ Fee \in 1 .. TotalAmount

IntMin == -IntMax - 1
IsInt(x) == IntMin <= x /\ x <= IntMax

Inputs  == [n : Nat, present : BOOLEAN]
Outputs == [value : Nat, inexact : BOOLEAN, present : BOOLEAN]

\* The null member jsoncpp creates.
NoInput  == [n |-> 0, present |-> FALSE]
NoOutput == [value |-> 0, inexact |-> FALSE, present |-> FALSE]

Transactions == [vin : Seq(Inputs), vout : Seq(Outputs)]
NoTransaction == [vin |-> <<>>, vout |-> <<>>]

\* What the signing order holds: amount is the "amount" of signtx.json.
SigningOrders == [amount : Nat, inputs_count : Nat, outputs_count : Nat]
NoOrder == [amount |-> 0, inputs_count |-> 0, outputs_count |-> 0]

-----------------------------------------------------------------------------
\* The array after operator[](i): unchanged, or longer by null members.
ArrayGet(array, i, null) ==
  IF i < Len(array)
    THEN array
    ELSE [j \in 1 .. i + 1 |-> IF j <= Len(array) THEN array[j] ELSE null]

\* Mutant: the write_tx*output* functions index "vin" (copy and paste).
TouchOutputOfVin(tx, i) == [tx EXCEPT !.vin = ArrayGet(@, i, NoInput)]

TouchInput(tx, i)  == [tx EXCEPT !.vin  = ArrayGet(@, i, NoInput)]
TouchOutput(tx, i) == [tx EXCEPT !.vout = ArrayGet(@, i, NoOutput)]

\* int arithmetic: a result out of range wraps around once.
Wrap(x) ==
  IF x < IntMin THEN x + 2 * (IntMax + 1)
  ELSE IF x > IntMax THEN x - 2 * (IntMax + 1)
  ELSE x

\* atof(value) * 1e8, truncated to an int; out of range, the conversion
\* instruction of the build yields the smallest int.
ToSatoshis(out) ==
  LET truncated == IF out.inexact THEN out.value - 1 ELSE out.value
  IN  IF truncated > IntMax THEN IntMin ELSE truncated

\* total_amount - config_data["amount"].asInt() - fee
ChangeAmount(total, order) == Wrap(Wrap(total - order.amount) - Fee)

-----------------------------------------------------------------------------
(* The TxAck of each write_tx* function, tx being url_data after the       *)
(* function has indexed it.                                                *)

\* write_txinit_inputs: prev_index is the "n" of an INPUT of url_data.
InitInputAck(tx, i) == [kind |-> "init_input", prev_index |-> tx.vin[i + 1].n]

\* Mutant: the index of the request is dropped, as in inputs[0].
PrevInputAckFirst(tx, i) == [kind |-> "prev_input", input |-> tx.vin[1]]

\* write_tx_inputs
PrevInputAck(tx, i) == [kind |-> "prev_input", input |-> tx.vin[i + 1]]

\* write_tx_meta
MetaAck(tx) == [kind        |-> "meta",
                inputs_cnt  |-> Len(tx.vin),
                outputs_cnt |-> Len(tx.vout)]

\* write_tx_outputs: output 0 is the change, every other one the payment.
OutputAck(total, order, i) ==
  IF i = 0
    THEN [kind |-> "output", payee |-> FALSE, amount |-> ChangeAmount(total, order)]
    ELSE [kind |-> "output", payee |-> TRUE,  amount |-> order.amount]

\* write_txbin_outputs
BinOutputAck(tx, i) ==
  [kind   |-> "bin_output",
   script |-> tx.vout[i + 1].present,
   amount |-> ToSatoshis(tx.vout[i + 1])]

\* Mutant: the codec casts instead of checking the sign.
EncodableUnchecked(ack) == TRUE

\* What json_to_wire accepts: asUInt64 throws on a negative amount, and asInt
\* in write_tx_outputs on a configured amount that is no int.
ChangeIsComputable(order, i) == i = 0 => IsInt(order.amount)
Encodable(ack) == ack.kind \in {"output", "bin_output"} => ack.amount >= 0

Acks ==
  [kind : {"init_input"}, prev_index : Nat]
    \union [kind : {"prev_input"}, input : Inputs]
    \union [kind : {"meta"}, inputs_cnt : Nat, outputs_cnt : Nat]
    \union [kind : {"output"}, payee : BOOLEAN, amount : Nat]
    \union [kind : {"bin_output"}, script : BOOLEAN, amount : Nat]
=============================================================================
