------------------------- MODULE ConversationProofs -------------------------
(***************************************************************************)
(* Proofs about Conversation, for every signing order, every downloaded    *)
(* transaction and any number of messages.                                 *)
(***************************************************************************)
EXTENDS Conversation, SequenceTheorems, TLAPS

-----------------------------------------------------------------------------
(* The inductive invariant, in named parts *)

\* Before the first message nothing has been indexed, answered or told.
StartInv ==
  pc \in {"start", "signtx_init"} =>
    /\ url_data = prev_tx
    /\ config_data = NoOrder
    /\ total_amount = 0
    /\ stack = <<>>
    /\ device.last = NoMessage
    /\ device.told = [inputs |-> 0, outputs |-> 0]
    /\ acks = {}

\* How far vin can have grown, by null members; vout never does.
DataInv ==
  /\ Len(prev_tx.vin) <= Len(url_data.vin)
  /\ \A i \in 0 .. Len(url_data.vin) - 1 : url_data.vin[i + 1] = Downloaded(i)
  /\ Len(url_data.vin) # Len(prev_tx.vin) => Len(url_data.vin) <= config_data.inputs_count
  /\ url_data.vout = prev_tx.vout

\* It was asking for an input past its end that made vin longer, and the count
\* the wallet was told of another.
Counted(p) == p[2].kind = "meta" => p[2].inputs_cnt = Len(prev_tx.vin)
Grown ==
  \/ Len(url_data.vin) = Len(prev_tx.vin) /\ \A p \in acks : Counted(p)
  \/ AskedPastEnd

\* The wallet was told no more than there is, and asks for no more than that.
ToldInv ==
  /\ device.told.inputs <= Len(url_data.vin)
  /\ device.told.outputs <= Len(prev_tx.vout)

AsksInRange(m) ==
  /\ m.request_type = "TXINPUT" =>
       m.index < IF m.tx_hash THEN device.told.inputs ELSE config_data.inputs_count
  /\ m.request_type = "TXOUTPUT" /\ m.tx_hash => m.index < device.told.outputs

AskInv == AsksInRange(device.last)

\* A frame none of whose remaining tests succeeds.
Resolved(frame) == \A k \in 1 .. 5 : ~NextHit(frame, k)

\* Only the innermost frame may still have to answer, and what it answers is
\* the wallet's latest message.
StackInv ==
  /\ \A i \in 1 .. Len(stack) :
       Resolved(stack[i]) \/ (pc = "parse" /\ i = Len(stack))
  /\ pc = "parse" => \/ stack[Len(stack)] = Frame(device.last)
                     \/ /\ \A i \in 1 .. Len(stack) : Resolved(stack[i])
                        /\ \A k \in 1 .. 5 : ~Hits(device.last, k)

\* The TxAck a request gets; but for the number of inputs, which may have grown.
Canonical(m) ==
  IF m.request_type = "TXINPUT"
    THEN IF m.tx_hash THEN [kind |-> "prev_input", input |-> Downloaded(m.index)]
                      ELSE [kind |-> "init_input", prev_index |-> Downloaded(m.index).n]
  ELSE IF m.request_type = "TXOUTPUT"
    THEN IF m.tx_hash
           THEN BinOutputAck(prev_tx, m.index)
           ELSE OutputAck(IF ChangeAmount(0, config_data) >= 0 THEN 0 ELSE TotalAmount,
                          config_data, m.index)
  ELSE MetaAck(prev_tx)

GoodAck(m, ack, total) ==
  /\ Encodable(ack)
  /\ IF Canonical(m).kind = "meta"
       THEN ack = [kind |-> "meta", inputs_cnt |-> ack.inputs_cnt,
                   outputs_cnt |-> Len(prev_tx.vout)]
       ELSE ack = Canonical(m)
  /\ ack.kind = "bin_output" => m.index < Len(prev_tx.vout)
  /\ ack.kind = "meta" =>
       /\ Len(prev_tx.vin) <= ack.inputs_cnt
       /\ \/ ack.inputs_cnt = Len(prev_tx.vin)
          \/ ack.inputs_cnt <= config_data.inputs_count
       /\ ack.outputs_cnt = Len(prev_tx.vout)
  /\ config_data.amount + Fee <= IntMax + 1 /\ ack.kind = "output" /\ ~ack.payee =>
       /\ ack.amount + config_data.amount + Fee = TotalAmount
       /\ total = TotalAmount

AcksInv == \A p \in acks : GoodAck(p[1], p[2], total_amount)

\* total_amount is set by an answered output of the previous transaction
\* (or by one the codec rejects, and then the command has failed).
BinAnswered == \E q \in acks : q[2].kind = "bin_output"

ChangeAcks == {p \in acks : /\ config_data.amount + Fee <= IntMax + 1
                           /\ p[2].kind = "output" /\ ~p[2].payee}

TotalInv ==
  /\ total_amount = TotalAmount /\ pc # "failed" => BinAnswered
  /\ ChangeAcks # {} => BinAnswered

-----------------------------------------------------------------------------
(* Lemmas about the data *)

\* What operator[](i) returns and what it does to the array.
LEMMA ArrayGetFacts ==
  ASSUME NEW S, NEW array \in Seq(S), NEW i \in Nat, NEW null \in S
  PROVE  /\ ArrayGet(array, i, null) \in Seq(S)
         /\ Len(ArrayGet(array, i, null)) = IF i < Len(array) THEN Len(array) ELSE i + 1
         /\ i < Len(array) => ArrayGet(array, i, null) = array
         /\ ArrayGet(array, i, null)[i + 1] \in S
         /\ \A j \in 1 .. Len(ArrayGet(array, i, null)) :
              ArrayGet(array, i, null)[j] = IF j <= Len(array) THEN array[j] ELSE null
<1>1. CASE i < Len(array)
  BY <1>1 DEF ArrayGet
<1>2. CASE ~(i < Len(array))
  <2>1. \A j \in 1 .. i + 1 : (IF j <= Len(array) THEN array[j] ELSE null) \in S
    OBVIOUS
  <2>2. ArrayGet(array, i, null) =
          [j \in 1 .. i + 1 |-> IF j <= Len(array) THEN array[j] ELSE null]
    BY <1>2 DEF ArrayGet
  <2>3. ArrayGet(array, i, null) \in [1 .. i + 1 -> S]
    BY <2>1, <2>2
  <2>4. ArrayGet(array, i, null) \in Seq(S) /\ Len(ArrayGet(array, i, null)) = i + 1
    BY <2>3, IsASeq
  <2> QED
    BY <1>2, <2>2, <2>3, <2>4
<1> QED
  BY <1>1, <1>2

LEMMA NullMembers == NoInput \in Inputs /\ NoOutput \in Outputs
BY DEF NoInput, NoOutput, Inputs, Outputs

LEMMA TouchInputFacts ==
  ASSUME NEW tx \in Transactions, NEW i \in Nat
  PROVE  /\ TouchInput(tx, i) \in Transactions
         /\ TouchInput(tx, i).vin[i + 1] \in Inputs
         /\ TouchInput(tx, i).vout = tx.vout
         /\ Len(TouchInput(tx, i).vin) = IF i < Len(tx.vin) THEN Len(tx.vin) ELSE i + 1
         /\ \A j \in 1 .. Len(TouchInput(tx, i).vin) : TouchInput(tx, i).vin[j] =
              IF j <= Len(tx.vin) THEN tx.vin[j] ELSE NoInput
         /\ i < Len(tx.vin) => TouchInput(tx, i) = tx
BY ArrayGetFacts, NullMembers DEF TouchInput, Transactions

LEMMA TouchOutputFacts ==
  ASSUME NEW tx \in Transactions, NEW i \in Nat
  PROVE  /\ TouchOutput(tx, i) \in Transactions
         /\ TouchOutput(tx, i).vout[i + 1] \in Outputs
         /\ TouchOutput(tx, i).vin = tx.vin
         /\ i < Len(tx.vout) => TouchOutput(tx, i) = tx
BY ArrayGetFacts, NullMembers DEF TouchOutput, Transactions

\* int arithmetic; what the codec lets through is a natural number.
LEMMA AmountFacts ==
  ASSUME NEW total \in {0, TotalAmount}, NEW order \in SigningOrders
  PROVE  /\ ChangeAmount(total, order) \in Int
         /\ order.amount + Fee <= IntMax + 1
               => ChangeAmount(total, order) = total - order.amount - Fee
         /\ order.amount <= IntMax
               => ~(ChangeAmount(0, order) >= 0 /\ ChangeAmount(TotalAmount, order) >= 0)
<1>1. order.amount \in Nat
  BY DEF SigningOrders
<1> DEFINE a == order.amount
<1>2. /\ IntMax \in Nat /\ TotalAmount \in 1 .. IntMax /\ Fee \in 1 .. TotalAmount
  BY AmountsAssumption
<1>3. ASSUME NEW t \in {0, TotalAmount}
      PROVE  ChangeAmount(t, order) = Wrap(Wrap(t - a) - Fee)
  BY DEF ChangeAmount
<1>4. ASSUME NEW x \in Int PROVE Wrap(x) \in Int
  BY <1>2 DEF Wrap, IntMin
<1>5. ASSUME NEW x \in Int, IsInt(x) PROVE Wrap(x) = x
  BY <1>2, <1>5 DEF Wrap, IntMin, IsInt
<1>6. ASSUME NEW x \in Int, x < IntMin PROVE Wrap(x) = x + 2 * (IntMax + 1)
  BY <1>2, <1>6 DEF Wrap
<1>7. ChangeAmount(total, order) \in Int
  <2>1. Wrap(total - a) \in Int
    BY <1>1, <1>2, <1>4
  <2> QED
    BY <2>1, <1>2, <1>3, <1>4
<1>8. ASSUME NEW t \in {0, TotalAmount}, a <= IntMax
      PROVE  Wrap(t - a) = t - a
  BY <1>1, <1>2, <1>5, <1>8 DEF IsInt, IntMin
<1>9. ASSUME a + Fee <= IntMax + 1
      PROVE  ChangeAmount(total, order) = total - a - Fee
  <2>1. a <= IntMax
    BY <1>1, <1>2, <1>9
  <2>2. Wrap(total - a) = total - a
    BY <2>1, <1>8
  <2>3. IsInt(total - a - Fee)
    BY <1>1, <1>2, <1>9 DEF IsInt, IntMin
  <2>4. Wrap(total - a - Fee) = total - a - Fee
    BY <2>3, <1>1, <1>2, <1>5
  <2> QED
    BY <2>2, <2>4, <1>3
<1>10. ASSUME a <= IntMax, ChangeAmount(0, order) >= 0
       PROVE  ~(ChangeAmount(TotalAmount, order) >= 0)
  <2>1. ChangeAmount(0, order) = Wrap(0 - a - Fee)
    BY <1>3, <1>8, <1>10
  <2>2. 0 - a - Fee < IntMin
    <3> SUFFICES ASSUME ~(0 - a - Fee < IntMin) PROVE FALSE
      OBVIOUS
    <3>1. IsInt(0 - a - Fee)
      BY <1>1, <1>2 DEF IsInt, IntMin
    <3>2. Wrap(0 - a - Fee) = 0 - a - Fee
      BY <3>1, <1>1, <1>2, <1>5
    <3> QED
      BY <3>2, <2>1, <1>1, <1>2, <1>10
  <2>3. ChangeAmount(TotalAmount, order) = Wrap(TotalAmount - a - Fee)
    BY <1>3, <1>8, <1>10
  <2>4. IsInt(TotalAmount - a - Fee)
    BY <2>2, <1>1, <1>2, <1>10 DEF IsInt, IntMin
  <2>5. ChangeAmount(TotalAmount, order) = TotalAmount - a - Fee
    BY <2>3, <2>4, <1>1, <1>2, <1>5
  <2> QED
    BY <2>2, <2>5, <1>1, <1>2 DEF IntMin
<1> QED
  BY <1>7, <1>9, <1>10

LEMMA SatoshiFacts ==
  ASSUME NEW out \in Outputs
  PROVE  /\ ToSatoshis(out) \in Int
         /\ ToSatoshis(out) >= 0 => ToSatoshis(out) \in {out.value - 1, out.value}
<1>1. out.value \in Nat /\ IntMax \in Nat
  BY AmountsAssumption DEF Outputs
<1> QED
  BY <1>1 DEF ToSatoshis, IntMin

-----------------------------------------------------------------------------
(* Lemmas about the messages and the frames *)

LEMMA MessageFacts ==
  ASSUME NEW order \in SigningOrders, NEW told \in [inputs : Nat, outputs : Nat],
         NEW work, NEW r \in DeviceMay(work, order, told)
  PROVE  /\ r \in DeviceMessages
         /\ r.request_type = "TXINPUT" =>
              r.index < IF r.tx_hash THEN told.inputs ELSE order.inputs_count
         /\ r.request_type = "TXOUTPUT" /\ r.tx_hash => r.index < told.outputs
         /\ r.type = "TxRequest" \/ r.request_type = "none"
<1>1. order.inputs_count \in Nat /\ order.outputs_count \in Nat
  BY DEF SigningOrders
<1>2. ASSUME NEW t \in Terminal \union {"ButtonRequest", "PinMatrixRequest", "PassphraseRequest"},
             r = Message(t)
      PROVE  /\ r \in DeviceMessages
             /\ r.request_type = "none"
  BY <1>2 DEF Message, DeviceMessages, RequestTypes
<1> DEFINE Good == /\ r \in DeviceMessages
                   /\ r.request_type = "TXINPUT" =>
                        r.index < IF r.tx_hash THEN told.inputs ELSE order.inputs_count
                   /\ r.request_type = "TXOUTPUT" /\ r.tx_hash => r.index < told.outputs
                   /\ r.type = "TxRequest"
<1>3. ASSUME r \in TxRequests(order, told) PROVE Good
  <2>1. ASSUME NEW i \in 0 .. order.inputs_count - 1, r = TxRequest("TXINPUT", i, FALSE)
        PROVE  Good
    BY <1>1, <2>1 DEF TxRequest, DeviceMessages, RequestTypes
  <2>2. ASSUME NEW i \in 0 .. order.outputs_count - 1, r = TxRequest("TXOUTPUT", i, FALSE)
        PROVE  Good
    BY <1>1, <2>2 DEF TxRequest, DeviceMessages, RequestTypes
  <2>3. ASSUME NEW i \in 0 .. told.inputs - 1, r = TxRequest("TXINPUT", i, TRUE)
        PROVE  Good
    BY <2>3 DEF TxRequest, DeviceMessages, RequestTypes
  <2>4. ASSUME NEW i \in 0 .. told.outputs - 1, r = TxRequest("TXOUTPUT", i, TRUE)
        PROVE  Good
    BY <2>4 DEF TxRequest, DeviceMessages, RequestTypes
  <2>5. ASSUME r = TxRequest("TXMETA", 0, TRUE) PROVE Good
    BY <2>5 DEF TxRequest, DeviceMessages, RequestTypes
  <2>6. ASSUME r = TxRequest("TXFINISHED", 0, FALSE) PROVE Good
    BY <2>6 DEF TxRequest, DeviceMessages, RequestTypes
  <2>7. \/ \E i \in 0 .. order.inputs_count - 1 : r = TxRequest("TXINPUT", i, FALSE)
        \/ \E i \in 0 .. order.outputs_count - 1 : r = TxRequest("TXOUTPUT", i, FALSE)
        \/ \E i \in 0 .. told.inputs - 1 : r = TxRequest("TXINPUT", i, TRUE)
        \/ \E i \in 0 .. told.outputs - 1 : r = TxRequest("TXOUTPUT", i, TRUE)
        \/ r = TxRequest("TXMETA", 0, TRUE)
        \/ r = TxRequest("TXFINISHED", 0, FALSE)
    BY <1>3 DEF TxRequests
  <2> HIDE DEF Good
  <2> QED
    BY <2>1, <2>2, <2>3, <2>4, <2>5, <2>6, <2>7
<1>4. \/ r \in TxRequests(order, told)
      \/ \E t \in Terminal \union {"ButtonRequest", "PinMatrixRequest", "PassphraseRequest"} :
           r = Message(t)
  BY DEF DeviceMay, Terminal
<1> QED
  BY <1>2, <1>3, <1>4

\* Every TxAck the codec accepts is well formed.
LEMMA AckFacts ==
  ASSUME NEW tx \in Transactions, NEW i \in Nat,
         NEW total \in {0, TotalAmount}, NEW order \in SigningOrders
  PROVE  /\ tx.vin[i + 1] \in Inputs => /\ PrevInputAck(tx, i) \in Acks
                                       /\ InitInputAck(tx, i) \in Acks
         /\ tx.vout[i + 1] \in Outputs /\ Encodable(BinOutputAck(tx, i))
              => BinOutputAck(tx, i) \in Acks
         /\ MetaAck(tx) \in Acks
         /\ Encodable(OutputAck(total, order, i)) => OutputAck(total, order, i) \in Acks
<1>1. tx.vin[i + 1] \in Inputs => /\ PrevInputAck(tx, i) \in Acks
                                  /\ InitInputAck(tx, i) \in Acks
  BY DEF PrevInputAck, InitInputAck, Acks, Inputs
<1>2. ASSUME tx.vout[i + 1] \in Outputs, Encodable(BinOutputAck(tx, i))
      PROVE  BinOutputAck(tx, i) \in Acks
  <2>1. /\ ToSatoshis(tx.vout[i + 1]) \in Nat
        /\ tx.vout[i + 1].present \in BOOLEAN
    BY <1>2, SatoshiFacts DEF Encodable, BinOutputAck, Outputs
  <2> QED
    BY <2>1 DEF BinOutputAck, Acks
<1>3. MetaAck(tx) \in Acks
  <2>1. Len(tx.vin) \in Nat /\ Len(tx.vout) \in Nat
    BY DEF Transactions
  <2> QED
    BY <2>1 DEF MetaAck, Acks
<1>4. ASSUME Encodable(OutputAck(total, order, i))
      PROVE  OutputAck(total, order, i) \in Acks
  <2>1. ChangeAmount(total, order) \in Int /\ order.amount \in Nat
    BY AmountFacts DEF SigningOrders
  <2>2. CASE i = 0
    BY <2>1, <2>2, <1>4 DEF OutputAck, Encodable, Acks
  <2>3. CASE i # 0
    BY <2>1, <2>3 DEF OutputAck, Acks
  <2> QED
    BY <2>2, <2>3
<1> QED
  BY <1>1, <1>2, <1>3, <1>4

LEMMA FrameFacts ==
  ASSUME NEW m \in DeviceMessages
  PROVE  Frame(m) \in Frames /\ Frame(m).msg = m /\ Frame(m).at = 1
BY DEF Frame, Frames

\* Moving the innermost frame to another test leaves the others alone.
LEMMA AdvanceFacts ==
  ASSUME NEW s \in Seq(Frames), s # <<>>, NEW k \in 1 .. 5
  PROVE  /\ Advance(s, k) \in Seq(Frames)
         /\ Len(Advance(s, k)) = Len(s)
         /\ Advance(s, k)[Len(s)] = [s[Len(s)] EXCEPT !.at = k + 1]
         /\ \A i \in 1 .. Len(s) - 1 : Advance(s, k)[i] = s[i]
<1> DEFINE t == Advance(s, k)
<1>1. Len(s) \in Nat \ {0} /\ s[Len(s)] \in Frames
  BY EmptySeq
<1>2. [s[Len(s)] EXCEPT !.at = k + 1] \in Frames
  BY <1>1 DEF Frames
<1>3. t = [s EXCEPT ![Len(s)] = [s[Len(s)] EXCEPT !.at = k + 1]]
  BY DEF Advance
<1>4. t \in Seq(Frames) /\ Len(t) = Len(s)
  BY <1>1, <1>2, <1>3, ExceptSeq
<1>5. t[Len(s)] = [s[Len(s)] EXCEPT !.at = k + 1]
  BY <1>1, <1>3, ExceptSeq
<1>6. \A i \in 1 .. Len(s) - 1 : t[i] = s[i]
  BY <1>1, <1>2, <1>3, ExceptSeq
<1> QED
  BY <1>4, <1>5, <1>6

\* Removing the innermost frame leaves the others alone.
LEMMA PopFacts ==
  ASSUME NEW s \in Seq(Frames), s # <<>>
  PROVE  LET t == SubSeq(s, 1, Len(s) - 1)
         IN  /\ t \in Seq(Frames)
             /\ Len(t) = Len(s) - 1
             /\ \A i \in 1 .. Len(s) - 1 : t[i] = s[i]
<1> DEFINE n == Len(s) - 1
<1>1. n \in Nat
  BY EmptySeq
<1>2. \A i \in 1 .. n : s[i] \in Frames
  BY <1>1
<1> HIDE DEF n
<1>3. /\ SubSeq(s, 1, n) \in Seq(Frames)
      /\ Len(SubSeq(s, 1, n)) = n
      /\ \A i \in 1 .. n : SubSeq(s, 1, n)[i] = s[i]
  BY <1>1, <1>2
<1> QED
  BY <1>3 DEF n

-----------------------------------------------------------------------------
(* Type correctness *)

LEMMA ConstantTypes ==
  /\ NoOrder \in SigningOrders
  /\ NoTransaction \in Transactions
  /\ NoMessage \in DeviceMessages
  /\ TotalAmount \in Nat
BY AmountsAssumption
   DEF NoOrder, SigningOrders, NoTransaction, Transactions, NoMessage, Message,
       DeviceMessages, RequestTypes

\* The innermost frame of a running parse_read_message.
LEMMA TopFacts ==
  ASSUME TypeOK, pc = "parse"
  PROVE  Top \in Frames /\ Top.msg \in DeviceMessages /\ Top.msg.index \in Nat
<1>1. Top \in Frames
  BY EmptySeq DEF TypeOK, Top
<1> QED
  BY <1>1 DEF Frames, DeviceMessages

\* A write_tx* function whose TxAck is well formed keeps the types.
LEMMA WriteTxAckTypes ==
  ASSUME TypeOK, pc = "parse", NEW k \in 1 .. 5, NEW ack,
         Encodable(ack) => ack \in Acks,
         WriteTxAck(k, ack),
         url_data' \in Transactions, total_amount' \in {0, TotalAmount}
  PROVE  TypeOK'
<1>1. CASE Encodable(ack)
  <2>1. /\ pc' = "exchange" /\ wire_in' = "TxAck"
        /\ stack' = Advance(stack, k)
        /\ acks' = acks \union {<<Top.msg, ack>>}
        /\ UNCHANGED <<cmd, json_msg, config_data, prev_tx, device>>
    BY <1>1 DEF WriteTxAck, WriteMessage
  <2>2. stack' \in Seq(Frames)
    BY <2>1, AdvanceFacts DEF TypeOK
  <2>3. acks' \subseteq DeviceMessages \X Acks
    BY <1>1, <2>1, TopFacts DEF TypeOK
  <2> QED
    BY <2>1, <2>2, <2>3 DEF TypeOK
<1>2. CASE ~Encodable(ack)
  BY <1>2, EmptySeq DEF WriteTxAck, Throw, TypeOK, Final
<1> QED
  BY <1>1, <1>2

LEMMA TypeInit == Init => TypeOK
<1> SUFFICES ASSUME Init PROVE TypeOK
  OBVIOUS
<1>1. json_msg \in SigningOrders
  BY ConstantTypes, ConversationAssumption DEF Init
<1>2. device \in [work : {"none"} \union FirstMessages, last : DeviceMessages, messages : 0 .. MaxMessages,
                  told : [inputs : Nat, outputs : Nat]]
  <2>1. 0 \in 0 .. MaxMessages
    BY ConversationAssumption
  <2>2. [inputs |-> 0, outputs |-> 0] \in [inputs : Nat, outputs : Nat]
    OBVIOUS
  <2>3. device = [work |-> "none", last |-> NoMessage, messages |-> 0,
                 told |-> [inputs |-> 0, outputs |-> 0]]
    BY DEF Init
  <2> QED
    BY <2>1, <2>2, <2>3, ConstantTypes
<1> QED
  BY <1>1, <1>2, ConstantTypes, EmptySeq DEF Init, TypeOK

LEMMA TypeStep == TypeOK /\ [Next]_vars => TypeOK'
<1> SUFFICES ASSUME TypeOK, [Next]_vars PROVE TypeOK'
  OBVIOUS
<1>1. CASE JsonInitFails
  BY <1>1 DEF JsonInitFails, historyVars, TypeOK, Final
<1>2. CASE SendCommand
  BY <1>2 DEF SendCommand, historyVars, TypeOK, FirstMessages
<1>3. CASE RequestData
  BY <1>3, ConversationAssumption DEF RequestData, TypeOK
<1>4. CASE RequestDataThrows
  BY <1>4, EmptySeq DEF RequestDataThrows, Throw, historyVars, TypeOK, Final
<1>5. CASE WriteSigntxInit
  BY <1>5 DEF WriteSigntxInit, historyVars, TypeOK, FirstMessages, Commands
<1>6. CASE Exchange
  <2>1. PICK r \in DeviceMay(WorkAfter(wire_in), config_data, ToldAfter(wire_in)) :
          /\ device' = [work     |-> IF IsLast(r) THEN "none" ELSE WorkAfter(wire_in),
                        last     |-> r,
                        messages |-> device.messages + 1,
                        told     |-> ToldAfter(wire_in)]
          /\ IF cmd \in ParsingCommands
               THEN pc' = "parse" /\ stack' = Append(stack, Frame(r))
               ELSE pc' = "done" /\ UNCHANGED stack
    BY <1>6 DEF Exchange
  <2>2. ToldAfter(wire_in) \in [inputs : Nat, outputs : Nat]
    BY DEF ToldAfter, TypeOK, Transactions
  <2>3. WorkAfter(wire_in) \in {"none"} \union FirstMessages
    BY DEF WorkAfter, TypeOK
  <2>4. r \in DeviceMessages
    BY <2>1, <2>2, MessageFacts, ConstantTypes DEF TypeOK
  <2>5. device.messages + 1 \in 0 .. MaxMessages
    BY <1>6, ConversationAssumption DEF Exchange, TypeOK
  <2>6. device' \in [work : {"none"} \union FirstMessages, last : DeviceMessages, messages : 0 .. MaxMessages,
                     told : [inputs : Nat, outputs : Nat]]
    <3>1. (IF IsLast(r) THEN "none" ELSE WorkAfter(wire_in))
             \in {"none"} \union FirstMessages
      BY <2>3
    <3> QED
      BY <3>1, <2>1, <2>2, <2>4, <2>5
  <2>7. stack' \in Seq(Frames) /\ (pc' = "parse" => stack' # <<>>)
    <3>1. Frame(r) \in Frames
      BY <2>4, FrameFacts
    <3>2. stack \in Seq(Frames) /\ (pc = "parse" => stack # <<>>)
      BY DEF TypeOK
    <3>3. Append(stack, Frame(r)) \in Seq(Frames) /\ Append(stack, Frame(r)) # <<>>
      BY <3>1, <3>2
    <3> QED
      BY <3>2, <3>3, <2>1
  <2>8. pc' \in {"parse", "done"}
    BY <2>1
  <2> QED
    BY <1>6, <2>6, <2>7, <2>8 DEF Exchange, historyVars, TypeOK, Final
<1>7. CASE CommunicationThrows
  BY <1>7, EmptySeq DEF CommunicationThrows, Throw, historyVars, TypeOK, Final
<1>8. CASE WriteTxInputs
  <2> DEFINE i == Top.msg.index
  <2>1. pc = "parse" /\ i \in Nat
    BY <1>8, TopFacts DEF WriteTxInputs, Calls
  <2>2. url_data' \in Transactions /\ url_data'.vin[i + 1] \in Inputs
    BY <1>8, <2>1, TouchInputFacts DEF WriteTxInputs, TypeOK
  <2>3. PrevInputAck(url_data', i) \in Acks
    BY <2>1, <2>2, AckFacts, ConstantTypes
  <2> QED
    BY <1>8, <2>1, <2>2, <2>3, WriteTxAckTypes DEF WriteTxInputs, TypeOK
<1>9. CASE WriteTxinitInputs
  <2> DEFINE i == Top.msg.index
  <2>1. pc = "parse" /\ i \in Nat
    BY <1>9, TopFacts DEF WriteTxinitInputs, Calls
  <2>2. url_data' \in Transactions /\ url_data'.vin[i + 1] \in Inputs
    BY <1>9, <2>1, TouchInputFacts DEF WriteTxinitInputs, TypeOK
  <2>3. InitInputAck(url_data', i) \in Acks
    BY <2>1, <2>2, AckFacts, ConstantTypes
  <2> QED
    BY <1>9, <2>1, <2>2, <2>3, WriteTxAckTypes DEF WriteTxinitInputs, TypeOK
<1>10. CASE WriteTxOutputs
  <2> DEFINE i == Top.msg.index
             ack == OutputAck(total_amount, config_data, i)
  <2>1. pc = "parse" /\ i \in Nat
    BY <1>10, TopFacts DEF WriteTxOutputs, Calls
  <2>2. Encodable(ack) => ack \in Acks
    BY <2>1, AckFacts, ConstantTypes DEF TypeOK
  <2>3. CASE ChangeIsComputable(config_data, i)
    BY <1>10, <2>1, <2>2, <2>3, WriteTxAckTypes DEF WriteTxOutputs, TypeOK
  <2>4. CASE ~ChangeIsComputable(config_data, i)
    BY <1>10, <2>4, EmptySeq DEF WriteTxOutputs, Throw, historyVars, TypeOK, Final
  <2> QED
    BY <2>3, <2>4
<1>11. CASE WriteTxbinOutputs
  <2> DEFINE i == Top.msg.index
             ack == BinOutputAck(url_data', i)
  <2>1. pc = "parse" /\ i \in Nat
    BY <1>11, TopFacts DEF WriteTxbinOutputs, Calls
  <2>2. url_data' \in Transactions /\ url_data'.vout[i + 1] \in Outputs
    BY <1>11, <2>1, TouchOutputFacts DEF WriteTxbinOutputs, TypeOK
  <2>3. Encodable(ack) => ack \in Acks
    BY <2>1, <2>2, AckFacts, ConstantTypes
  <2> QED
    BY <1>11, <2>1, <2>2, <2>3, WriteTxAckTypes DEF WriteTxbinOutputs
<1>12. CASE WriteTxMeta
  <2>1. pc = "parse"
    BY <1>12 DEF WriteTxMeta, Calls
  <2>2. MetaAck(url_data) \in Acks
    BY AckFacts, ConstantTypes DEF TypeOK
  <2> QED
    BY <1>12, <2>1, <2>2, WriteTxAckTypes DEF WriteTxMeta, TypeOK
<1>13. CASE WriteButtonAck
  <2>1. stack \in Seq(Frames) /\ stack # <<>>
    BY <1>13 DEF WriteButtonAck, Calls, TypeOK
  <2>2. stack' = Advance(stack, 4)
    BY <1>13 DEF WriteButtonAck, WriteMessage
  <2>3. stack' \in Seq(Frames)
    <3>1. 4 \in 1 .. 5
      OBVIOUS
    <3> QED
      BY <2>1, <2>2, <3>1, AdvanceFacts
  <2> QED
    BY <1>13, <2>3 DEF WriteButtonAck, WriteMessage, historyVars, TypeOK
<1>14. CASE WritePinAck
  <2>1. stack \in Seq(Frames) /\ stack # <<>>
    BY <1>14 DEF WritePinAck, Calls, TypeOK
  <2>2. stack' = Advance(stack, 5)
    BY <1>14 DEF WritePinAck, WriteMessage
  <2>3. stack' \in Seq(Frames)
    <3>1. 5 \in 1 .. 5
      OBVIOUS
    <3> QED
      BY <2>1, <2>2, <3>1, AdvanceFacts
  <2> QED
    BY <1>14, <2>3 DEF WritePinAck, WriteMessage, historyVars, TypeOK
<1>15. CASE ParseReturns
  <2>1. Len(stack) \in Nat \ {0}
    BY <1>15, EmptySeq DEF ParseReturns, TypeOK
  <2>2. /\ stack' \in Seq(Frames)
        /\ Len(stack') = Len(stack) - 1
    BY <1>15, PopFacts DEF ParseReturns, TypeOK
  <2>3. pc' = "parse" => stack' # <<>>
    <3> SUFFICES ASSUME pc' = "parse" PROVE Len(stack') # 0
      BY EmptySeq
    <3>1. Len(stack) # 1
      BY <1>15 DEF ParseReturns
    <3> QED
      BY <2>1, <2>2, <3>1
  <2> QED
    BY <1>15, <2>2, <2>3 DEF ParseReturns, historyVars, TypeOK, Final
<1>16. CASE UNCHANGED vars
  BY <1>16 DEF vars, hostVars, historyVars, TypeOK
<1> QED
  BY <1>1, <1>2, <1>3, <1>4, <1>5, <1>6, <1>7, <1>8, <1>9, <1>10, <1>11, <1>12,
     <1>13, <1>14, <1>15, <1>16
     DEF Next, Command, Communicate, ParseReadMessage, Finished

\* Type correctness: every variable keeps its type in every run of the tool,
\* in particular every TxAck that is sent is one of the five the write_*
\* functions build (command.hpp, common_msg.hpp).
THEOREM TypeCorrect == Spec => []TypeOK
BY TypeInit, TypeStep, PTL DEF Spec

-----------------------------------------------------------------------------
(* The call stack of parse_read_message *)

\* The five tests, spelled out.
LEMMA TestFacts ==
  ASSUME NEW m
  PROVE  /\ Hits(m, 1) <=> m.type = "TxRequest" /\ m.request_type = "TXINPUT"
         /\ Hits(m, 2) <=> m.type = "TxRequest" /\ m.request_type = "TXOUTPUT"
         /\ Hits(m, 3) <=> m.type = "TxRequest" /\ m.request_type = "TXMETA"
         /\ Hits(m, 4) <=> m.type = "ButtonRequest"
         /\ Hits(m, 5) <=> m.type = "PinMatrixRequest"
BY DEF Hits, Tests

\* They exclude each other.
LEMMA OneHit ==
  ASSUME NEW m, NEW j \in 1 .. 5, NEW k \in 1 .. 5, Hits(m, j), Hits(m, k)
  PROVE  j = k
BY TestFacts

\* A frame that has answered makes no further call.
LEMMA AnsweredIsResolved ==
  ASSUME NEW f \in Frames, NEW k \in 1 .. 5, NextHit(f, k)
  PROVE  Resolved([f EXCEPT !.at = k + 1])
<1> DEFINE g == [f EXCEPT !.at = k + 1]
<1>1. g.msg = f.msg /\ g.at = k + 1
  BY DEF Frames
<1>2. Hits(f.msg, k)
  BY DEF NextHit
<1>3. ASSUME NEW j \in 1 .. 5, NextHit(g, j) PROVE FALSE
  <2>1. j >= k + 1 /\ Hits(f.msg, j)
    BY <1>1, <1>3 DEF NextHit
  <2> QED
    BY <2>1, <1>2, OneHit
<1> QED
  BY <1>3 DEF Resolved

\* A fresh frame that makes no call parses a message no test knows.
LEMMA ResolvedAtOnce ==
  ASSUME NEW m \in DeviceMessages, Resolved(Frame(m))
  PROVE  \A k \in 1 .. 5 : ~Hits(m, k)
<1>1. \A k \in 1 .. 5 : ~(Hits(m, k) /\ \A j \in 1 .. k - 1 : ~Hits(m, j))
  BY FrameFacts DEF Resolved, NextHit
<1>2. ~Hits(m, 1)
  BY <1>1
<1>3. ~Hits(m, 2)
  BY <1>1, <1>2
<1>4. ~Hits(m, 3)
  BY <1>1, <1>2, <1>3
<1>5. ~Hits(m, 4)
  BY <1>1, <1>2, <1>3, <1>4
<1>6. ~Hits(m, 5)
  BY <1>1, <1>2, <1>3, <1>4, <1>5
<1> QED
  BY <1>2, <1>3, <1>4, <1>5, <1>6

\* The innermost frame calls only in answer to the latest message.
LEMMA CallsLatest ==
  ASSUME TypeOK, StackInv, NEW k \in 1 .. 5, Calls(k)
  PROVE  /\ stack # <<>> /\ Len(stack) \in Nat \ {0}
         /\ Top = Frame(device.last) /\ Top.msg = device.last
         /\ device.last \in DeviceMessages
         /\ Hits(device.last, k)
<1>1. pc = "parse" /\ stack \in Seq(Frames) /\ stack # <<>> /\ Len(stack) \in Nat \ {0}
  BY EmptySeq DEF Calls, TypeOK
<1>2. ~Resolved(Top)
  BY DEF Calls, Resolved
<1>3. Top = Frame(device.last)
  BY <1>1, <1>2 DEF StackInv, Top
<1>4. device.last \in DeviceMessages
  BY DEF TypeOK
<1> QED
  BY <1>1, <1>3, <1>4, FrameFacts DEF Calls, NextHit

LEMMA SendKeepsStack ==
  ASSUME TypeOK, StackInv, NEW k \in 1 .. 5, Calls(k), NEW m, WriteMessage(k, m)
  PROVE  StackInv'
<1>1. /\ stack \in Seq(Frames) /\ stack # <<>> /\ Len(stack) \in Nat \ {0}
      /\ Top \in Frames
  BY CallsLatest, TopFacts DEF TypeOK, Calls
<1>2. pc' = "exchange" /\ stack' = Advance(stack, k)
  BY DEF WriteMessage
<1>3. Len(stack') = Len(stack)
  BY <1>1, <1>2, AdvanceFacts
<1>4. ASSUME NEW i \in 1 .. Len(stack) PROVE Resolved(stack'[i])
  <2>1. CASE i = Len(stack)
    <3>1. stack'[i] = [Top EXCEPT !.at = k + 1]
      BY <2>1, <1>1, <1>2, AdvanceFacts DEF Top
    <3> QED
      BY <3>1, <1>1, AnsweredIsResolved DEF Calls
  <2>2. CASE i # Len(stack)
    <3>1. i \in 1 .. Len(stack) - 1
      BY <2>2, <1>1
    <3>2. stack'[i] = stack[i]
      BY <3>1, <1>1, <1>2, AdvanceFacts
    <3> QED
      BY <3>2, <2>2 DEF StackInv
  <2> QED
    BY <2>1, <2>2
<1> QED
  BY <1>2, <1>3, <1>4 DEF StackInv, Resolved

LEMMA ThrowKeepsStack ==
  ASSUME Throw
  PROVE  StackInv'
<1>1. stack' = <<>> /\ Len(<<>>) = 0 /\ pc' = "failed"
  BY DEF Throw
<1> QED
  BY <1>1 DEF StackInv

LEMMA TxAckKeepsStack ==
  ASSUME TypeOK, StackInv, NEW k \in 1 .. 5, Calls(k), NEW ack, WriteTxAck(k, ack)
  PROVE  StackInv'
BY SendKeepsStack, ThrowKeepsStack DEF WriteTxAck

LEMMA StackInit == Init => StackInv
<1>1. Len(<<>>) = 0
  OBVIOUS
<1> QED
  BY <1>1 DEF Init, StackInv

LEMMA StackStep == TypeOK /\ StackInv /\ [Next]_vars => StackInv'
<1> SUFFICES ASSUME TypeOK, StackInv, [Next]_vars PROVE StackInv'
  OBVIOUS
<1>1. ASSUME UNCHANGED <<stack, device>>, pc # "parse", pc' # "parse" PROVE StackInv'
  BY <1>1 DEF StackInv, Resolved
<1>2. CASE JsonInitFails \/ SendCommand \/ RequestData \/ WriteSigntxInit
  BY <1>1, <1>2 DEF JsonInitFails, SendCommand, RequestData, WriteSigntxInit
<1>3. CASE RequestDataThrows \/ CommunicationThrows
  BY <1>3, ThrowKeepsStack DEF RequestDataThrows, CommunicationThrows
<1>4. CASE Exchange
  <2>1. CASE cmd \in ParsingCommands
    <3>1. PICK r : device'.last = r /\ pc' = "parse" /\ stack' = Append(stack, Frame(r))
      BY <1>4, <2>1 DEF Exchange
    <3>2. stack \in Seq(Frames) /\ pc # "parse"
      BY <1>4 DEF TypeOK, Exchange
    <3>3. device'.last \in DeviceMessages
      BY TypeStep DEF TypeOK
    <3>4. Frame(r) \in Frames
      BY <3>1, <3>3, FrameFacts
    <3>5. /\ Len(stack') = Len(stack) + 1
          /\ stack'[Len(stack) + 1] = Frame(r)
          /\ \A i \in 1 .. Len(stack) : stack'[i] = stack[i]
      BY <3>1, <3>2, <3>4, AppendProperties
    <3>6. \A i \in 1 .. Len(stack) : Resolved(stack'[i])
      BY <3>2, <3>5 DEF StackInv
    <3>7. Len(stack) \in Nat
      BY <3>2
    <3> QED
      BY <3>1, <3>5, <3>6, <3>7 DEF StackInv, Resolved
  <2>2. CASE cmd \notin ParsingCommands
    BY <1>4, <2>2 DEF Exchange, StackInv, Resolved
  <2> QED
    BY <2>1, <2>2
<1>5. CASE WriteTxInputs \/ WriteTxinitInputs
  BY <1>5, TxAckKeepsStack DEF WriteTxInputs, WriteTxinitInputs
<1>6. CASE WriteTxOutputs
  BY <1>6, TxAckKeepsStack, ThrowKeepsStack DEF WriteTxOutputs
<1>7. CASE WriteTxbinOutputs
  BY <1>7, TxAckKeepsStack DEF WriteTxbinOutputs
<1>8. CASE WriteTxMeta
  BY <1>8, TxAckKeepsStack DEF WriteTxMeta
<1>9. CASE WriteButtonAck
  BY <1>9, SendKeepsStack DEF WriteButtonAck
<1>10. CASE WritePinAck
  BY <1>10, SendKeepsStack DEF WritePinAck
<1>11. CASE ParseReturns
  <2>1. pc = "parse" /\ stack \in Seq(Frames) /\ stack # <<>> /\ Len(stack) \in Nat \ {0}
    BY <1>11, EmptySeq DEF ParseReturns, TypeOK
  <2>2. /\ stack' = SubSeq(stack, 1, Len(stack) - 1)
        /\ UNCHANGED device
    BY <1>11 DEF ParseReturns
  <2>3. /\ Len(stack') = Len(stack) - 1
        /\ \A i \in 1 .. Len(stack) - 1 : stack'[i] = stack[i]
    BY <2>1, <2>2, PopFacts
  <2>4. \A i \in 1 .. Len(stack') : Resolved(stack'[i])
    BY <2>1, <2>3 DEF StackInv
  <2>5. \A k \in 1 .. 5 : ~Hits(device.last, k)
    <3>1. Resolved(Top)
      BY <1>11 DEF ParseReturns, Resolved
    <3>2. device.last \in DeviceMessages
      BY DEF TypeOK
    <3>3. CASE Top = Frame(device.last)
      BY <3>1, <3>2, <3>3, ResolvedAtOnce
    <3>4. CASE Top # Frame(device.last)
      BY <2>1, <3>4 DEF StackInv, Top
    <3> QED
      BY <3>3, <3>4
  <2> QED
    BY <2>2, <2>4, <2>5 DEF StackInv, Resolved
<1>12. CASE UNCHANGED vars
  BY <1>12 DEF vars, hostVars, StackInv, Resolved
<1>13. CASE Finished
  BY <1>12, <1>13 DEF Finished
<1> QED
  BY <1>2, <1>3, <1>4, <1>5, <1>6, <1>7, <1>8, <1>9, <1>10, <1>11, <1>12, <1>13
     DEF Next, Command, Communicate, ParseReadMessage

LEMMA StackCorrect == Spec => [](TypeOK /\ StackInv)
BY TypeInit, TypeStep, StackInit, StackStep, PTL DEF Spec

\* Every message of the tool answers the wallet's latest one: a frame of
\* parse_read_message that resumes after the dialogue nested in it sends
\* nothing more, for dialogues of any length.
THEOREM LatestAnswered == Spec => OnlyTheLatestIsAnswered
<1> DEFINE A == pc = "parse" /\ pc' = "exchange" => Top.msg = device.last
<1>1. TypeOK /\ StackInv /\ [Next]_vars => [A]_vars
  <2> SUFFICES ASSUME TypeOK, StackInv, Next, pc = "parse", pc' = "exchange"
               PROVE  Top.msg = device.last
    OBVIOUS
  <2>1. \/ WriteTxInputs \/ WriteTxinitInputs \/ WriteTxOutputs \/ WriteTxbinOutputs
        \/ WriteTxMeta \/ WriteButtonAck \/ WritePinAck
    BY DEF Next, Command, Communicate, ParseReadMessage, Finished, vars, hostVars,
           JsonInitFails, SendCommand, RequestData, RequestDataThrows, WriteSigntxInit,
           Exchange, CommunicationThrows, ParseReturns, Final
  <2>2. \E k \in 1 .. 5 : Calls(k)
    BY <2>1 DEF WriteTxInputs, WriteTxinitInputs, WriteTxOutputs, WriteTxbinOutputs,
                WriteTxMeta, WriteButtonAck, WritePinAck
  <2> QED
    BY <2>2, CallsLatest
<1> QED
  BY <1>1, StackCorrect, PTL DEF Spec, OnlyTheLatestIsAnswered

-----------------------------------------------------------------------------
(* How far url_data and what the wallet knows can drift apart *)

Drift == StartInv /\ DataInv /\ ToldInv /\ AskInv

\* A request of the wallet stays in range as long as the array does.
LEMMA TouchKeepsDrift ==
  ASSUME Drift, DataInv', pc' \notin {"start", "signtx_init"},
         UNCHANGED <<config_data, device, prev_tx>>,
         url_data \in Transactions, url_data' \in Transactions,
         device.told \in [inputs : Nat, outputs : Nat],
         Len(url_data.vin) <= Len(url_data'.vin)
  PROVE  Drift'
<1>1. Len(url_data.vin) \in Nat /\ Len(url_data'.vin) \in Nat
  BY DEF Transactions
<1>2. ToldInv'
  BY <1>1 DEF Drift, ToldInv
<1>3. AskInv'
  BY DEF Drift, AskInv, AsksInRange
<1> QED
  BY <1>2, <1>3 DEF Drift, StartInv

LEMMA DriftInit == Init => Drift
<1> SUFFICES ASSUME Init PROVE Drift
  OBVIOUS
<1>1. StartInv
  BY DEF Init, StartInv, NoTransaction
<1>2. Len(<<>>) = 0
  OBVIOUS
<1>3. DataInv
  BY <1>2 DEF Init, DataInv, NoTransaction
<1>4. ToldInv
  BY <1>2 DEF Init, ToldInv, NoTransaction
<1>5. AskInv
  BY DEF Init, AskInv, AsksInRange, NoMessage, Message
<1> QED
  BY <1>1, <1>3, <1>4, <1>5 DEF Drift

\* After a request in range the array is as it was.
LEMMA TouchInRange ==
  ASSUME TypeOK, StackInv, Drift, NEW k \in {1, 2}, Calls(k), Top.msg.tx_hash
  PROVE  /\ k = 1 => /\ TouchInput(url_data, Top.msg.index) = url_data
                     /\ Top.msg.index < Len(url_data.vin)
         /\ k = 2 => /\ TouchOutput(url_data, Top.msg.index) = url_data
                     /\ Top.msg.index < Len(url_data.vout)
                     /\ Top.msg.index < Len(prev_tx.vout)
<1> DEFINE m == device.last
<1>1. Top.msg = m /\ m \in DeviceMessages /\ Hits(m, k)
  BY CallsLatest
<1>2. m.index \in Nat /\ m.tx_hash
  BY <1>1 DEF DeviceMessages
<1>3. url_data \in Transactions /\ device.told.inputs \in Nat /\ device.told.outputs \in Nat
  BY DEF TypeOK
<1>4. Len(url_data.vin) \in Nat /\ Len(url_data.vout) \in Nat
  BY <1>3 DEF Transactions
<1>5. CASE k = 1
  <2>1. m.index < device.told.inputs
    BY <1>1, <1>2, <1>5, TestFacts DEF Drift, AskInv, AsksInRange
  <2>2. m.index < Len(url_data.vin)
    BY <2>1, <1>2, <1>3, <1>4 DEF Drift, ToldInv
  <2> QED
    BY <2>2, <1>1, <1>2, <1>3, <1>5, TouchInputFacts
<1>6. CASE k = 2
  <2>1. m.index < device.told.outputs
    BY <1>1, <1>2, <1>6, TestFacts DEF Drift, AskInv, AsksInRange
  <2>2. m.index < Len(url_data.vout) /\ url_data.vout = prev_tx.vout
    BY <2>1, <1>2, <1>3, <1>4 DEF Drift, ToldInv, DataInv
  <2> QED
    <3>1. TouchOutput(url_data, m.index) = url_data
      BY <2>2, <1>2, <1>3, TouchOutputFacts
    <3> QED
      BY <3>1, <2>2, <1>1, <1>6
<1> QED
  BY <1>5, <1>6

\* An input of the new transaction may lengthen vin, up to what the order says.
LEMMA TouchNewInput ==
  ASSUME TypeOK, StackInv, Drift, Calls(1), ~Top.msg.tx_hash,
         url_data' = TouchInput(url_data, Top.msg.index),
         UNCHANGED <<config_data, prev_tx>>
  PROVE  /\ DataInv'
         /\ Len(url_data.vin) <= Len(url_data'.vin)
         /\ url_data'.vin[Top.msg.index + 1] = Downloaded(Top.msg.index)
         /\ Len(url_data'.vin) # Len(url_data.vin) => Top.msg.index >= Len(prev_tx.vin)
<1> DEFINE i == Top.msg.index
<1>1. /\ Top.msg = device.last /\ device.last \in DeviceMessages
      /\ device.last.request_type = "TXINPUT"
  BY CallsLatest, TestFacts
<1>2. i \in Nat
  BY <1>1 DEF DeviceMessages
<1>3. /\ url_data \in Transactions /\ prev_tx \in Transactions
      /\ config_data.inputs_count \in Nat
  BY ConstantTypes DEF TypeOK, SigningOrders
<1>4. Len(url_data.vin) \in Nat /\ Len(prev_tx.vin) \in Nat
  BY <1>3 DEF Transactions
<1>5. i < config_data.inputs_count
  BY <1>1 DEF Drift, AskInv, AsksInRange
<1>6. /\ url_data'.vout = url_data.vout
      /\ Len(url_data'.vin) = IF i < Len(url_data.vin) THEN Len(url_data.vin) ELSE i + 1
      /\ \A j \in 1 .. Len(url_data'.vin) : url_data'.vin[j] =
           IF j <= Len(url_data.vin) THEN url_data.vin[j] ELSE NoInput
  BY <1>2, <1>3, TouchInputFacts
<1>7. /\ Len(prev_tx.vin) <= Len(url_data.vin)
      /\ \A j \in 0 .. Len(url_data.vin) - 1 : url_data.vin[j + 1] = Downloaded(j)
      /\ Len(url_data.vin) # Len(prev_tx.vin) => Len(url_data.vin) <= config_data.inputs_count
      /\ url_data.vout = prev_tx.vout
  BY DEF Drift, DataInv
<1>8. /\ Len(url_data'.vin) \in Nat /\ Len(url_data.vin) <= Len(url_data'.vin)
      /\ i < Len(url_data'.vin)
      /\ Len(url_data'.vin) # Len(url_data.vin) =>
           i >= Len(prev_tx.vin) /\ Len(url_data'.vin) <= config_data.inputs_count
  BY <1>2, <1>3, <1>4, <1>5, <1>6, <1>7
<1>9. ASSUME NEW j \in 0 .. Len(url_data'.vin) - 1
      PROVE  url_data'.vin[j + 1] = Downloaded(j)
  <2>1. j + 1 \in 1 .. Len(url_data'.vin) /\ j \in Nat
    BY <1>8
  <2>2. CASE j < Len(url_data.vin)
    <3>1. url_data'.vin[j + 1] = url_data.vin[j + 1]
      BY <1>4, <1>6, <2>1, <2>2
    <3>2. j \in 0 .. Len(url_data.vin) - 1
      BY <1>4, <2>1, <2>2
    <3> QED BY <1>7, <3>1, <3>2
  <2>3. CASE ~(j < Len(url_data.vin))
    <3>1. url_data'.vin[j + 1] = NoInput
      BY <1>4, <1>6, <2>1, <2>3
    <3>2. ~(j < Len(prev_tx.vin))
      BY <1>4, <1>7, <2>1, <2>3
    <3> QED BY <3>1, <3>2 DEF Downloaded
  <2> QED BY <2>2, <2>3
<1>10. ASSUME NEW j PROVE Downloaded(j)' = Downloaded(j)
  BY DEF Downloaded
<1>11. Len(url_data'.vin) # Len(prev_tx.vin) => Len(url_data'.vin) <= config_data.inputs_count
  BY <1>4, <1>7, <1>8
<1>12. DataInv'
  BY <1>4, <1>6, <1>7, <1>8, <1>9, <1>10, <1>11 DEF DataInv
<1>13. i \in 0 .. Len(url_data'.vin) - 1
  BY <1>2, <1>8
<1> QED
  BY <1>8, <1>9, <1>12, <1>13

LEMMA DriftStep == TypeOK /\ TypeOK' /\ StackInv /\ Drift /\ [Next]_vars => Drift'
<1> SUFFICES ASSUME TypeOK, TypeOK', StackInv, Drift, [Next]_vars PROVE Drift'
  OBVIOUS
<1>1. /\ url_data \in Transactions /\ url_data' \in Transactions
      /\ prev_tx \in Transactions
      /\ device.told \in [inputs : Nat, outputs : Nat]
      /\ config_data \in SigningOrders
  BY ConstantTypes DEF TypeOK
<1>2. /\ Len(url_data.vin) \in Nat /\ Len(prev_tx.vout) \in Nat
      /\ Len(url_data.vout) \in Nat
  BY <1>1 DEF Transactions
<1>3. ASSUME UNCHANGED <<url_data, config_data, device, prev_tx>>,
             pc' \notin {"start", "signtx_init"}
      PROVE  Drift'
  BY <1>3 DEF Drift, StartInv, DataInv, ToldInv, AskInv, AsksInRange, Downloaded
<1>4. ASSUME Throw, UNCHANGED <<url_data, config_data, device, prev_tx>> PROVE Drift'
  BY <1>3, <1>4 DEF Throw
<1>5. CASE JsonInitFails \/ SendCommand \/ RequestDataThrows \/ CommunicationThrows
  BY <1>3, <1>4, <1>5 DEF JsonInitFails, SendCommand, RequestDataThrows,
                          CommunicationThrows, historyVars
<1>6. CASE RequestData
  <2>1. /\ url_data' = prev_tx' /\ pc = "start" /\ pc' = "signtx_init"
        /\ UNCHANGED <<config_data, total_amount, stack, device, acks>>
    BY <1>6 DEF RequestData
  <2>2. StartInv' /\ device.told = [inputs |-> 0, outputs |-> 0] /\ device.last = NoMessage
    BY <2>1 DEF Drift, StartInv
  <2>3. Len(url_data'.vin) \in Nat /\ Len(url_data'.vout) \in Nat
    BY <1>1 DEF Transactions
  <2>4. DataInv' /\ ToldInv'
    BY <2>1, <2>2, <2>3 DEF DataInv, ToldInv, Downloaded
  <2>5. AskInv'
    BY <2>1, <2>2 DEF AskInv, AsksInRange, NoMessage, Message
  <2> QED
    BY <2>2, <2>4, <2>5 DEF Drift
<1>7. CASE WriteSigntxInit
  <2>1. /\ pc = "signtx_init" /\ pc' = "exchange"
        /\ UNCHANGED <<url_data, device, prev_tx>>
    BY <1>7 DEF WriteSigntxInit, historyVars
  <2>2. url_data = prev_tx /\ device.last = NoMessage
    BY <2>1 DEF Drift, StartInv
  <2>3. DataInv' /\ ToldInv'
    BY <1>2, <2>1, <2>2 DEF Drift, DataInv, ToldInv, Downloaded
  <2>4. AskInv'
    BY <2>1, <2>2 DEF AskInv, AsksInRange, NoMessage, Message
  <2> QED
    BY <2>1, <2>3, <2>4 DEF Drift, StartInv
<1>8. CASE Exchange
  <2> DEFINE told == ToldAfter(wire_in)
             work == WorkAfter(wire_in)
  <2>1. PICK r \in DeviceMay(work, config_data, told) :
          device'.last = r /\ device'.told = told
    BY <1>8 DEF Exchange
  <2>2. /\ pc' \notin {"start", "signtx_init"}
        /\ UNCHANGED <<url_data, config_data, prev_tx>>
    BY <1>8 DEF Exchange, historyVars
  <2>3. told \in [inputs : Nat, outputs : Nat]
    BY <1>1, <1>2 DEF ToldAfter
  <2>4. told.inputs <= Len(url_data.vin) /\ told.outputs <= Len(prev_tx.vout)
    BY <1>1, <1>2 DEF ToldAfter, Drift, ToldInv, DataInv
  <2> HIDE DEF told, work
  <2>5. /\ r.request_type = "TXINPUT" =>
             r.index < IF r.tx_hash THEN told.inputs ELSE config_data.inputs_count
        /\ r.request_type = "TXOUTPUT" /\ r.tx_hash => r.index < told.outputs
    BY <1>1, <2>1, <2>3, MessageFacts
  <2>6. AskInv'
    BY <2>1, <2>2, <2>5 DEF AskInv, AsksInRange
  <2>7. DataInv' /\ ToldInv'
    BY <2>1, <2>2, <2>4 DEF Drift, DataInv, ToldInv, Downloaded
  <2> QED
    BY <2>2, <2>6, <2>7 DEF Drift, StartInv
<1>9. CASE WriteTxInputs
  <2>1. url_data' = url_data
    BY <1>9, TouchInRange DEF WriteTxInputs
  <2> QED
    BY <1>3, <1>4, <1>9, <2>1 DEF WriteTxInputs, WriteTxAck, WriteMessage
<1>10. CASE WriteTxinitInputs
  <2>1. UNCHANGED <<config_data, device, prev_tx>> /\ pc' \notin {"start", "signtx_init"}
    BY <1>10 DEF WriteTxinitInputs, WriteTxAck, WriteMessage, Throw
  <2>2. DataInv' /\ Len(url_data.vin) <= Len(url_data'.vin)
    BY <1>10, <2>1, TouchNewInput DEF WriteTxinitInputs
  <2> QED
    BY <1>1, <2>1, <2>2, TouchKeepsDrift
<1>11. CASE WriteTxOutputs
  BY <1>3, <1>4, <1>11 DEF WriteTxOutputs, WriteTxAck, WriteMessage, historyVars
<1>12. CASE WriteTxbinOutputs
  <2>1. url_data' = url_data
    BY <1>12, TouchInRange DEF WriteTxbinOutputs
  <2> QED
    BY <1>3, <1>4, <1>12, <2>1 DEF WriteTxbinOutputs, WriteTxAck, WriteMessage
<1>13. CASE WriteTxMeta
  BY <1>3, <1>4, <1>13 DEF WriteTxMeta, WriteTxAck, WriteMessage
<1>14. CASE WriteButtonAck \/ WritePinAck
  BY <1>3, <1>14 DEF WriteButtonAck, WritePinAck, WriteMessage, historyVars
<1>15. CASE ParseReturns
  BY <1>3, <1>15 DEF ParseReturns, historyVars
<1>16. CASE UNCHANGED vars
  BY <1>16 DEF vars, hostVars, historyVars, Drift, StartInv, DataInv, ToldInv, AskInv,
               AsksInRange, Downloaded
<1>17. CASE Finished
  BY <1>16, <1>17 DEF Finished
<1> QED
  BY <1>5, <1>6, <1>7, <1>8, <1>9, <1>10, <1>11, <1>12, <1>13, <1>14, <1>15, <1>16, <1>17
     DEF Next, Command, Communicate, ParseReadMessage
-----------------------------------------------------------------------------
(* What the wallet has been told *)

Told == AcksInv /\ TotalInv

LEMMA ToldInit == Init => Told
BY AmountsAssumption DEF Init, Told, AcksInv, TotalInv, ChangeAcks

\* A TxAck that is good when it is sent stays so.
LEMMA WriteTxAckKeepsTold ==
  ASSUME Told, pc = "parse", NEW k \in 1 .. 5, NEW ack, WriteTxAck(k, ack),
         total_amount' \in {total_amount, TotalAmount},
         Encodable(ack) => GoodAck(Top.msg, ack, total_amount'),
         total_amount' = total_amount \/ ack.kind = "bin_output"
  PROVE  Told'
<1>1. UNCHANGED <<config_data, prev_tx>>
  BY DEF WriteTxAck
<1>2. ASSUME NEW m, NEW a, GoodAck(m, a, total_amount')
      PROVE  GoodAck(m, a, total_amount)'
  BY <1>1, <1>2 DEF GoodAck, Downloaded, Canonical
<1>3. ASSUME NEW p \in acks PROVE GoodAck(p[1], p[2], total_amount)'
  <2>1. GoodAck(p[1], p[2], total_amount)
    BY DEF Told, AcksInv
  <2>2. GoodAck(p[1], p[2], total_amount')
    BY <2>1 DEF GoodAck
  <2> QED
    BY <2>2, <1>2
<1>4. CASE Encodable(ack)
  <2>1. acks' = acks \union {<<Top.msg, ack>>}
    BY <1>4 DEF WriteTxAck
  <2>2. ASSUME NEW p \in acks' PROVE GoodAck(p[1], p[2], total_amount)'
    <3>1. CASE p \in acks
      BY <3>1, <1>3
    <3>2. CASE p = <<Top.msg, ack>>
      <4>1. GoodAck(p[1], p[2], total_amount')
        BY <1>4, <3>2
      <4> QED
        BY <4>1, <1>2
    <3> QED
      BY <2>1, <3>1, <3>2
  <2>3. AcksInv'
    BY <2>2 DEF AcksInv
  <2>4. (total_amount = TotalAmount => BinAnswered)'
    <3>1. CASE ack.kind = "bin_output"
      <4>1. <<Top.msg, ack>> \in acks' /\ <<Top.msg, ack>>[2] = ack
        BY <2>1
      <4> QED
        BY <4>1, <3>1 DEF BinAnswered
    <3>2. CASE total_amount' = total_amount
      BY <2>1, <3>2 DEF Told, TotalInv, BinAnswered
    <3> QED
      BY <3>1, <3>2
  <2>5. (ChangeAcks # {} => total_amount = TotalAmount)'
    BY <2>3 DEF AcksInv, GoodAck, ChangeAcks
  <2> QED
    BY <2>3, <2>4, <2>5 DEF Told, TotalInv
<1>5. CASE ~Encodable(ack)
  BY <1>1, <1>3, <1>5 DEF WriteTxAck, Throw, Told, AcksInv, TotalInv, BinAnswered, ChangeAcks
<1> QED
  BY <1>4, <1>5

LEMMA ToldStep ==
  TypeOK /\ TypeOK' /\ StackInv /\ Drift /\ Told /\ [Next]_vars => Told'
<1> SUFFICES ASSUME TypeOK, TypeOK', StackInv, Drift, Told, [Next]_vars
             PROVE  Told'
  OBVIOUS
<1>1. /\ url_data \in Transactions /\ url_data' \in Transactions
      /\ prev_tx \in Transactions
      /\ config_data \in SigningOrders
      /\ total_amount \in {0, TotalAmount}
  BY ConstantTypes DEF TypeOK
<1>2. ASSUME UNCHANGED <<config_data, prev_tx, total_amount, acks>>, pc # "failed"
      PROVE  Told'
  BY <1>2 DEF Told, AcksInv, GoodAck, TotalInv, BinAnswered, ChangeAcks, Downloaded,
               Canonical
<1>3. ASSUME acks = {}, acks' = {}, total_amount = 0, UNCHANGED total_amount
      PROVE  Told'
  BY <1>3, AmountsAssumption DEF Told, AcksInv, TotalInv, ChangeAcks
<1>4. CASE JsonInitFails \/ SendCommand \/ RequestDataThrows \/ Exchange
             \/ CommunicationThrows \/ ParseReturns
  BY <1>2, <1>4 DEF JsonInitFails, SendCommand, RequestDataThrows, Exchange,
                    CommunicationThrows, ParseReturns, historyVars
<1>5. CASE RequestData \/ WriteSigntxInit
  BY <1>3, <1>5 DEF RequestData, WriteSigntxInit, historyVars, Drift, StartInv
<1>6. CASE WriteTxInputs
  <2> DEFINE i == Top.msg.index
             ack == PrevInputAck(url_data, i)
  <2>1. /\ pc = "parse" /\ Calls(1) /\ Top.msg.tx_hash
        /\ WriteTxAck(1, PrevInputAck(url_data', i)) /\ UNCHANGED total_amount
        /\ url_data' = TouchInput(url_data, i)
    BY <1>6 DEF WriteTxInputs, Calls
  <2>2. url_data' = url_data /\ i < Len(url_data.vin)
    BY <2>1, TouchInRange
  <2>3. Top.msg.request_type = "TXINPUT"
    BY <2>1, CallsLatest, TestFacts
  <2>4. WriteTxAck(1, ack)
    BY <2>1, <2>2
  <2>5. ack.kind = "prev_input"
    BY DEF PrevInputAck
  <2>6. url_data.vin[i + 1] = Downloaded(i)
    <3>1. i \in Nat /\ Len(url_data.vin) \in Nat
      BY <1>1, <2>1, CallsLatest DEF DeviceMessages, Transactions
    <3>2. i \in 0 .. Len(url_data.vin) - 1
      BY <2>2, <3>1
    <3> QED BY <3>2 DEF Drift, DataInv
  <2>7. ack = Canonical(Top.msg)
    BY <2>1, <2>3, <2>6 DEF Canonical, PrevInputAck
  <2>8. GoodAck(Top.msg, ack, total_amount')
    BY <2>5, <2>7 DEF GoodAck, Encodable
  <2> HIDE DEF ack
  <2> QED
    BY <2>1, <2>4, <2>8, WriteTxAckKeepsTold
<1>7. CASE WriteTxinitInputs
  <2> DEFINE i == Top.msg.index
             ack == InitInputAck(TouchInput(url_data, i), i)
  <2>1. /\ pc = "parse" /\ Calls(1) /\ ~Top.msg.tx_hash
        /\ WriteTxAck(1, ack) /\ UNCHANGED total_amount
        /\ url_data' = TouchInput(url_data, i)
    BY <1>7 DEF WriteTxinitInputs, Calls
  <2>2. url_data'.vin[i + 1] = Downloaded(i)
    BY <2>1, TouchNewInput DEF WriteTxAck
  <2>3. Top.msg.request_type = "TXINPUT"
    BY <2>1, CallsLatest, TestFacts
  <2>4. ack.kind = "init_input"
    BY DEF InitInputAck
  <2>5. ack = [kind |-> "init_input", prev_index |-> Downloaded(i).n]
    BY <2>1, <2>2 DEF InitInputAck
  <2>6. ack = Canonical(Top.msg)
    BY <2>1, <2>3, <2>5 DEF Canonical
  <2>7. GoodAck(Top.msg, ack, total_amount')
    BY <2>4, <2>6 DEF GoodAck, Encodable
  <2> HIDE DEF ack
  <2> QED
    BY <2>1, <2>7, WriteTxAckKeepsTold
<1>8. CASE WriteTxOutputs
  <2> DEFINE i == Top.msg.index
             ack == OutputAck(total_amount, config_data, i)
  <2>1. /\ pc = "parse" /\ Calls(2) /\ ~Top.msg.tx_hash /\ UNCHANGED total_amount
    BY <1>8 DEF WriteTxOutputs, Calls
  <2>2. CASE ChangeIsComputable(config_data, i)
    <3>1. WriteTxAck(2, ack)
      BY <1>8, <2>2 DEF WriteTxOutputs
    <3>2. Top.msg.request_type = "TXOUTPUT"
      BY <2>1, CallsLatest, TestFacts
    <3>3. ack.kind = "output"
      BY DEF OutputAck
    <3>4. ASSUME Encodable(ack) PROVE GoodAck(Top.msg, ack, total_amount')
      <4>1. CASE i = 0
        <5>1. ack = [kind |-> "output", payee |-> FALSE,
                     amount |-> ChangeAmount(total_amount, config_data)]
          BY <4>1 DEF OutputAck
        <5>2. /\ ChangeAmount(total_amount, config_data) >= 0
              /\ config_data.amount <= IntMax
          BY <2>2, <3>4, <4>1, <5>1 DEF Encodable, ChangeIsComputable, IsInt
        <5>3. ack = OutputAck(IF ChangeAmount(0, config_data) >= 0 THEN 0 ELSE TotalAmount,
                              config_data, i)
          BY <1>1, <4>1, <5>1, <5>2, AmountFacts DEF OutputAck
        <5>4. ASSUME config_data.amount + Fee <= IntMax + 1
              PROVE  /\ ack.amount + config_data.amount + Fee = TotalAmount
                     /\ total_amount = TotalAmount
          <6>1. ack.amount = total_amount - config_data.amount - Fee
            BY <1>1, <5>1, <5>4, AmountFacts
          <6>2. config_data.amount \in Nat /\ ack.amount >= 0
            BY <1>1, <5>1, <5>2 DEF SigningOrders
          <6> QED
            BY <1>1, <6>1, <6>2, AmountsAssumption
        <5>5. ack = Canonical(Top.msg)
          BY <2>1, <3>2, <5>3 DEF Canonical
        <5> HIDE DEF ack
        <5> QED
          BY <2>1, <3>3, <3>4, <5>4, <5>5 DEF GoodAck
      <4>2. CASE i # 0
        <5>1. ack = OutputAck(IF ChangeAmount(0, config_data) >= 0 THEN 0 ELSE TotalAmount,
                              config_data, i)
          BY <4>2 DEF OutputAck
        <5>2. ack = Canonical(Top.msg)
          BY <2>1, <3>2, <5>1 DEF Canonical
        <5>3. ack.payee
          BY <4>2 DEF OutputAck
        <5> HIDE DEF ack
        <5> QED
          BY <3>3, <3>4, <5>2, <5>3 DEF GoodAck
      <4> QED
        BY <4>1, <4>2
    <3> HIDE DEF ack
    <3> QED
      BY <2>1, <3>1, <3>4, WriteTxAckKeepsTold
  <2>3. CASE ~ChangeIsComputable(config_data, i)
    BY <1>2, <1>8, <2>1, <2>3 DEF WriteTxOutputs, Throw, historyVars
  <2> QED
    BY <2>2, <2>3
<1>9. CASE WriteTxbinOutputs
  <2> DEFINE i == Top.msg.index
             ack == BinOutputAck(url_data, i)
  <2>1. /\ pc = "parse" /\ Calls(2) /\ Top.msg.tx_hash
        /\ WriteTxAck(2, BinOutputAck(url_data', i)) /\ total_amount' = TotalAmount
        /\ url_data' = TouchOutput(url_data, i)
    BY <1>9 DEF WriteTxbinOutputs, Calls
  <2>2. url_data' = url_data /\ i < Len(prev_tx.vout)
    BY <2>1, TouchInRange
  <2>3. Top.msg.request_type = "TXOUTPUT"
    BY <2>1, CallsLatest, TestFacts
  <2>4. WriteTxAck(2, ack)
    BY <2>1, <2>2
  <2>5. ack.kind = "bin_output"
    BY DEF BinOutputAck
  <2>6. ack = BinOutputAck(prev_tx, i)
    BY DEF BinOutputAck, Drift, DataInv
  <2>7. ack = Canonical(Top.msg)
    BY <2>1, <2>3, <2>6 DEF Canonical
  <2> HIDE DEF ack
  <2>8. Encodable(ack) => GoodAck(Top.msg, ack, total_amount')
    BY <2>2, <2>5, <2>7 DEF GoodAck
  <2> QED
    BY <2>1, <2>4, <2>5, <2>8, WriteTxAckKeepsTold
<1>10. CASE WriteTxMeta
  <2> DEFINE ack == MetaAck(url_data)
  <2>1. /\ pc = "parse" /\ Calls(3) /\ WriteTxAck(3, ack) /\ UNCHANGED total_amount
    BY <1>10 DEF WriteTxMeta, Calls
  <2>2. Top.msg.request_type = "TXMETA"
    BY <2>1, CallsLatest, TestFacts
  <2>3. /\ ack.kind = "meta" /\ ack.inputs_cnt = Len(url_data.vin)
        /\ ack.outputs_cnt = Len(url_data.vout)
    BY DEF MetaAck
  <2>4. /\ Canonical(Top.msg).kind = "meta"
        /\ ack = [kind |-> "meta", inputs_cnt |-> ack.inputs_cnt,
                  outputs_cnt |-> Len(prev_tx.vout)]
    BY <2>2 DEF Canonical, MetaAck, Drift, DataInv
  <2> HIDE DEF ack
  <2>5. GoodAck(Top.msg, ack, total_amount')
    BY <2>3, <2>4 DEF GoodAck, Encodable, Drift, DataInv
  <2> QED
    BY <2>1, <2>5, WriteTxAckKeepsTold
<1>11. CASE WriteButtonAck \/ WritePinAck
  BY <1>2, <1>11 DEF WriteButtonAck, WritePinAck, Calls, historyVars
<1>12. CASE UNCHANGED vars
  BY <1>12 DEF vars, hostVars, historyVars, Told, AcksInv, GoodAck, TotalInv,
               BinAnswered, ChangeAcks, Downloaded, Canonical
<1>13. CASE Finished
  BY <1>12, <1>13 DEF Finished
<1> QED
  BY <1>4, <1>5, <1>6, <1>7, <1>8, <1>9, <1>10, <1>11, <1>12, <1>13
     DEF Next, Command, Communicate, ParseReadMessage
-----------------------------------------------------------------------------
(* Why the counts can differ: vin was indexed past its end *)

\* Once vin was indexed past its end, it was in this run.
LEMMA AskedStays ==
  ASSUME AskedPastEnd, acks \subseteq acks', UNCHANGED prev_tx
  PROVE  AskedPastEnd'
BY DEF AskedPastEnd

\* Neither vin nor the counts the wallet was told of change.
LEMMA GrownStays ==
  ASSUME Grown, acks \subseteq acks', UNCHANGED <<url_data, prev_tx>>,
         \A p \in acks' \ acks : Counted(p)'
  PROVE  Grown'
<1>1. CASE AskedPastEnd
  BY <1>1, AskedStays DEF Grown
<1>2. CASE Len(url_data.vin) = Len(prev_tx.vin) /\ \A p \in acks : Counted(p)
  <2>1. ASSUME NEW p \in acks' PROVE Counted(p)'
    <3>1. CASE p \in acks
      BY <1>2, <3>1 DEF Counted
    <3>2. CASE p \notin acks
      BY <3>2
    <3> QED BY <3>1, <3>2
  <2> QED
    BY <1>2, <2>1 DEF Grown
<1> QED
  BY <1>1, <1>2 DEF Grown

\* A TxAck that reports no counts, or those vin has.
LEMMA WriteTxAckKeepsGrown ==
  ASSUME Grown, NEW k, NEW ack, WriteTxAck(k, ack), url_data' = url_data,
         ack.kind = "meta" => ack.inputs_cnt = Len(url_data.vin)
  PROVE  Grown'
<1>1. UNCHANGED prev_tx
  BY DEF WriteTxAck
<1>2. CASE UNCHANGED acks
  BY <1>1, <1>2, GrownStays
<1>3. CASE acks' = acks \union {<<Top.msg, ack>>}
  <2>1. CASE AskedPastEnd
    BY <1>1, <1>3, <2>1, AskedStays DEF Grown
  <2>2. CASE Len(url_data.vin) = Len(prev_tx.vin)
    <3>1. ASSUME NEW p \in acks' \ acks PROVE Counted(p)'
      <4>1. p[2] = ack
        BY <1>3, <3>1
      <4> QED
        BY <1>1, <2>2, <4>1 DEF Counted
    <3> QED
      BY <1>1, <1>3, <3>1, GrownStays
  <2> QED
    BY <2>1, <2>2 DEF Grown
<1> QED
  BY <1>2, <1>3 DEF WriteTxAck

LEMMA GrownInit == Init => Grown
BY DEF Init, Grown

LEMMA GrownStep ==
  TypeOK /\ StackInv /\ Drift /\ Grown /\ [Next]_vars => Grown'
<1> SUFFICES ASSUME TypeOK, StackInv, Drift, Grown, [Next]_vars PROVE Grown'
  OBVIOUS
<1>1. ASSUME UNCHANGED <<url_data, prev_tx, acks>> PROVE Grown'
  BY <1>1, GrownStays
<1>2. CASE JsonInitFails \/ SendCommand \/ RequestDataThrows \/ WriteSigntxInit
             \/ Exchange \/ CommunicationThrows \/ ParseReturns
  BY <1>1, <1>2 DEF JsonInitFails, SendCommand, RequestDataThrows, WriteSigntxInit,
                    Exchange, CommunicationThrows, ParseReturns, historyVars
<1>3. CASE RequestData
  <2>1. acks' = {} /\ url_data' = prev_tx'
    BY <1>3 DEF RequestData, Drift, StartInv
  <2> QED
    BY <2>1 DEF Grown
<1>4. CASE WriteTxInputs
  <2> DEFINE ack == PrevInputAck(url_data', Top.msg.index)
  <2>1. /\ Calls(1) /\ Top.msg.tx_hash /\ WriteTxAck(1, ack)
        /\ url_data' = TouchInput(url_data, Top.msg.index)
    BY <1>4 DEF WriteTxInputs
  <2>2. url_data' = url_data
    BY <2>1, TouchInRange
  <2>3. ack.kind = "prev_input"
    BY DEF PrevInputAck
  <2> HIDE DEF ack
  <2> QED
    BY <2>1, <2>2, <2>3, WriteTxAckKeepsGrown
<1>5. CASE WriteTxinitInputs
  <2> DEFINE ack == InitInputAck(url_data', Top.msg.index)
  <2>1. /\ Calls(1) /\ ~Top.msg.tx_hash /\ WriteTxAck(1, ack)
        /\ url_data' = TouchInput(url_data, Top.msg.index)
    BY <1>5 DEF WriteTxinitInputs
  <2>2. ack.kind = "init_input"
    BY DEF InitInputAck
  <2> HIDE DEF ack
  <2>3. UNCHANGED <<config_data, prev_tx>> /\ acks' = acks \union {<<Top.msg, ack>>}
    BY <2>1, <2>2 DEF WriteTxAck, Encodable
  <2>4. /\ Len(url_data'.vin) # Len(url_data.vin) => Top.msg.index >= Len(prev_tx.vin)
        /\ url_data'.vout = url_data.vout
    BY <2>1, <2>3, TouchNewInput DEF Drift, DataInv
  <2>5. CASE Len(url_data'.vin) # Len(url_data.vin)
    <3>1. <<Top.msg, ack>> \in acks' /\ Top.msg.index >= Len(prev_tx.vin)
      BY <2>3, <2>4, <2>5
    <3>2. AskedPastEnd'
      BY <2>2, <2>3, <3>1 DEF AskedPastEnd
    <3> QED
      BY <3>2 DEF Grown
  <2>6. CASE Len(url_data'.vin) = Len(url_data.vin)
    <3>1. CASE AskedPastEnd
      BY <2>3, <3>1, AskedStays DEF Grown
    <3>2. CASE Len(url_data.vin) = Len(prev_tx.vin) /\ \A p \in acks : Counted(p)
      <4>1. ASSUME NEW p \in acks' PROVE Counted(p)'
        <5>1. CASE p \in acks
          BY <2>3, <3>2, <5>1 DEF Counted
        <5>2. CASE p = <<Top.msg, ack>>
          BY <2>2, <5>2 DEF Counted
        <5> QED BY <2>3, <5>1, <5>2
      <4> QED
        BY <2>3, <2>6, <3>2, <4>1 DEF Grown
    <3> QED
      BY <3>1, <3>2 DEF Grown
  <2> QED
    BY <2>5, <2>6
<1>6. CASE WriteTxOutputs
  <2> DEFINE ack == OutputAck(total_amount, config_data, Top.msg.index)
  <2>1. url_data' = url_data
    BY <1>6 DEF WriteTxOutputs
  <2>2. CASE WriteTxAck(2, ack)
    <3>1. ack.kind = "output"
      BY DEF OutputAck
    <3> HIDE DEF ack
    <3> QED
      BY <2>1, <2>2, <3>1, WriteTxAckKeepsGrown
  <2>3. CASE UNCHANGED historyVars
    BY <1>1, <2>1, <2>3 DEF historyVars
  <2> QED
    BY <1>6, <2>2, <2>3 DEF WriteTxOutputs, historyVars
<1>7. CASE WriteTxbinOutputs
  <2> DEFINE ack == BinOutputAck(url_data', Top.msg.index)
  <2>1. /\ Calls(2) /\ Top.msg.tx_hash /\ WriteTxAck(2, ack)
        /\ url_data' = TouchOutput(url_data, Top.msg.index)
    BY <1>7 DEF WriteTxbinOutputs
  <2>2. url_data' = url_data
    BY <2>1, TouchInRange
  <2>3. ack.kind = "bin_output"
    BY DEF BinOutputAck
  <2> HIDE DEF ack
  <2> QED
    BY <2>1, <2>2, <2>3, WriteTxAckKeepsGrown
<1>8. CASE WriteTxMeta
  <2> DEFINE ack == MetaAck(url_data)
  <2>1. WriteTxAck(3, ack) /\ url_data' = url_data
    BY <1>8 DEF WriteTxMeta
  <2>2. ack.inputs_cnt = Len(url_data.vin)
    BY DEF MetaAck
  <2> HIDE DEF ack
  <2> QED
    BY <2>1, <2>2, WriteTxAckKeepsGrown
<1>9. CASE WriteButtonAck \/ WritePinAck
  BY <1>1, <1>9 DEF WriteButtonAck, WritePinAck, historyVars
<1>10. CASE UNCHANGED vars
  BY <1>1, <1>10 DEF vars, hostVars, historyVars
<1>11. CASE Finished
  BY <1>10, <1>11 DEF Finished
<1> QED
  BY <1>2, <1>3, <1>4, <1>5, <1>6, <1>7, <1>8, <1>9, <1>10, <1>11
     DEF Next, Command, Communicate, ParseReadMessage
-----------------------------------------------------------------------------
(* The theorems about the dialogue *)

IInv == TypeOK /\ StackInv /\ Drift /\ Told /\ Grown

LEMMA Inductive == Spec => []IInv
<1>1. Init => IInv
  BY TypeInit, StackInit, DriftInit, ToldInit, GrownInit DEF IInv
<1>2. IInv /\ [Next]_vars => IInv'
  BY TypeStep, StackStep, DriftStep, ToldStep, GrownStep DEF IInv
<1> QED
  BY <1>1, <1>2, PTL DEF Spec

\* The wallet asks for every input and output several times and always hears the
\* same, for every order and every downloaded transaction, whatever url_data has
\* grown to and total_amount was set to in between; but for the number of inputs,
\* once it has asked for one past the end (parse_read_message, write_tx*).
THEOREM SameRequestSameAnswer == Spec => []AnswersStable
<1>1. IInv => AnswersStable
  <2> SUFFICES ASSUME IInv, NEW p \in acks, NEW q \in acks, p[1] = q[1], p[2] # q[2]
               PROVE  /\ p[2].kind = "meta" /\ q[2].kind = "meta"
                      /\ p[2].outputs_cnt = q[2].outputs_cnt
                      /\ AskedPastEnd
    BY DEF AnswersStable
  <2>1. GoodAck(p[1], p[2], total_amount) /\ GoodAck(p[1], q[2], total_amount)
    BY DEF IInv, Told, AcksInv
  <2>2. Canonical(p[1]).kind = "meta"
    BY <2>1 DEF GoodAck
  <2>3. /\ p[2] = [kind |-> "meta", inputs_cnt |-> p[2].inputs_cnt,
                   outputs_cnt |-> Len(prev_tx.vout)]
        /\ q[2] = [kind |-> "meta", inputs_cnt |-> q[2].inputs_cnt,
                   outputs_cnt |-> Len(prev_tx.vout)]
    BY <2>1, <2>2 DEF GoodAck
  <2>4. /\ p[2].kind = "meta" /\ q[2].kind = "meta"
        /\ p[2].outputs_cnt = q[2].outputs_cnt
    BY <2>3
  <2>5. p[2].inputs_cnt # q[2].inputs_cnt
    BY <2>3
  <2>6. ~(Counted(p) /\ Counted(q))
    BY <2>4, <2>5 DEF Counted
  <2> QED
    BY <2>4, <2>6 DEF IInv, Grown
<1> QED
  BY <1>1, Inductive, PTL

\* What the wallet hears of the previous transaction is what the explorer
\* returned, an error page included, and null for an input that is not there, also
\* after vin has grown (write_tx_inputs, write_txinit_inputs, write_txbin_outputs,
\* write_tx_meta).
THEOREM FaithfulToPrevTx == Spec => []PrevTxFaithful
<1>1. IInv => PrevTxFaithful
  <2> SUFFICES ASSUME IInv, NEW p \in acks
               PROVE  /\ p[2].kind = "prev_input" => p[2].input = Downloaded(p[1].index)
                      /\ p[2].kind = "init_input" =>
                           p[2].prev_index = Downloaded(p[1].index).n
                      /\ p[2].kind = "bin_output" =>
                           LET out == prev_tx.vout[p[1].index + 1]
                           IN  /\ p[1].index < Len(prev_tx.vout)
                               /\ p[2].script = out.present
                               /\ p[2].amount \in {out.value - 1, out.value}
                      /\ p[2].kind = "meta" => p[2] = MetaAck(prev_tx) \/ AskedPastEnd
    BY DEF PrevTxFaithful
  <2> DEFINE m == p[1]
             ack == p[2]
             i == m.index
             out == prev_tx.vout[i + 1]
  <2>1. m \in DeviceMessages /\ i \in Nat
    BY DEF IInv, TypeOK, DeviceMessages
  <2>2. GoodAck(m, ack, total_amount)
    BY DEF IInv, Told, AcksInv
  <2>3. /\ Encodable(ack)
        /\ ack.kind = "bin_output" => i < Len(prev_tx.vout)
    BY <2>2 DEF GoodAck
  <2>4. CASE Canonical(m).kind = "meta"
    <3>1. ack = [kind |-> "meta", inputs_cnt |-> ack.inputs_cnt,
                 outputs_cnt |-> Len(prev_tx.vout)]
      BY <2>2, <2>4 DEF GoodAck
    <3>2. ack.kind = "meta"
      BY <3>1
    <3>3. Counted(p) => ack = MetaAck(prev_tx)
      BY <3>1, <3>2 DEF Counted, MetaAck
    <3>4. ack = MetaAck(prev_tx) \/ AskedPastEnd
      BY <3>3 DEF IInv, Grown
    <3> QED
      BY <3>2, <3>4
  <2>5. CASE Canonical(m).kind # "meta"
    <3>1. ack = Canonical(m)
      BY <2>2, <2>5 DEF GoodAck
    <3>2. \/ ack = [kind |-> "prev_input", input |-> Downloaded(i)]
          \/ ack = [kind |-> "init_input", prev_index |-> Downloaded(i).n]
          \/ ack = BinOutputAck(prev_tx, i)
          \/ \E total : ack = OutputAck(total, config_data, i)
      BY <2>5, <3>1 DEF Canonical, MetaAck
    <3>3. CASE ack = [kind |-> "prev_input", input |-> Downloaded(i)]
      BY <3>3
    <3>4. CASE ack = [kind |-> "init_input", prev_index |-> Downloaded(i).n]
      BY <3>4
    <3>5. CASE ack = BinOutputAck(prev_tx, i)
      <4>1. /\ ack.kind = "bin_output" /\ ack.script = out.present
            /\ ack.amount = ToSatoshis(out)
        BY <3>5 DEF BinOutputAck
      <4>2. out \in Outputs
        BY <2>1, <2>3, <4>1 DEF IInv, TypeOK, Transactions
      <4>3. ToSatoshis(out) >= 0
        BY <2>3, <4>1 DEF Encodable
      <4> QED
        BY <2>3, <4>1, <4>2, <4>3, SatoshiFacts
    <3>6. CASE \E total : ack = OutputAck(total, config_data, i)
      BY <3>6 DEF OutputAck
    <3> QED
      BY <3>2, <3>3, <3>4, <3>5, <3>6
  <2> QED
    BY <2>4, <2>5
<1> QED
  BY <1>1, Inductive, PTL

\* For any order, also one that names inputs the transaction does not have,
\* the counts the wallet hears are bounded (write_tx_meta).
THEOREM CountsBounded == Spec => []MetaCountBound
<1>1. IInv => MetaCountBound
  BY DEF IInv, Told, AcksInv, GoodAck, MetaCountBound
<1> QED
  BY <1>1, Inductive, PTL

\* Payment, fee and change add up to the total, and no change is ever
\* computed from a total that was not set (write_tx_outputs,
\* write_txbin_outputs).
THEOREM ChangeAddsUp == Spec => []ChangeExact
<1>1. IInv => ChangeExact
  <2> SUFFICES ASSUME IInv, config_data.amount + Fee <= IntMax + 1,
                      NEW p \in acks, p[2].kind = "output", ~p[2].payee
               PROVE  /\ p[2].amount + config_data.amount + Fee = TotalAmount
                      /\ \E q \in acks : q[2].kind = "bin_output"
    BY DEF ChangeExact
  <2>1. p[2].amount + config_data.amount + Fee = TotalAmount
    BY DEF IInv, Told, AcksInv, GoodAck
  <2> QED
    BY <2>1 DEF IInv, Told, TotalInv, ChangeAcks, BinAnswered
<1> QED
  BY <1>1, Inductive, PTL
-----------------------------------------------------------------------------
(* How a dialogue can end *)

\* A message some test knows, or after which the wallet expects nothing, or
\* the one message the tool has no answer to.
Handled(m) ==
  (\E k \in 1 .. 5 : Hits(m, k)) \/ IsLast(m) \/ m.type = "PassphraseRequest"

EndInv ==
  /\ pc = "signtx_init" => cmd = "sign_tx"
  /\ cmd \notin ParsingCommands =>
       /\ pc # "parse"
       /\ pc = "exchange" => wire_in = FirstMessage(cmd)
  /\ pc = "parse" => Handled(device.last)
  /\ NobodyLeftWaiting

\* Every message the wallet may send is one of those; a wallet that tests its
\* screen or lists its features sends nothing but a final message.
LEMMA WalletMessages ==
  ASSUME NEW order \in SigningOrders, NEW told \in [inputs : Nat, outputs : Nat],
         NEW work, NEW r \in DeviceMay(work, order, told)
  PROVE  /\ Handled(r)
         /\ work \in {"TestScreen", "Initialize"} => IsLast(r)
<1>1. ASSUME NEW t \in Terminal \union {"ButtonRequest", "PinMatrixRequest", "PassphraseRequest"},
             r = Message(t)
      PROVE  Handled(r) /\ r.type = t
  BY <1>1, TestFacts DEF Message, Handled, IsLast
<1>2. ASSUME r \in TxRequests(order, told) PROVE Handled(r)
  <2>1. /\ r.type = "TxRequest"
        /\ r.request_type \in {"TXINPUT", "TXOUTPUT", "TXMETA", "TXFINISHED"}
    BY <1>2 DEF TxRequests, TxRequest
  <2> QED
    BY <2>1, TestFacts DEF Handled, IsLast
<1>3. CASE work = "SignTx"
  BY <1>1, <1>2, <1>3 DEF DeviceMay, Terminal
<1>4. CASE work = "ApplySettings"
  BY <1>1, <1>4 DEF DeviceMay, Terminal
<1>5. CASE work = "GetAddress"
  BY <1>1, <1>5 DEF DeviceMay, Terminal
<1>6. CASE work = "TestScreen"
  BY <1>1, <1>6 DEF DeviceMay, Terminal, IsLast
<1>7. CASE work \notin {"SignTx", "ApplySettings", "GetAddress", "TestScreen"}
  BY <1>1, <1>7 DEF DeviceMay, Terminal, IsLast
<1> QED
  BY <1>3, <1>4, <1>5, <1>6, <1>7

LEMMA EndStep == TypeOK /\ TypeOK' /\ StackInv /\ EndInv /\ [Next]_vars => EndInv'
<1> SUFFICES ASSUME TypeOK, TypeOK', StackInv, EndInv, [Next]_vars PROVE EndInv'
  OBVIOUS
<1>1. ASSUME pc' = "exchange", cmd \in ParsingCommands, UNCHANGED cmd PROVE EndInv'
  BY <1>1 DEF EndInv, NobodyLeftWaiting
<1>2. ASSUME pc' \in {"failed", "aborted"} PROVE EndInv'
  BY <1>2 DEF EndInv, NobodyLeftWaiting
<1>3. CASE JsonInitFails \/ RequestDataThrows \/ CommunicationThrows
  BY <1>2, <1>3 DEF JsonInitFails, RequestDataThrows, CommunicationThrows, Throw
<1>4. CASE SendCommand
  BY <1>4 DEF SendCommand, EndInv, NobodyLeftWaiting
<1>5. CASE RequestData \/ WriteSigntxInit
  BY <1>1, <1>5 DEF RequestData, WriteSigntxInit, EndInv, NobodyLeftWaiting, ParsingCommands
<1>6. CASE Exchange
  <2> DEFINE told == ToldAfter(wire_in)
             work == WorkAfter(wire_in)
  <2>1. PICK r \in DeviceMay(work, config_data, told) :
          /\ device'.last = r
          /\ cmd \in ParsingCommands => pc' = "parse"
          /\ cmd \notin ParsingCommands => pc' = "done"
    <3>1. PICK r \in DeviceMay(work, config_data, told) :
            /\ device' = [work     |-> IF IsLast(r) THEN "none" ELSE work,
                          last     |-> r,
                          messages |-> device.messages + 1,
                          told     |-> told]
            /\ IF cmd \in ParsingCommands
                 THEN pc' = "parse" /\ stack' = Append(stack, Frame(r))
                 ELSE pc' = "done" /\ UNCHANGED stack
      BY <1>6, Zenon DEF Exchange
    <3>2. device'.last = r
      BY <3>1
    <3> QED BY <3>1, <3>2, Zenon
  <2>2. config_data \in SigningOrders /\ told \in [inputs : Nat, outputs : Nat]
    <3>1. /\ device.told \in [inputs : Nat, outputs : Nat]
          /\ url_data.vin \in Seq(Inputs) /\ url_data.vout \in Seq(Outputs)
          /\ config_data \in SigningOrders
      BY ConstantTypes DEF TypeOK, Transactions
    <3>2. Len(url_data.vin) \in Nat /\ Len(url_data.vout) \in Nat
      BY <3>1, LenProperties
    <3> QED BY <3>1, <3>2 DEF ToldAfter
  <2>3. /\ Handled(r)
        /\ work \in {"TestScreen", "Initialize"} => IsLast(r)
    BY <2>1, <2>2, WalletMessages
  <2>4. CASE cmd \in ParsingCommands
    BY <1>6, <2>1, <2>3, <2>4 DEF Exchange, EndInv, NobodyLeftWaiting
  <2>5. CASE cmd \notin ParsingCommands
    <3>1. cmd \in {"test_screen", "get_features"}
      BY <2>5 DEF TypeOK, Commands, ParsingCommands
    <3>2. wire_in \in {"TestScreen", "Initialize"}
      BY <1>6, <2>5, <3>1 DEF Exchange, EndInv, FirstMessage
    <3>3. work = wire_in
      BY <3>2 DEF WorkAfter
    <3> HIDE DEF work
    <3> QED
      BY <1>6, <2>1, <2>3, <2>5, <3>2, <3>3 DEF Exchange, EndInv, NobodyLeftWaiting
  <2> QED
    BY <2>4, <2>5
<1>7. CASE ParseReturns
  <2>1. /\ pc = "parse" /\ cmd \in ParsingCommands
        /\ UNCHANGED <<cmd, device>>
    BY <1>7 DEF ParseReturns, EndInv
  <2>2. pc' = "parse" => Handled(device.last)'
    BY <2>1 DEF EndInv, Handled, IsLast
  <2>3. pc' = "done" => NobodyLeftWaiting'
    <3>1. Resolved(Top) /\ stack \in Seq(Frames) /\ stack # <<>>
      BY <1>7 DEF ParseReturns, Resolved, TypeOK
    <3>2. device.last \in DeviceMessages
      BY DEF TypeOK
    <3>3. \A k \in 1 .. 5 : ~Hits(device.last, k)
      BY <2>1, <3>1, <3>2, ResolvedAtOnce DEF StackInv, Top
    <3> QED
      BY <2>1, <3>3 DEF EndInv, Handled, NobodyLeftWaiting, IsLast
  <2>4. pc' \in {"parse", "done"}
    BY <1>7 DEF ParseReturns
  <2> QED
    BY <2>1, <2>2, <2>3, <2>4 DEF EndInv, NobodyLeftWaiting
<1>8. CASE WriteTxInputs \/ WriteTxinitInputs \/ WriteTxOutputs \/ WriteTxbinOutputs
             \/ WriteTxMeta \/ WriteButtonAck \/ WritePinAck
  <2>1. pc = "parse" /\ cmd \in ParsingCommands
    BY <1>8 DEF WriteTxInputs, WriteTxinitInputs, WriteTxOutputs, WriteTxbinOutputs,
                WriteTxMeta, WriteButtonAck, WritePinAck, Calls, EndInv
  <2>2. UNCHANGED cmd /\ pc' \in {"exchange", "failed"}
    BY <1>8 DEF WriteTxInputs, WriteTxinitInputs, WriteTxOutputs, WriteTxbinOutputs,
                WriteTxMeta, WriteButtonAck, WritePinAck, WriteTxAck, WriteMessage, Throw
  <2> QED
    BY <1>1, <1>2, <2>1, <2>2
<1>9. CASE UNCHANGED vars
  BY <1>9 DEF vars, hostVars, EndInv, NobodyLeftWaiting, Handled, IsLast
<1>10. CASE Finished
  BY <1>9, <1>10 DEF Finished
<1> QED
  BY <1>3, <1>4, <1>5, <1>6, <1>7, <1>8, <1>9, <1>10
     DEF Next, Command, Communicate, ParseReadMessage

\* A dialogue that ends without an error ends because the wallet has ended
\* it, or because it asks for a passphrase (parse_read_message and every
\* command of device_command).
THEOREM WalletIsAnswered == Spec => []NobodyLeftWaiting
<1>1. Init => EndInv
  BY DEF Init, EndInv, NobodyLeftWaiting
<1>2. EndInv => NobodyLeftWaiting
  BY DEF EndInv
<1> QED
  BY <1>1, <1>2, EndStep, StackCorrect, PTL DEF Spec
=============================================================================
