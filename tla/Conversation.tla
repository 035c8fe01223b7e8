---------------------------- MODULE Conversation ----------------------------
(***************************************************************************)
(* One run of the command line tool: a command of device_command           *)
(* (command.hpp) and the dialogue with the wallet it starts (common_msg.   *)
(* hpp).  Every message the wallet sends is parsed by parse_read_message,  *)
(* which sends the answer and RECURSES on the wallet's next message from   *)
(* inside the write_* function: the C++ call stack grows by one frame per  *)
(* message, and when the dialogue ends every frame resumes and goes on     *)
(* with the tests that follow the one that matched.                        *)
(*                                                                         *)
(* message_communication (one message out, one message in) is the single   *)
(* action Exchange or CommunicationThrows here.  The wallet is external:   *)
(* DeviceMay is what messages.proto says it may send next, with indexes    *)
(* below the counts the host itself reported.                              *)
(***************************************************************************)
EXTENDS TxData, FiniteSets

CONSTANTS
  Orders,       (* The signing orders a signtx.json may hold.              *)
  PrevTxs,      (* The transactions the block explorer may return.         *)
  MaxMessages   (* Bound: messages the wallet sends in one run.            *)

ASSUME ConversationAssumption ==
  /\ Orders \subseteq SigningOrders
  /\ PrevTxs \subseteq Transactions
  /\ MaxMessages \in Nat

VARIABLES
  pc,           (* Where the command is.                                   *)
  cmd,          (* The device_command method that runs.                    *)
  json_msg,     (* The order read by json_init.                            *)
  config_data,  (* Global: the order while signing.                        *)
  url_data,     (* Global: the downloaded transaction, as indexed so far.  *)
  total_amount, (* Global.                                                 *)
  wire_in,      (* The message being exchanged.                            *)
  stack,        (* Frames of parse_read_message, innermost last.           *)
  device,       (* The wallet: workflow, last message, counts it was told. *)
  prev_tx,      (* History: the transaction as the explorer returned it.   *)
  acks          (* History: <<request, TxAck>> pairs sent in this run.     *)

hostVars == <<pc, cmd, json_msg, config_data, url_data, total_amount, wire_in, stack>>
historyVars == <<prev_tx, acks>>
vars == <<hostVars, device, historyVars>>

-----------------------------------------------------------------------------
(* Messages *)

\* The message of the sample JSON file each command is used with.
FirstMessage(c) ==
  CASE c = "test_screen"  -> "TestScreen"
    [] c = "get_features" -> "Initialize"
    [] c = "set_label"    -> "ApplySettings"
    [] c = "get_address"  -> "GetAddress"
    [] c = "sign_tx"      -> "SignTx"

Commands == {"test_screen", "get_features", "set_label", "get_address", "sign_tx"}
FirstMessages == {FirstMessage(c) : c \in Commands}

\* Commands whose answer goes to parse_read_message.
ParsingCommands == {"set_label", "get_address", "sign_tx"}

Terminal == {"Success", "Failure", "Address", "Features"}

\* Messages from the wallet.
Message(type) ==
  [type |-> type, request_type |-> "none", index |-> 0, tx_hash |-> FALSE]
TxRequest(request, i, hash) ==
  [type |-> "TxRequest", request_type |-> request, index |-> i, tx_hash |-> hash]

RequestTypes == {"none", "TXINPUT", "TXOUTPUT", "TXMETA", "TXFINISHED"}
DeviceMessages ==
  [type : Terminal \union {"none", "TxRequest", "ButtonRequest",
                           "PinMatrixRequest", "PassphraseRequest"},
   request_type : RequestTypes, index : Nat, tx_hash : BOOLEAN]

NoMessage == Message("none")

IsLast(m) == m.type \in Terminal \/ m.request_type = "TXFINISHED"

\* What the wallet may ask for while it signs: the inputs and outputs of the
\* new transaction, and of the previous one once it knows how many there are.
TxRequests(order, told) ==
  {TxRequest("TXINPUT", i, FALSE)  : i \in 0 .. order.inputs_count - 1}
    \union {TxRequest("TXOUTPUT", i, FALSE) : i \in 0 .. order.outputs_count - 1}
    \union {TxRequest("TXINPUT", i, TRUE)   : i \in 0 .. told.inputs - 1}
    \union {TxRequest("TXOUTPUT", i, TRUE)  : i \in 0 .. told.outputs - 1}
    \union {TxRequest("TXMETA", 0, TRUE), TxRequest("TXFINISHED", 0, FALSE)}

DeviceMay(work, order, told) ==
  CASE work = "SignTx" ->
         TxRequests(order, told) \union
         {Message(t) : t \in {"PassphraseRequest", "PinMatrixRequest",
                              "ButtonRequest", "Failure"}}
    [] work = "ApplySettings" ->
         {Message(t) : t \in {"Success", "Failure", "ButtonRequest", "PinMatrixRequest"}}
    [] work = "GetAddress" ->
         {Message(t) : t \in {"PassphraseRequest", "ButtonRequest", "Address", "Failure"}}
    [] work = "TestScreen" -> {Message(t) : t \in {"Success", "Failure"}}
    [] OTHER               -> {Message("Features")}

-----------------------------------------------------------------------------
(* parse_read_message: its tests, in the order the code makes them *)

Tests == <<"TXINPUT", "TXOUTPUT", "TXMETA", "ButtonRequest", "PinMatrixRequest">>

\* Mutant: the test for ButtonRequest is nested in the one for TxRequest.
HitsNested(m, k) ==
  IF k <= 4
    THEN m.type = "TxRequest" /\ m.request_type = Tests[k]
    ELSE m.type = Tests[k]

Hits(m, k) ==
  IF k <= 3
    THEN m.type = "TxRequest" /\ m.request_type = Tests[k]
    ELSE m.type = Tests[k]

\* A frame: the message it parses and the next test it makes.
Frames == [msg : DeviceMessages, at : 1 .. 6]
Frame(m) == [msg |-> m, at |-> 1]

Top == stack[Len(stack)]

\* The frame's next test that succeeds is test k.
NextHit(frame, k) ==
  /\ k \in frame.at .. 5
  /\ Hits(frame.msg, k)
  /\ \A j \in frame.at .. k - 1 : ~Hits(frame.msg, j)

\* The top frame stands at the call its test k guards.
Calls(k) == pc = "parse" /\ NextHit(Top, k)

\* The frames once the innermost one stands after test k.
Advance(s, k) == [s EXCEPT ![Len(s)].at = k + 1]

\* Mutant: the tests loop until none succeeds, on the message of the frame.
WriteMessageLoops(k, m) ==
  /\ pc' = "exchange"
  /\ wire_in' = m
  /\ UNCHANGED stack

\* The write_* function sends m from inside the top frame, at test k.
WriteMessage(k, m) ==
  /\ pc' = "exchange"
  /\ wire_in' = m
  /\ stack' = Advance(stack, k)

\* An exception: every frame unwinds into the catch of device_command.
Throw ==
  /\ pc' = "failed"
  /\ stack' = <<>>
  /\ UNCHANGED wire_in

\* The write_tx* function sends a TxAck, unless the codec rejects it.
WriteTxAck(k, ack) ==
  /\ IF Encodable(ack)
       THEN /\ WriteMessage(k, "TxAck")
            /\ acks' = acks \union {<<Top.msg, ack>>}
       ELSE /\ Throw
            /\ UNCHANGED acks
  /\ UNCHANGED <<cmd, json_msg, config_data, prev_tx, device>>

-----------------------------------------------------------------------------
(* The command *)

Init ==
  /\ pc = "start"
  /\ cmd \in Commands
  /\ json_msg \in IF cmd = "sign_tx" THEN Orders ELSE {NoOrder}
  /\ config_data = NoOrder
  /\ url_data = NoTransaction
  /\ total_amount = 0
  /\ wire_in = "none"
  /\ stack = <<>>
  /\ device = [work |-> "none", last |-> NoMessage, messages |-> 0,
               told |-> [inputs |-> 0, outputs |-> 0]]
  /\ prev_tx = NoTransaction
  /\ acks = {}

\* json_init: a missing file trips the assert, a malformed one throws.
JsonInitFails ==
  /\ pc = "start"
  /\ \E outcome \in {"aborted", "failed"} : pc' = outcome
  /\ UNCHANGED <<cmd, json_msg, config_data, url_data, total_amount, wire_in,
                 stack, device, historyVars>>

\* test_screen, get_features, set_label, get_address: send json_msg[cmd].
SendCommand ==
  /\ pc = "start"
  /\ cmd # "sign_tx"
  /\ pc' = "exchange"
  /\ wire_in' = FirstMessage(cmd)
  /\ UNCHANGED <<cmd, json_msg, config_data, url_data, total_amount, stack,
                 device, historyVars>>

\* sign_tx: http_client_request_data downloads and parses the transaction.
RequestData ==
  /\ pc = "start"
  /\ cmd = "sign_tx"
  /\ \E tx \in PrevTxs : url_data' = tx /\ prev_tx' = tx
  /\ pc' = "signtx_init"
  /\ UNCHANGED <<cmd, json_msg, config_data, total_amount, wire_in, stack,
                 device, acks>>

RequestDataThrows ==
  /\ pc = "start"
  /\ cmd = "sign_tx"
  /\ Throw
  /\ UNCHANGED <<cmd, json_msg, config_data, url_data, total_amount, device,
                 historyVars>>

WriteSigntxInit ==
  /\ pc = "signtx_init"
  /\ config_data' = json_msg
  /\ pc' = "exchange"
  /\ wire_in' = FirstMessage("sign_tx")
  /\ UNCHANGED <<cmd, json_msg, url_data, total_amount, stack, device, historyVars>>

-----------------------------------------------------------------------------
(* message_communication *)

\* The workflow the wallet is in once it has received m, and the counts of
\* the previous transaction it then knows (from the TxAck it asked for).
WorkAfter(m) == IF m \in {"TxAck", "ButtonAck", "PinMatrixAck"} THEN device.work ELSE m

ToldAfter(m) ==
  IF m = "TxAck" /\ device.last.request_type = "TXMETA"
    THEN [inputs |-> Len(url_data.vin), outputs |-> Len(url_data.vout)]
    ELSE device.told

\* The function that exchanges the message prints the answer: get_features, and
\* the write_* functions at tests 1 to 3 but write_txinit_inputs.
PrintsAnswer ==
  IF stack = <<>>
    THEN cmd = "get_features"
    ELSE LET k == Top.at - 1 IN k \in 1 .. 3 /\ (k = 1 => Top.msg.tx_hash)

\* The wallet takes wire_in and answers r; the command ends, or passes r to a
\* new frame of parse_read_message.
Exchange ==
  /\ pc = "exchange"
  /\ device.messages < MaxMessages
  /\ \E r \in DeviceMay(WorkAfter(wire_in), config_data, ToldAfter(wire_in)) :
       /\ device' = [work     |-> IF IsLast(r) THEN "none" ELSE WorkAfter(wire_in),
                     last     |-> r,
                     messages |-> device.messages + 1,
                     told     |-> ToldAfter(wire_in)]
       /\ IF cmd \in ParsingCommands
            THEN pc' = "parse" /\ stack' = Append(stack, Frame(r))
            ELSE pc' = "done" /\ UNCHANGED stack
  /\ UNCHANGED <<cmd, json_msg, config_data, url_data, total_amount, wire_in,
                 historyVars>>

\* No device, a rejected JSON message, a failed open, write or read, an
\* unknown wire id: message_communication throws.
CommunicationThrows ==
  /\ pc = "exchange"
  /\ Throw
  /\ UNCHANGED <<cmd, json_msg, config_data, url_data, total_amount, device,
                 historyVars>>

-----------------------------------------------------------------------------
(* parse_read_message and the write_* functions it calls *)

WriteTxInputs ==
  /\ Calls(1)
  /\ Top.msg.tx_hash
  /\ url_data' = TouchInput(url_data, Top.msg.index)
  /\ WriteTxAck(1, PrevInputAck(url_data', Top.msg.index))
  /\ UNCHANGED total_amount

WriteTxinitInputs ==
  /\ Calls(1)
  /\ ~Top.msg.tx_hash
  /\ url_data' = TouchInput(url_data, Top.msg.index)
  /\ WriteTxAck(1, InitInputAck(url_data', Top.msg.index))
  /\ UNCHANGED total_amount

WriteTxOutputs ==
  /\ Calls(2)
  /\ ~Top.msg.tx_hash
  /\ IF ChangeIsComputable(config_data, Top.msg.index)
       THEN WriteTxAck(2, OutputAck(total_amount, config_data, Top.msg.index))
       ELSE Throw /\ UNCHANGED <<cmd, json_msg, config_data, device, historyVars>>
  /\ UNCHANGED <<url_data, total_amount>>

\* Mutant: total_amount sums what is asked for, asked for twice or not.
WriteTxbinOutputsSums ==
  /\ Calls(2)
  /\ Top.msg.tx_hash
  /\ url_data' = TouchOutput(url_data, Top.msg.index)
  /\ total_amount' = total_amount + TotalAmount
  /\ WriteTxAck(2, BinOutputAck(url_data', Top.msg.index))

WriteTxbinOutputs ==
  /\ Calls(2)
  /\ Top.msg.tx_hash
  /\ url_data' = TouchOutput(url_data, Top.msg.index)
  /\ total_amount' = TotalAmount
  /\ WriteTxAck(2, BinOutputAck(url_data', Top.msg.index))

WriteTxMeta ==
  /\ Calls(3)
  /\ WriteTxAck(3, MetaAck(url_data))
  /\ UNCHANGED <<url_data, total_amount>>

WriteButtonAck ==
  /\ Calls(4)
  /\ WriteMessage(4, "ButtonAck")
  /\ UNCHANGED <<cmd, json_msg, config_data, url_data, total_amount, device,
                 historyVars>>

\* The user types the PIN (end of input counts as an empty one).
WritePinAck ==
  /\ Calls(5)
  /\ WriteMessage(5, "PinMatrixAck")
  /\ UNCHANGED <<cmd, json_msg, config_data, url_data, total_amount, device,
                 historyVars>>

\* No test of the top frame succeeds any more: it returns to its caller.
ParseReturns ==
  /\ pc = "parse"
  /\ \A k \in 1 .. 5 : ~NextHit(Top, k)
  /\ stack' = SubSeq(stack, 1, Len(stack) - 1)
  /\ pc' = IF Len(stack) = 1 THEN "done" ELSE "parse"
  /\ UNCHANGED <<cmd, json_msg, config_data, url_data, total_amount, wire_in,
                 device, historyVars>>

-----------------------------------------------------------------------------
Final == {"done", "failed", "aborted"}

\* main returns; nothing survives the process.
Finished == pc \in Final /\ UNCHANGED vars

Command == JsonInitFails \/ SendCommand \/ RequestData \/ RequestDataThrows
             \/ WriteSigntxInit

ParseReadMessage ==
  \/ WriteTxInputs \/ WriteTxinitInputs \/ WriteTxOutputs \/ WriteTxbinOutputs
  \/ WriteTxMeta \/ WriteButtonAck \/ WritePinAck \/ ParseReturns

Communicate == Exchange \/ CommunicationThrows

Next == Command \/ Communicate \/ ParseReadMessage \/ Finished

Spec == Init /\ [][Next]_vars

\* Only the command's own steps are fair: the wallet, the transport and the
\* user at the PIN prompt owe it nothing.
FairSpec == Spec /\ WF_vars(ParseReturns)

-----------------------------------------------------------------------------
(* Properties *)

\* Type invariant.
TypeOK ==
  /\ pc \in Final \union {"start", "signtx_init", "exchange", "parse"}
  /\ cmd \in Commands
  /\ json_msg \in SigningOrders
  /\ config_data \in {NoOrder, json_msg}
  /\ url_data \in Transactions
  /\ total_amount \in {0, TotalAmount}
  /\ wire_in \in {"none", "TxAck", "ButtonAck", "PinMatrixAck"} \union FirstMessages
  /\ stack \in Seq(Frames)
  /\ device \in [work : {"none"} \union FirstMessages, last : DeviceMessages, messages : 0 .. MaxMessages,
                  told : [inputs : Nat, outputs : Nat]]
  /\ prev_tx \in Transactions
  /\ acks \subseteq DeviceMessages \X Acks
  /\ pc = "parse" => stack # <<>>

\* Input i of the transaction as it was downloaded; past its end, the null member
\* that indexing creates.
Downloaded(i) == IF i < Len(prev_tx.vin) THEN prev_tx.vin[i + 1] ELSE NoInput

\* The wallet has asked for an input of the new transaction that has no
\* counterpart in the downloaded one, which made vin longer.
AskedPastEnd ==
  \E p \in acks : p[2].kind = "init_input" /\ p[1].index >= Len(prev_tx.vin)

\* Within one run the same request always gets the same TxAck: the wallet asks for
\* every input and output several times over, for hashing, for confirmation and for
\* signing, and in between vin may grow and total_amount be set.  Only the number of
\* inputs write_tx_meta reports can differ, and only if vin was indexed past its end
\* in this run (parse_read_message and all write_tx*).
AnswersStable ==
  \A p, q \in acks : p[1] = q[1] /\ p[2] # q[2] =>
    /\ p[2].kind = "meta" /\ q[2].kind = "meta"
    /\ p[2].outputs_cnt = q[2].outputs_cnt
    /\ AskedPastEnd

\* What the wallet is told of the previous transaction is what was downloaded, be it
\* a transaction or an error page, and whatever was asked before: each input is the
\* one at its index, and one that is not there is null and never another one; an
\* output is always one that is there, its amount at most one satoshi short, and one
\* that no int holds never reaches the wallet; and the counts are exact until vin was
\* indexed past its end (write_tx_inputs, write_txinit_inputs, write_txbin_outputs,
\* write_tx_meta).
PrevTxFaithful ==
  \A p \in acks :
    LET i   == p[1].index
        ack == p[2]
    IN  /\ ack.kind = "prev_input" => ack.input = Downloaded(i)
        /\ ack.kind = "init_input" => ack.prev_index = Downloaded(i).n
        /\ ack.kind = "bin_output" =>
             /\ i < Len(prev_tx.vout)
             /\ ack.script = prev_tx.vout[i + 1].present
             /\ ack.amount \in {prev_tx.vout[i + 1].value - 1, prev_tx.vout[i + 1].value}
        /\ ack.kind = "meta" => ack = MetaAck(prev_tx) \/ AskedPastEnd

\* For any signing order: write_tx_meta never reports fewer inputs than the
\* transaction has, nor more than the order could have made vin grow to, and
\* the outputs exactly.
MetaCountBound ==
  \A p \in acks : p[2].kind = "meta" =>
    /\ Len(prev_tx.vin) <= p[2].inputs_cnt
    /\ \/ p[2].inputs_cnt = Len(prev_tx.vin)
       \/ p[2].inputs_cnt <= config_data.inputs_count
    /\ p[2].outputs_cnt = Len(prev_tx.vout)

\* A change output reaches the wallet only in a run that has answered for an
\* output of the previous transaction before, and then payment, fee and
\* change add up to TotalAmount; as long as the payment and the fee
\* do not overflow an int together (write_tx_outputs, write_txbin_outputs).
ChangeExact ==
  config_data.amount + Fee <= IntMax + 1 =>
    \A p \in acks : p[2].kind = "output" /\ ~p[2].payee =>
      /\ p[2].amount + config_data.amount + Fee = TotalAmount
      /\ \E q \in acks : q[2].kind = "bin_output"

\* A dialogue that ends without an error leaves the wallet waiting for no
\* answer the tool knows how to give: of all interactive messages only
\* PassphraseRequest can be the last one (parse_read_message).
NobodyLeftWaiting ==
  pc = "done" => IsLast(device.last) \/ device.last.type = "PassphraseRequest"

\* A message is only ever sent in answer to the wallet's latest message: a
\* frame that resumes after a nested dialogue sends nothing
\* (parse_read_message).
OnlyTheLatestIsAnswered ==
  [][pc = "parse" /\ pc' = "exchange" => Top.msg = device.last]_vars

\* Once the wallet has ended the dialogue the command ends, on its own
\* steps, however deep the recursion is.
DialogueUnwinds == (pc = "parse" /\ IsLast(device.last)) ~> (pc = "done")

-----------------------------------------------------------------------------
(* What the protocol's comments say and the code does not do *)

\* messages.proto: a PassphraseRequest is followed by PassphraseAck or Cancel.
PassphraseAnswered == pc = "done" => device.last.type # "PassphraseRequest"

\* types.proto: prev_index is the index of the previous OUTPUT to spend.
PrevIndexIsAnOutput ==
  \A p \in acks : p[2].kind = "init_input" => p[2].prev_index < Len(prev_tx.vout)

\* messages.proto, types.proto: the TxAck reports data of the requested
\* transaction, its number of inputs among them.
MetaReportsTheTransaction ==
  \A p \in acks : p[2].kind = "meta" => p[2] = MetaAck(prev_tx)

\* main.cc: get_address is to "Get Coin Address"; so the user gets to see the
\* address the wallet answers with.
AddressIsPrinted ==
  [][Exchange /\ device'.last.type = "Address" => PrintsAnswer]_vars
=============================================================================
