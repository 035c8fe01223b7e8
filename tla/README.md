# Formal model of the BWallet command line tool

TLA+ modules, TLC configurations and TLAPS proofs for the tool in `src/`: a
command line program that talks to a hardware wallet over USB HID, in protobuf
messages it reads from and prints as JSON, and that leads the dialogue in which
the wallet signs a Bitcoin transaction.

## 1. The system

### Components

| component | code | state | operations |
|---|---|---|---|
| commands | `main.cc`, `command.hpp` | `json_msg` | `test_screen`, `get_features`, `set_label`, `get_address`, `sign_tx`; `json_init`; `list_usb`, `help`, `version` |
| dialogue | `common_msg.hpp` | globals `url_data`, `config_data`, `total_amount`; the C++ call stack | `parse_read_message`, the nine `write_*` functions |
| exchange of one message | `common_msg.hpp:14-31` | a `kernel` and a `device_kernel` that live for one message | `message_communication` |
| transport | `core.hpp:12-54`, `wire.hpp:52-211` | the handle, `read_buffer` | `open`, `close`, `call`; `write_to`, `read_from` |
| kernel | `core.hpp:56-206` | `device_kernels`, `sessions`, a recursive mutex | `enumerate_devices`, `get_device_kernel`, `get_device_kernel_by_session_id`, `acquire_session`, `release_session`, and two methods composed of them |
| enumeration | `wire.hpp:27-50`, `core.hpp:195-205` | none | `enumerate_connected_devices` with the filter `is_device_supported` |
| wire ids | `wire_proto.hpp` | `descriptor_index` | `load_protobuf_state`, `wire_to_protobuf`, `protobuf_to_wire` |
| JSON codec | `json_codec.hpp`, `utils.hpp` | none | protobuf to JSON and back, by field type; bytes as hex |
| HTTP client | `http_client.hpp` | none | download the previous transaction |
| hidapi wrapper | `hid.hpp` | none | forwards to hidapi |

The rest of the repository is third-party (`easylogging++.h`), generated
(`protob/*.pb.*`) or declares the messages (`protob/*.proto`).

### How they interact

A command reads a JSON file and hands one message to `message_communication`,
which makes a kernel, takes the first wallet `enumerate_devices` lists, encodes
the message (JSON codec, then wire ids), and runs `device_kernel::call`: write
the message in HID reports, read the answer from HID reports. The answer goes
back through the codecs. `set_label`, `get_address` and `sign_tx` pass it to
`parse_read_message`, which answers it *and recurses on the wallet's next
message*: the call stack is the dialogue's only state machine. `sign_tx` first
downloads the previous transaction into `url_data`; the wallet then asks, several
times over, for the inputs and outputs of the new transaction and of the
previous one, and each `write_tx*` function answers out of the globals.

### What is hard

* *Order.* The wallet chooses the order of requests. `total_amount` is set by
  one kind of answer and read by another; indexing `url_data` past its end
  changes it; and a frame that resumes after a nested dialogue goes on testing
  its own old message.
* *Arithmetic at its limits.* Amounts are converted from decimal text through a
  double to an `int`; the change is `int` arithmetic on a number from a file.
* *Framing.* Messages are cut into reports without regard to message borders,
  reports carry padding, and left-over bytes stay in `read_buffer`.
* *Failure in mid-message.* A transfer may fail at any report; `call` closes the
  handle and throws, and the wallet may be left with half a message.
* *Waiting.* `buffer_report` polls without end; a download has a time limit for
  connecting only.
* *One connection per message.* Every message of a dialogue initialises hidapi,
  enumerates and opens anew, and takes the first wallet it finds. Between two
  messages a wallet may come or go, another run of the tool may use the wallet,
  and a run that is killed leaves its answer behind.
* *Results nobody looks at.* Whether an answer could be parsed, the HTTP status,
  and messages no test of `parse_read_message` knows.
* *Shared tables.* The kernel is written to be shared by threads: compound
  methods are made of methods that lock the same mutex.

### What makes each component correct

| component | properties |
|---|---|
| dialogue | answers the latest message only; the same request gets the same answer; the previous transaction is reported as downloaded; the change adds up; it ends when the wallet ends it; nobody is left waiting |
| transport | a call returns the wallet's answer to exactly the message sent, or throws; nothing left over is taken for a message; bounded buffering; it ends |
| kernel | every method is atomic and has no effect on sessions and handles when it throws; a superseded session cannot close the device; no mutex is leaked; every call ends |
| codecs | a conversion that is not refused loses nothing but the fraction of a number, and adds nothing; every value fits its field; what is printed can be sent again |
| lifecycle of an exchange | in a dialogue nobody disturbs every message reaches the wallet that asked; an answer belongs to the message just sent, whoever else uses the wallet; handles are closed before the library is shut down, and closed at last |
| HTTP client | what is parsed is the whole page; the handle is given back; a server that is silent does not block connecting |

## 2. The modules

| module | models | lines of code it stands for |
|---|---|---|
| `TxData` | `url_data`, amounts, the `TxAck` of each `write_tx*` function | `common_msg.hpp:58-129` |
| `Conversation` | one run of a command and its dialogue | `command.hpp`, `common_msg.hpp` |
| `MCConversation` | small values for `Conversation` | |
| `ConversationProofs` | theorems about `Conversation` | |
| `WireData` | messages as bytes, bytes as reports | `wire.hpp:109-210` |
| `WireDataProofs` | lemmas and a theorem about the wire format | |
| `Call` | abstract: what `call` promises | `core.hpp:35-50` |
| `Wire` | `call` over `read_from` and `write_to`, report by report | `core.hpp:21-50`, `wire.hpp:69-211` |
| `MCWire` | small values for `Wire` | |
| `WireProofs` | theorems about `Wire` | |
| `SessionTable` | abstract: each kernel method in one step | `core.hpp:83-163` |
| `Kernel` | the kernel's methods step by step under the recursive mutex | `core.hpp:70-163` |
| `MCKernel` | small values for `Kernel` | |
| `KernelProofs` | theorems about `Kernel` | |
| `Hex` | `hex_encode` and `hex_decode` | `utils.hpp:7-33` |
| `HexProofs` | theorems about `Hex` | |
| `JsonData` | JSON values and jsoncpp's conversions of them | external, as `json_codec.hpp` uses it |
| `CodecData` | one call of each function of the JSON codec | `json_codec.hpp` |
| `Codec` | JSON to wire message and back, over `CodecData` and `Hex` | `wire_proto.hpp`, `core.hpp:165-178` |
| `MCCodec` | a small schema, commands and answers | |
| `CodecProofs` | theorems about `CodecData` and `Codec` | |
| `Exchange` | `message_communication` in several processes that share wallets | `common_msg.hpp:14-31`, `core.hpp:35-50`, `70-81`, `command.hpp:26-43` |
| `Dialogue` | abstract: a process and one wallet take turns | `common_msg.hpp:14-31`, `131-159` |
| `MCExchange` | small values for `Exchange` | |
| `ExchangeProofs` | theorems about `Exchange` | |
| `HttpClient` | a download and its parse | `http_client.hpp`, `common_msg.hpp:33-42` |
| `MCHttpClient` | pages | |
| `HttpClientProofs` | theorems about `HttpClient` | |

### TxData and Conversation

`url_data`, `config_data`, `total_amount` and `json_msg` are the variables of
the same names; `stack` is the C++ call stack of `parse_read_message`, a
sequence of frames that hold the message being parsed and the next test to be
made. Each `write_*` function is an action: it takes the test that succeeds
(`Calls(k)`), updates the globals as the function does, and either hands its
message to `message_communication` (`Exchange`, `CommunicationThrows`) with the
frame left standing behind the test, or, when the codec rejects the `TxAck`,
throws. `ParseReturns` pops a frame with no test left.

`ArrayGet` is jsoncpp's non-const `operator[]`: it creates the members up to the
index. (jsoncpp arrays hold only the members that were stored; iterating, as the
codec does over `inputs`, visits just those. So `write_txinit_inputs`, which
stores at `inputs[index]`, still sends one input.) Amounts are integers; the
double arithmetic of `atof(value) * 1e8` is kept as the one bit it amounts to,
whether truncation drops a satoshi. A number out of range of an `int` becomes
`INT_MIN`, as with the conversion instruction of the x86 build.

The wallet is external. `DeviceMay` is what the `@next` lines of
`messages.proto` let it send, with indexes below the counts it was told. The
wallet's messages of a workflow may come in any order and any number of times.

### WireData, Wire and Call

`pc` is `idle`, `write`, or the phase of `read_from` (`sync`, `mark`, `header`,
`body`); `want` and `data` are what the running `read_buffered` has still to
read and has read. `WriteReport`, `BufferReport`, `PollAgain` and
`ReadFromBuffer` are the code's steps between two calls of hidapi or two turns
of `read_buffered`; `HeaderThrows` and `TransferFails` end in the catch block
(`CloseAndThrow`). `PollAgain` is the turn of the polling loop that finds
nothing. The wallet joins the reports it takes, answers a complete message, and
cuts its answer as it likes: short reports, reports whose length byte is smaller
than what arrived, padding at the end.

`Call` is the promise: a call is served at most once, and returns the answer it
was served with, or throws -- at any point, so a call that throws may have had
its effect. `Wire` implements it (`KeepsPromise`) when a failed transfer means
that the wallet was unplugged.

### Kernel and SessionTable

`Program` spells out each public method as the steps another thread could come
between; a method that calls another one contains its program. `mutex` counts
the nested locks; an exception unlocks them all. `Lock` at depth 0 records the
tables in the history variable `before`, and the refinement mapping shows the
tables of `before` while the mutex is held: the abstract step of `SessionTable`
is the outermost unlock. The list of `enumerate_devices` is built path by path.

The tool itself has one thread and makes a kernel for each message, so no two
threads of it meet in a kernel. What is modelled is the promise the class makes with
its mutex, to a program that would share one.

### Hex, JsonData, CodecData and Codec

A text is a sequence of tokens, of which twenty-two are hex digits of either case;
`IsHex` says when `hex_decode` does not throw.

A run of `Codec` converts one JSON value to a wire message or one wire message to
JSON, by the functions of `kernel` that do so, one action per function and one per
way it throws. `Accepts` says when `json_to_protobuf` does not throw, `ToMessage`
what it builds, `ToObject` what `protobuf_to_json` prints; the switches over field
types for single and for repeated fields are the same in the code and are one
operator each here.

These functions call themselves, as messages are within messages. `CodecData` has
what ONE call of each does (`AcceptsObject`, `MessageOf`, `ObjectOf`), where what
the calls within it return are constants of the module (`Accepts`, `ToMessage`,
`ToObject`). `Codec` has the same constants, and `Recursion` says that each is what
one call of it does. In this way nothing is a recursive operator, and the
specification can be proved about: a constant for which the equations hold is the
function. `SchemaAssumption` says that no message is within itself, which is true
of `messages.proto`: so the calls come to an end, and by going up from the types
without messages in them there are such functions, and only these. `MCCodec` builds
them of two levels of calls, `Inner` and `Outer`, as its schema has no more, and TLC
evaluates the equations on every value of the instance (`MCRecursion`).

The schema (`Schema`, and the enumeration `MessageType` from which
`descriptor_index` is built) is a parameter, as the code finds it by reflection.
The assumption that every name of the enumeration is a message is true of
`messages.proto`; without it `find_wire_id` would follow a null pointer. jsoncpp's
conversions are external (`JsonData`), and what its releases do differently is the
variable `strict`. A JSON number is an integer (`Number`) or a real (`Real`), of
which the model keeps the greatest integer not above it and whether it is that
integer: enough to say what `asInt` and the like accept (`AcceptsNumber`), and what
they make of it (`AsNumber`). The bytes libprotobuf serialises stand for the message they
encode. An answer may be `cut`: then `ParseFromArray` fails, and leaves in the
message the fields before the cut, and of the field it is in what is complete
(`Cuts`); `wire_to_protobuf` goes on with that (`Parsed`).

### Exchange

Each process has a record with the place it is at, and what it holds there: the
library (`kernel`), the device, the handle. The places are the statements of
`message_communication`: `idle` (between two messages), `made` (after `kernel`),
`listed` (after `device`), `opened`, `written`, `answered` (in and after `call`),
`leaving` (return or exception), `closed` (after the destructor of `device`).
`DestroyKernel` ends a message; after an exception, it ends the command as well,
since the catch block of every command only logs. `call` writes and reads a
message in one step each, as it is allowed to by `Call`.

A *path* stands for one plugging of a wallet: a wallet that comes back has a new
path and an empty queue. `hid_open_path` is exclusive (the tool links
hidapi-libusb, which claims the interface), and the reports its thread has
already taken are lost when the handle is closed (`Release`), to any number of
answers. The wallet keeps messages and answers in order and belongs to nobody.
Messages bear numbers the code does not see: `id` is that of the message a
process sends, `got` that of the message whose answer it read, `reply_to` that
of the answer its next message replies to, `asked` that of a wallet's last
answer. `calm` is a history variable too (see `ReachesTheAsker`).

`Dialogue` is what `parse_read_message` and the `write_*` functions take
`message_communication` for, and what the step `Exchange` of `Conversation` is:
a question, the answer to it, the next question, with one wallet. `Talk` maps a
process to its turn: `process` from one exchange to the writing of the next,
`wallet` until the wallet has taken the message, `answer` until `Decode`. The wallet
is the one it holds, or, between two exchanges, the first of the list. A process
that is not calm has no dialogue: anything that disturbs it is `Disturb`, and so is
a failure.

### HttpClient

One download: the easy handle, the seconds spent connecting, chunks of any size,
and the three ways `curl_easy_perform` comes back. A page is a sequence of
pieces. A server that does not say the length of its page may close the
connection at any piece and libcurl reports success; `reader.parse` then decides,
by whether there is a whole document in the stream.

## 3. The runs

| run | module, cfg | shows |
|---|---|---|
| `conversation` | `MCConversation`, `Conversation.cfg` | type invariant and all properties of the dialogue |
| `passphrase` | `MCConversation`, `Passphrase.cfg` | **violation**: a `PassphraseRequest` is not answered |
| `prev_index` | `MCConversation`, `PrevIndex.cfg` | **violation**: `prev_index` need not be an output |
| `meta_counts` | `MCConversation`, `MetaCounts.cfg` | **violation**: `inputs_cnt` may count inputs that indexing created |
| `wire` | `MCWire`, `Wire.cfg` | `Wire` implements `Call`, leaves only padding behind, and ends |
| `wire_transient` | `MCWire`, `WireTransient.cfg` | type invariant, intact answers, bounded buffering with failures that leave the wallet in mid-message |
| `kernel` | `MCKernel`, `Kernel.cfg` | `Kernel` implements `SessionTable`, and the properties of the mutex |
| `codec` | `MCCodec`, `Codec.cfg` | values fit their fields, nothing is added, nothing lost but a fraction, and what is printed can be sent again |
| `exchange` | `MCExchange`, `Exchange.cfg` | type invariant, order of destruction, own answers, what the killed leave behind, calm dialogues, `Exchange` implements `Dialogue`, handles given back |
| `http_client` | `MCHttpClient`, `HttpClient.cfg` | type invariant, whole pages, handle given back, connecting ends |
| `replugged` | `MCExchange`, `Replugged.cfg` | **violation**: a wallet plugged in during a dialogue gets a `TxAck` it never asked for |
| `address` | `MCConversation`, `Address.cfg` | **violation**: `get_address` does not print the address |

### Properties

* `AnswersStable`, `PrevTxFaithful` are about every order and every download, an
  error page and an order that names more inputs than the downloaded transaction
  has among them. What an input past the end is answered with is the null member
  that indexing creates, each time. What can change is one number: once the wallet
  has asked for such an input (`AskedPastEnd`), `write_tx_meta` may report more
  inputs than there are. The `meta_counts` run shows it, and `MetaCountBound` bounds
  it. How far vin grew is never a hypothesis, only that the wallet asked.
* `ChangeExact` assumes that payment and fee do not overflow an `int` together.
  It says both that the sum is right and that the wallet never gets a change
  output before it has been answered for an output of the previous transaction:
  with `total_amount` still 0 the change is negative, and the codec refuses it.
* `NobodyLeftWaiting` names the one message the dialogue drops.
* `OnlyTheLatestIsAnswered`, `DialogueUnwinds` are about the recursion.
* `OnlyPaddingLeft`, `AnswerIntact` hold until a failed transfer has left the
  wallet in mid-message (`clean`); `BufferBounded` holds always. What a call returns
  after such a failure no property bounds: nothing in the protocol tells an old
  answer from a new one.
* `CallEnds` leaves out one case, `AwaitsEmptyBody`: `read_buffered` refills an
  empty buffer before it looks at the length, so an empty body whose header
  ends its report makes the call wait for a report nobody need send.
* `IsAtomic`, `ClosedByItsOwner`, `NoLockLeaked`, `CallsEnd` are about threads
  that share a kernel. The tool is single threaded; this is the contract the
  class is written for.

* `NothingLost` compares the wire message with the JSON it came from or became,
  by a relation (`Says`, and `Means` for one value) that is written without the
  conversions it judges: `SaysNumber`, `SaysNo` and `Written` name no `As...` operator
  and no range. A member that is null counts as set; a member that is no field is
  ignored. A number with a fraction loses it without an error, 1.5 is sent as 1:
  that much `SaysNumber` allows, and no more. Of one value nothing is said
  (`PastEnd`): the real 2^63, or 2^64 for an unsigned field, passes jsoncpp's check,
  because the greatest 64 bit integer is rounded up when it is made a double, and
  its cast is undefined. `PastMax` is what the build's instruction gives; `TypeOK`
  and `PrintedIsReadable` have the case. The mutant sets 64 bit fields with `asInt`.
* `PrintedIsReadable` is the round trip from an answer to a command. The other
  one does not hold, nor need it: `null`, upper case digits and empty arrays are
  printed differently than they were read.

  Answers cut short are included: they are printed as if they were whole, an
  `Address` without its address for one, although `messages.proto` requires it.
* `OwnAnswer` is about processes that share wallets. What makes it true is that
  `buffer_report` never gives up: a process leaves `call` with its answer, or
  because its wallet is gone. With a time limit on the answer (the mutant) the
  next process would read it. A kill has the same effect, so it is excluded.
* `LeftByTheKilled` bounds that effect: each kill leaves one exchange at most, so
  after `n` kills a process may read answers up to `n` messages old, never more.
  Nothing in the code ever makes up for the lag: only replugging the wallet, or
  the loss of an answer when a handle is closed, does.
* `ReachesTheAsker` is about dialogues nobody disturbs: since the command began,
  no wallet came or went, no process was killed, no other process wrote a
  message, and nothing was left over at the start. Each of these makes it false,
  as the property without `calm` shows; the run `replugged` has the case of a second
  wallet.
* `FollowsDialogue` says of the same dialogues that they go in turns: no message is
  handled twice, none in between, and the answer is to what was said. A message that
  is written again because it seems lost (the mutant) is handled twice.
* `WholePageOrThrown` is about early ends libcurl cannot see. It rests on a JSON
  object being recognised as incomplete.
* `AddressIsPrinted` says what the option text promises; `PrintsAnswer` collects
  which caller of `message_communication` prints what it got.

### Bounds, and why they are enough

* `Conversation`: `IntMax` 31, `TotalAmount` 20, `Fee` 2, five messages of the
  wallet. The orders pay an ordinary amount, one that leaves too little, one that
  overflows with the fee and one that is no `int`; the transactions have an
  output on each side of `IntMax` and an inexact one, one input (fewer than most
  orders name) or two. Five messages are enough for an output of the previous
  transaction, the change, a repetition of each and an end; each property's
  mutant is found within them, and the theorems remove the bounds.
* `Wire`: bytes of two bits, four bytes of payload in a report, `MaxSize` 3. Two
  marks and the header are two full reports, so a header ends just with its
  report (the empty-body case), and the answers are an empty one and one whose
  body holds two marks. Three calls and two failures are enough for a failure in
  a call, one in the next, and a call after both. Cuts of 1, 3 and 4 bytes break
  the header everywhere. `WireProofs` removes these bounds for every safety
  property, the refinement included.
* `Kernel`: two threads, two wallets' paths, a second interface and a foreign
  device, three calls: one acquires, one takes the session over, one uses the
  old session. `Ids` are as many as calls. `KernelProofs` removes these bounds for
  everything but `CallsEnd`.
* `Codec`: integers of three and four bits (`Half32` is 4, `Half64` is 8), with the
  numbers, and the reals with and without a fraction, on both sides of every limit;
  one message type with a single field of every type and repeated
  ones of numbers, bytes, names and messages, nested in it one that has no wire
  id; every member with every kind of value, alone or in a list of one or two.
  A second message type, `Address`, has one required field. `CodecProofs` removes
  these bounds: any schema, widths, commands and answers.
* `Exchange`: two processes, two paths, three messages in all, two kills, two
  pluggings. Three messages are a dialogue of two and another process's message
  in between; two changes replace a wallet, or put a second one in front of it
  and take it away. `ExchangeProofs` removes these bounds for all its safety
  properties. A message cut in half when a process is killed is not in
  `Exchange`; `Wire` has it (`Transient`).
* `HttpClient`: the full ten seconds; a page of five pieces that is a
  transaction, an error page in JSON, one in HTML, an empty one. For the safety
  properties `HttpClientProofs` allows any pages and any length of time.
* `Conversation` has an error page too: a document without `vin` and `vout`.

### Fairness

* `Conversation`: weak fairness of `ParseReturns` only. It is the program's own
  return from a function. Exchanges are not fair: wallet, network and user at
  the PIN prompt owe nothing.
* `Wire`: weak fairness of the host's steps, which is the code's loop that never
  gives up, and of the wallet's: it answers what it has received in full.
  Nothing is assumed of unplugging.
* `Kernel`: weak fairness of each thread. A thread that waits for the mutex
  needs it to be free long enough; as the number of calls is bounded, the other
  threads stop taking it.

* `Codec` has no liveness to state, and no fairness.
* `Exchange`: weak fairness of `HostStep`, what a process does by itself inside
  `message_communication` (none of its steps waits for another process except
  `Read`), and of the wallets' answers. Nobody owes a next message, a plugging or
  a kill. `HandleReleased` needs the wallets: one that stays silent keeps its
  handle open for ever.
* `HttpClient`: weak fairness of the process and of passing time, none of the
  network and the server. So a transfer may stall for ever, as in the code.

Deadlock is checked in every run; `Finished` is the stuttering of a run that has
ended.

## 4. The proofs

`ConversationProofs` proves, for every set of orders and transactions, every
number of messages and every width of `int` (from `AmountsAssumption`: the fee
is at most the total, and the total is an `int`; and `ConversationAssumption`:
the orders and transactions are well formed; no relation between the two is
assumed), that the specification satisfies

| theorem | property |
|---|---|
| `TypeCorrect` | `[]TypeOK` |
| `LatestAnswered` | `OnlyTheLatestIsAnswered` |
| `SameRequestSameAnswer` | `[]AnswersStable` |
| `FaithfulToPrevTx` | `[]PrevTxFaithful` |
| `CountsBounded` | `[]MetaCountBound` |
| `ChangeAddsUp` | `[]ChangeExact` |
| `WalletIsAnswered` | `[]NobodyLeftWaiting` |

None of the properties is inductive. The strengthening `IInv` has these parts:

* `StackInv`: of all frames only the innermost can have a test left that
  succeeds, and then it holds the wallet's latest message. This is why resumed
  frames send nothing: the tests exclude each other.
* `Drift`: how the globals move. Before the dialogue they are as `sign_tx` left
  them (`StartInv`); `vout` never changes and `vin` only grows, by null members
  behind the downloaded ones (`DataInv`); so what the wallet was told
  (`ToldInv`) keeps its requests within range (`AskInv`).
* `Told`: every `TxAck` sent is a function of the request and of things that do
  not change (`Canonical`), but for the number of inputs in a `TXMETA` answer
  (`GoodAck`), and an amount based on `total_amount` was only sent after an output
  was answered (`TotalInv`).
* `Grown`: as long as the wallet has not asked for an input past the end, vin is as
  long as it was downloaded and no other number of inputs was reported.

`EndInv` (for `WalletIsAnswered`) says that every message the wallet sends to a
parsing command is one some test knows, one that ends the workflow, or
`PassphraseRequest`. The lemmas before it are about the
operators of `TxData` (what `ArrayGet` returns, when `Wrap` is the identity, when
`ToSatoshis` is an amount), about sequences of frames, and about the messages the
wallet may send.

`ExchangeProofs` proves, for every set of processes, every set of paths and
every number of messages, kills and pluggings (from `ExchangeAssumption`, which
says that the constants are what they should be):

| theorem | property |
|---|---|
| `TypeCorrect` | `[]TypeOK` |
| `LibraryUp` | `[]LibraryOutlivesHandle` |
| `EachReadsItsOwn` | `[]OwnAnswer` |
| `KilledLeaveOneEach` | `[]LeftByTheKilled` |
| `DialogueKeepsItsWallet` | `ReachesTheAsker` |
| `DialogueInTurns` | `FollowsDialogue` (`Exchange` implements `Dialogue`) |

The first three follow from `IInv`, which adds to them: what a process holds at
each place (`HostInv`); a fresh path has never been on the bus, and its wallet is
empty (`FreshInv`); two processes never hold the same handle (`ExclusiveInv`);
and, while nobody was killed, all that a plugged-in wallet has left to take or to
give is the one message of the process that awaits it (`PendingInv`). The last
part is why `OwnAnswer` is inductive: a process that leaves without reading can
only do so when its wallet is gone for good.

`LeftByTheKilled` is inductive relative to `IInv`: a process that writes has the
wallet to itself, so nobody else awaits an answer of it and the bound without the
one under way holds.

`DialogueKeepsItsWallet` is an action property and needs `CalmInv` on top: for a
calm process every wallet is empty but for its own message, the device it chose
is still the first of the list, and that wallet's last answer is the one it is
going to reply to.

`DialogueInTurns` rests on the same invariants. `Start`, `Write`, `Answer` and
`Decode` are the steps of the dialogue (`StartBegins`, `WriteSays`,
`AnswerHandles`, `DecodeHears`); every other step leaves all dialogues as they were
or ends some (`Disturbing`).

The lemmas before them are about inserting into, removing from and searching the
list of wallets, and one per action of `Next`.

`WireDataProofs` and `WireProofs` prove, for every width of a byte, size of a
report, set of messages, way to cut answers into reports, and number of calls and
failures:

| theorem | property |
|---|---|
| `HeaderIsRead` | the id and size taken from a header are those put there |
| `TypeCorrect` | `[]TypeOK` |
| `BufferStaysBounded` | `[]BufferBounded` |
| `AnswersAreIntact` | `[]AnswerIntact` |
| `LeavesOnlyPadding` | `[]OnlyPaddingLeft` |
| `CallIsKept` | `~Transient` implies `KeepsPromise` |

The assumptions are those of `WireData`, `CallAssumption` (`NoMessage` and
`Thrown` are no messages, a report can be under way in each direction), and
`SizeAssumption`: a message's size fits into the four bytes of the header, and
the wallet sends none larger than `MaxSize`, which `read_from` would refuse.

* `Shape` is inductive by itself and gives types and bounds: how much
  `read_buffered` has read and has still to read at each place of `call`, and that
  no report is longer than it may be. It holds in mid-message too.
* `Undisturbed` says where every byte is while `clean`. Before the wallet has
  served the message (`Sending`) it is in what the wallet has received, in the
  reports under way and in `buf`, in this order, each report a part of it
  (`IsPart`). Afterwards (`Serving`) the answer is in what `read_from` has taken,
  in `read_buffer`, in the reports under way and in what the wallet still has to
  send; `Stream` names, for each report, the position in the answer it ends at, so
  that padding (`Carries`) can be told from the answer. `Understood` says what
  `read_from` has made of its part. Between calls (`AtRest`) all of them are empty
  but for padding in `read_buffer`, which holds no mark: why the next call cannot
  take it for a header.

`AnswerIntact` and `OnlyPaddingLeft` are the parts of `Undisturbed` for `pc =
"idle"`. `CallIsKept` maps each step of `Wire` to one of `Call` or to a stutter.
Its hypothesis is the one under which the property is true: with a transient
failure the wallet may be left in mid-message, and serve the next call with what
is not its message.

`KernelProofs` proves, for every number of threads, devices, session ids and calls:

| theorem | property |
|---|---|
| `TypeCorrect` | `[]TypeOK` |
| `MutexGivenBack` | `[]NoLockLeaked` |
| `OnlyTheOwnerCloses` | `ClosedByItsOwner` |
| `MethodsAreAtomic` | `IsAtomic` (`Kernel` implements `SessionTable`) |

from `KernelAssumption` (there is no thread, nor session, that stands for none; ids
do not run out) and `IdleAssumption` (`Idle` is no call). `IInv` consists of
`TypeOK` and

* `MutexInv`: the thread that is inside a method holds the mutex, locked as often
  as `Depth` says for the step it is at. `Depth` is a closed form of the locks and
  unlocks in `Program`; that it is right for every program, nested ones included,
  is proved first (`Located`, `BetweenLocks`).
* `SessionsOK`, of the tables now and of those in `before`: a session was issued,
  and belongs to one path.
* `CallInv`: what the thread inside has changed since `before` (`Progress`) and
  what it has found out (`Findings`). Of the compound methods it says which half
  is done.

The refinement follows step by step. A lock, and work under the mutex, is not
seen, since the tables of `before` are shown while it is held (`LockUnseen`,
`WorkUnseen`); the outermost unlock is the abstract operation (`UnlockSeen`); a
`throw` gives the mutex back with sessions and handles as they were
(`OpenThrowsSeen`, `UnknownSessionSeen`).

`HttpClientProofs` proves, for every set of pages and every way to send them:

| theorem | property |
|---|---|
| `TypeCorrect` | `[]TypeOK` |
| `WholePage` | `[]WholePageOrThrown` |
| `HandleGivenBack` | `[]HandleCleaned` |

`TypeOK` holds what matters most: the stream is the page as far as it was sent.
`PagesAssumption` says of a page that is a JSON document that no piece but its last
closes it; with it a proper part of a page is no document, and the parser refuses
it. `HandleLives` tells in which places the handle exists.

`HexProofs` proves of the operators of `Hex`, for sequences of any length, that
`HexDecode` turns what `HexEncode` writes into the bytes it was given
(`DecodesWhatItEncodes`), and that encoding what was decoded from an accepted text
gives its digits in lower case (`EncodesWhatItDecodes`).

`CodecProofs` proves, for every schema, width of the integers, set of commands and
of answers:

| theorem | property |
|---|---|
| `TakenIsSaid` | what is taken of any JSON is a message of its type and holds just what the JSON says, in the sense of `Means` (fractions dropped, `PastEnd` left out) |
| `ShownIsRead` | what is printed of a message says what it holds, is accepted, and is read back as the same message |
| `CutIsMessage` | what is parsed of a message cut short is a message of its type |
| `TypeCorrect` | `[]TypeOK` |
| `ConversionLosesNothing` | `[]NothingLost` |
| `PrintedIsCommand` | `[]PrintedIsReadable` |

The hypothesis of all of them is `Recursion`, that is, that `Accepts`, `ToMessage`
and the others are the functions that call themselves as the code's do; it adds
nothing to what the code does (see section 2). The assumptions are
`SchemaAssumption`, `JsonAssumption` (what JSON is made of: the parts of JSON are
JSON, texts are sequences of tokens, numbers are integers or reals), `WidthAssumption`
(the widths are positive, 32 bits no more than 64), `CastAssumption` (the cast of a real
just past the end gives some value of the type), `CodecAssumption` (every
name of the enumeration is a message and no two have the same id) and
`AnswersAssumption` (libprotobuf serialised a message of the type).

The argument follows the nesting. `TypeInduction` is derived from `SchemaAssumption`
without an induction theorem: of the types a claim is false of, one has no message
of these types in it, and it is true of that one. So it is enough to prove each claim
for one call, given it for the messages within (`TakenFields`, `ShownFields`,
`CutFields`), which goes field by field, and by the type of the field for one value
(`TakenValue`, `ShownValue`, on the `...ByType` lemmas and on the theorems of
`HexProofs`). Numbers that convert to texts need one more: that the decimal numeral
of any number, defined by recursion on it, is a sequence of tokens
(`NumeralText`), which is proved with a least counterexample.

The inductive invariant `IInv` of the conversions adds `Converted` (once there is a
message it is of its type, and the JSON says what it holds) and `OnTheWire` (what is
on the wire has its id and, unless cut short, is that message).

### Only model-checked

* Liveness: `DialogueUnwinds`, `CallEnds`, `CallsEnd`, `HandleReleased`,
  `GivesUpConnecting` (temporal properties under fairness are out of the prover's
  reach). Every other property of a passing run is a theorem.
* That the functions of `MCCodec` satisfy `Recursion`, on its values; that there are
  such functions for every schema is argued in section 2, not proved: a function on
  all JSON values is no set.
* What the `violation` runs show: a counterexample is its own proof.

## 5. Not modelled, and why

* Logging, printing, option parsing, exit codes: no state depends on them. The
  `serialized` part of a `TxRequest` is only printed.
* Generated code, `protob/*.pb.*`: 43000 of the repository's lines. `protoc` writes
  it, and the tool uses none of it but the embedded file descriptors: its messages
  are made by a `DynamicMessageFactory`, no generated class is instantiated. There
  is no behaviour in it the modules could be faithful to beyond the schema, which
  is a parameter of `Codec`.
* Third-party code: `easylogging++.h` (6300 lines, logging), and hidapi, libcurl,
  jsoncpp, libprotobuf and the wallet, which appear by what they return. The
  program itself is ten files of some 1500 lines; these are modelled.
* `help`, `version`, which print a text.
* The `throw` for a message without a type at the end of `parse_read_message`:
  the codec always sets the type.
* Answers that are garbled other than by being cut short; fields of type float
  and double, which no message has.
* `device_kernel::call` in one thread while another closes the session: a data
  race outside the mutex, in a use of the class the tool does not make.
* The digits of a fraction: a real that is printed as a text is its whole part and
  one token. Nor that reading a number of many digits rounds it to a double before
  any conversion sees it; and of the undefined cast of 2^63, only what the x86 build
  gives is model-checked, while the proofs allow any value of the type.
* The status of an HTTP response, which the code never looks at: an error page in
  JSON is a page like another (`ErrorPage` of `MCConversation`).
* A transfer that stalls after the connection: the model has it, and states no
  property, since nothing in the code ends it.
* Stack and heap size.

## 6. How it was built, and what is left

In this order: `TxData`, `Conversation`, `ConversationProofs`, `WireData`, `Call`,
`Wire`, `SessionTable`, `Kernel`, `Codec`, `Exchange`, `ExchangeProofs`,
`HttpClient`, `HttpClientProofs`, `KernelProofs`, `Hex`, `HexProofs`,
`WireDataProofs`, `WireProofs`, `JsonData`, `CodecData`, `CodecProofs`, `Dialogue`.

Left: a composition of `Conversation` with `Dialogue` in which the wallet's messages
of the one are the answers of the other. It would add the disturbances of `Exchange`
to the workflows; what either promises while nobody disturbs it is proved.
