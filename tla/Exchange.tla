------------------------------ MODULE Exchange ------------------------------
(***************************************************************************)
(* The life of message_communication (common_msg.hpp) in the processes     *)
(* that run the tool.  EVERY message of a dialogue makes a kernel of its   *)
(* own, which initialises hidapi, lists the wallets anew and opens the     *)
(* first one; the handle and the library are given back before the next    *)
(* message.  Between two messages nothing ties a process to its wallet.    *)
(*                                                                         *)
(* Processes may run side by side and be killed at any step; wallets are   *)
(* plugged in and out.  A path stands for one plugging of a wallet: it     *)
(* gets a new path when it comes back.  device_kernel::call is what Call   *)
(* promises (its reports are module Wire): a message is written and an     *)
(* answer read in one step each.  Messages are numbered; an answer bears   *)
(* the number of the message it answers, which the code does not see.      *)
(***************************************************************************)
EXTENDS Integers, Sequences, SequencesExt

CONSTANTS
  Processes,    (* Processes that may run the tool.                        *)
  Paths,        (* The paths wallets get.                                  *)
  NoPath,
  FirstBus,     (* The wallets plugged in at first, in the order listed.   *)
  MaxMessages,  (* Bound: messages sent by all processes.                  *)
  MaxKills,     (* Bound: processes killed.                                *)
  MaxChanges    (* Bound: wallets plugged in or out.                       *)

ASSUME ExchangeAssumption ==
  /\ NoPath \notin Paths
  /\ FirstBus \in Seq(Paths)
  /\ MaxMessages \in Nat /\ MaxKills \in Nat /\ MaxChanges \in Nat

VARIABLES
  host,     (* For each process: where it is and what it holds.            *)
  bus,      (* The wallets plugged in, in the order hid_enumerate lists.   *)
  fresh,    (* Paths no wallet has had yet.                                *)
  wallet,   (* For each path: messages taken, answers given, last question.*)
  sent,     (* Number of messages begun.                                   *)
  kills, changes

vars == <<host, bus, fresh, wallet, sent, kills, changes>>

\* A process between two commands.  `calm' is history: since its command
\* began, nothing was left over in a wallet, no wallet came or went, no process
\* was killed and no other one sent a message.
Off == [at |-> "off", job |-> "message", library |-> FALSE, dev |-> NoPath,
        handle |-> NoPath, id |-> 0, reply_to |-> 0, got |-> 0,
        failed |-> FALSE, calm |-> FALSE]

Init ==
  /\ host = [p \in Processes |-> Off]
  /\ bus = FirstBus
  /\ fresh = {w \in Paths : ~Contains(FirstBus, w)}
  /\ wallet = [w \in Paths |-> [in |-> <<>>, out |-> <<>>, asked |-> 0]]
  /\ sent = 0 /\ kills = 0 /\ changes = 0

Quiet == \A w \in Paths : wallet[w].in = <<>> /\ wallet[w].out = <<>>

\* Process p takes a step that leaves it as h and calms nobody.
Becomes(p, h) == host' = [host EXCEPT ![p] = h]

\* The same, in a way that disturbs all others.
Disturbs(p, h) ==
  host' = [q \in Processes |-> IF q = p THEN h ELSE [host[q] EXCEPT !.calm = FALSE]]

\* hid_close: answers that hidapi's thread had already taken are lost.
Release(w) ==
  IF w = NoPath
    THEN UNCHANGED wallet
    ELSE \E n \in 0 .. Len(wallet[w].out) :
           wallet' = [wallet EXCEPT ![w].out = SubSeq(@, n + 1, Len(@))]

-----------------------------------------------------------------------------
(* The process *)

\* A command that talks to the wallet begins: its first message is next.
Start(p) ==
  /\ host[p].at = "off"
  /\ Becomes(p, [Off EXCEPT !.at = "idle", !.calm = Quiet])
  /\ UNCHANGED <<bus, fresh, wallet, sent, kills, changes>>

\* list_usb makes a kernel just to enumerate.
ListUsb(p) ==
  /\ host[p].at = "off"
  /\ Becomes(p, [Off EXCEPT !.at = "made", !.job = "list", !.library = TRUE])
  /\ UNCHANGED <<bus, fresh, wallet, sent, kills, changes>>

\* message_communication begins: kernel::kernel calls hid_init.
MakeKernel(p) ==
  /\ host[p].at = "idle"
  /\ sent < MaxMessages
  /\ sent' = sent + 1
  /\ Becomes(p, [host[p] EXCEPT !.at = "made", !.library = TRUE, !.id = sent'])
  /\ UNCHANGED <<bus, fresh, wallet, kills, changes>>

\* enumerate_devices; "no device found"; else the first of the list.
Enumerate(p) ==
  /\ host[p].at = "made"
  /\ Becomes(p, CASE host[p].job = "list" -> [host[p] EXCEPT !.at = "leaving"]
                  [] host[p].job = "message" /\ bus = <<>> ->
                       [host[p] EXCEPT !.at = "leaving", !.failed = TRUE]
                  [] OTHER -> [host[p] EXCEPT !.at = "listed", !.dev = bus[1]])
  /\ UNCHANGED <<bus, fresh, wallet, sent, kills, changes>>

\* call opens the wallet: it is there and nobody else has claimed it.
Open(p) ==
  /\ host[p].at = "listed"
  /\ Contains(bus, host[p].dev)
  /\ \A q \in Processes : host[q].handle # host[p].dev
  /\ Becomes(p, [host[p] EXCEPT !.at = "opened", !.handle = host[p].dev])
  /\ UNCHANGED <<bus, fresh, wallet, sent, kills, changes>>

\* json_to_wire or open throws before there is a handle, or wire_to_json while
\* ~device_kernel has yet to close it.
Throws(p) ==
  /\ host[p].at \in {"listed", "answered"}
  /\ Becomes(p, [host[p] EXCEPT !.at = "leaving", !.failed = TRUE])
  /\ UNCHANGED <<bus, fresh, wallet, sent, kills, changes>>

\* Mutant: a report that seems lost is written again, and the message is there twice.
WriteTwice(p) ==
  LET w == host[p].handle
  IN  /\ host[p].at = "opened"
      /\ Contains(bus, w)
      /\ wallet' = [wallet EXCEPT ![w].in = @ \o <<host[p].id, host[p].id>>]
      /\ Disturbs(p, [host[p] EXCEPT !.at = "written"])
      /\ UNCHANGED <<bus, fresh, sent, kills, changes>>

\* message::write_to
Write(p) ==
  LET w == host[p].handle
  IN  /\ host[p].at = "opened"
      /\ Contains(bus, w)
      /\ wallet' = [wallet EXCEPT ![w].in = Append(@, host[p].id)]
      /\ Disturbs(p, [host[p] EXCEPT !.at = "written"])
      /\ UNCHANGED <<bus, fresh, sent, kills, changes>>

\* message::read_from takes the first answer there is.
Read(p) ==
  LET w == host[p].handle
  IN  /\ host[p].at = "written"
      /\ Contains(bus, w)
      /\ wallet[w].out # <<>>
      /\ wallet' = [wallet EXCEPT ![w].out = Tail(@)]
      /\ Becomes(p, [host[p] EXCEPT !.at = "answered", !.got = Head(wallet[w].out)])
      /\ UNCHANGED <<bus, fresh, sent, kills, changes>>

\* Mutant: buffer_report gives up when nothing came within 50 ms.
CallThrowsSoon(p) ==
  /\ host[p].at \in {"opened", "written"}
  /\ Becomes(p, [host[p] EXCEPT !.at = "leaving", !.failed = TRUE, !.handle = NoPath])
  /\ Release(host[p].handle)
  /\ UNCHANGED <<bus, fresh, sent, kills, changes>>

\* The wallet is gone: the transfer fails, call closes the handle and throws.
CallThrows(p) ==
  /\ host[p].at \in {"opened", "written"}
  /\ ~Contains(bus, host[p].handle)
  /\ Becomes(p, [host[p] EXCEPT !.at = "leaving", !.failed = TRUE, !.handle = NoPath])
  /\ Release(host[p].handle)
  /\ UNCHANGED <<bus, fresh, sent, kills, changes>>

\* wire_to_json; the next message will reply to this answer.
Decode(p) ==
  /\ host[p].at = "answered"
  /\ Becomes(p, [host[p] EXCEPT !.at = "leaving", !.reply_to = host[p].got])
  /\ UNCHANGED <<bus, fresh, wallet, sent, kills, changes>>

\* Mutant: a raw pointer, which nobody deletes.
DestroyDeviceNever(p) ==
  /\ host[p].at = "leaving"
  /\ Becomes(p, [host[p] EXCEPT !.at = "closed", !.dev = NoPath])
  /\ UNCHANGED <<bus, fresh, wallet, sent, kills, changes>>

\* Leaving message_communication, by return or by exception: device, which was
\* declared last, is destroyed first.
DestroyDevice(p) ==
  /\ host[p].at = "leaving"
  /\ Becomes(p, [host[p] EXCEPT !.at = "closed", !.dev = NoPath, !.handle = NoPath])
  /\ Release(host[p].handle)
  /\ UNCHANGED <<bus, fresh, sent, kills, changes>>

\* Mutant: kernel is declared after device.
DestroyKernelFirst(p) ==
  /\ host[p].at \in {"leaving", "closed"}
  /\ Becomes(p, IF host[p].failed \/ host[p].job = "list"
                  THEN [Off EXCEPT !.handle = host[p].handle]
                  ELSE [host[p] EXCEPT !.at = "idle", !.library = FALSE])
  /\ UNCHANGED <<bus, fresh, wallet, sent, kills, changes>>

\* Mutant: the exception is swallowed, and the dialogue sends its message again.
DestroyKernelRetries(p) ==
  /\ host[p].at = "closed"
  /\ Becomes(p, IF host[p].job = "list"
                  THEN Off
                  ELSE [host[p] EXCEPT !.at = "idle", !.library = FALSE, !.failed = FALSE])
  /\ UNCHANGED <<bus, fresh, wallet, sent, kills, changes>>

\* kernel::~kernel calls hid_exit; an exception, or list_usb, ends the process.
DestroyKernel(p) ==
  /\ host[p].at = "closed"
  /\ Becomes(p, IF host[p].failed \/ host[p].job = "list"
                  THEN Off
                  ELSE [host[p] EXCEPT !.at = "idle", !.library = FALSE])
  /\ UNCHANGED <<bus, fresh, wallet, sent, kills, changes>>

\* The dialogue is over, and main returns.
Return(p) ==
  /\ host[p].at = "idle"
  /\ Becomes(p, Off)
  /\ UNCHANGED <<bus, fresh, wallet, sent, kills, changes>>

\* The process is killed, and the system closes its handle.
Kill(p) ==
  /\ host[p].at # "off"
  /\ kills < MaxKills
  /\ kills' = kills + 1
  /\ Disturbs(p, Off)
  /\ Release(host[p].handle)
  /\ UNCHANGED <<bus, fresh, sent, changes>>

-----------------------------------------------------------------------------
(* The wallets *)

\* A wallet handles the next message; its answer may be a question.
Answer(w) ==
  /\ Contains(bus, w)
  /\ wallet[w].in # <<>>
  /\ wallet' = [wallet EXCEPT ![w] = [in    |-> Tail(@.in),
                                      out   |-> Append(@.out, Head(@.in)),
                                      asked |-> Head(@.in)]]
  /\ UNCHANGED <<host, bus, fresh, sent, kills, changes>>

Uncalmed == [q \in Processes |-> [host[q] EXCEPT !.calm = FALSE]]

\* A wallet is plugged in; the system may list it before the others.
Plug(w) ==
  /\ w \in fresh
  /\ changes < MaxChanges
  /\ changes' = changes + 1
  /\ fresh' = fresh \ {w}
  /\ \E i \in 1 .. Len(bus) + 1 : bus' = InsertAt(bus, i, w)
  /\ host' = Uncalmed
  /\ UNCHANGED <<wallet, sent, kills>>

Unplug(w) ==
  /\ changes < MaxChanges
  /\ changes' = changes + 1
  /\ \E i \in 1 .. Len(bus) : bus[i] = w /\ bus' = RemoveAt(bus, i)
  /\ host' = Uncalmed
  /\ UNCHANGED <<fresh, wallet, sent, kills>>

-----------------------------------------------------------------------------
\* What a process does by itself once it has made a kernel.
HostStep(p) ==
  \/ Enumerate(p) \/ Open(p) \/ Throws(p) \/ Write(p) \/ Read(p) \/ CallThrows(p)
  \/ Decode(p) \/ DestroyDevice(p) \/ DestroyKernel(p)

Next ==
  \/ \E p \in Processes : \/ Start(p) \/ ListUsb(p) \/ MakeKernel(p) \/ HostStep(p)
                          \/ Return(p) \/ Kill(p)
  \/ \E w \in Paths : Answer(w) \/ Plug(w) \/ Unplug(w)

Spec == Init /\ [][Next]_vars

\* Wallets that are plugged in answer, and processes run.
FairSpec ==
  /\ Spec
  /\ \A p \in Processes : WF_vars(HostStep(p))
  /\ \A w \in Paths : WF_vars(Answer(w))

-----------------------------------------------------------------------------
(* Properties *)

Ids == 1 .. MaxMessages

Hosts ==
  [at : {"off", "idle", "made", "listed", "opened", "written", "answered",
         "leaving", "closed"},
   job : {"message", "list"}, library : BOOLEAN,
   dev : Paths \union {NoPath}, handle : Paths \union {NoPath},
   id : 0 .. MaxMessages, reply_to : 0 .. MaxMessages, got : 0 .. MaxMessages,
   failed : BOOLEAN, calm : BOOLEAN]

\* Where a handle is held: from open to ~device; after an exception it may be.
Holds(h) ==
  /\ h.at \in {"opened", "written", "answered"} => h.handle # NoPath
  /\ h.at \in {"off", "idle", "made", "listed", "closed"} => h.handle = NoPath

\* Type invariant; a handle is only held from open to the destructor.
TypeOK ==
  /\ host \in [Processes -> Hosts]
  /\ bus \in Seq(Paths)
  /\ fresh \subseteq Paths
  /\ wallet \in [Paths -> [in : Seq(Ids), out : Seq(Ids), asked : 0 .. MaxMessages]]
  /\ sent \in 0 .. MaxMessages
  /\ kills \in 0 .. MaxKills
  /\ changes \in 0 .. MaxChanges
  /\ \A p \in Processes : Holds(host[p])

\* hidapi is never shut down under an open handle, on whatever path a message
\* is left: device is destroyed before kernel (message_communication, ~kernel).
LibraryOutlivesHandle ==
  \A p \in Processes : host[p].handle # NoPath => host[p].library

\* As long as no process has been killed, what call returns is the answer to
\* the very message it wrote: although processes share the wallets and nothing
\* but the open handle keeps them apart, none leaves an answer behind for the
\* next one (message_communication, call).
OwnAnswer ==
  kills = 0 =>
    \A p \in Processes : host[p].at = "answered" => host[p].got = host[p].id

\* A process that is killed leaves one exchange behind at most, and nothing else
\* leaves any: an answer that is read is at most as many messages old as
\* processes were killed, and the lag never grows by itself (call,
\* message_communication).
LeftByTheKilled ==
  \A w \in Paths : Contains(bus, w) =>
    LET pending == Len(wallet[w].in) + Len(wallet[w].out)
    IN  /\ pending <= kills + 1
        /\ pending = kills + 1 =>
             \E p \in Processes : host[p].at = "written" /\ host[p].handle = w

\* In a dialogue nobody disturbs, each message reaches the wallet that asked
\* for it, as the first one after the question: enumerating and opening anew
\* for every message loses nothing (message_communication).
ReachesTheAsker ==
  [][\A p \in Processes :
       Write(p) /\ host[p].calm /\ host[p].reply_to # 0 =>
         /\ wallet[host[p].handle].asked = host[p].reply_to
         /\ wallet[host[p].handle].in = <<>>]_vars

\* What there is of a dialogue between process p and a wallet, while calm.
Talk(p) ==
  LET h == host[p]
  IN  IF ~h.calm \/ h.failed
        THEN [turn |-> "none", wallet |-> NoPath, message |-> 0]
      ELSE IF h.at \in {"written", "answered"}
        THEN [turn    |-> IF h.at = "written" /\ wallet[h.handle].in # <<>>
                            THEN "wallet" ELSE "answer",
              wallet  |-> h.handle,
              message |-> h.id]
      ELSE [turn    |-> "process",
            wallet  |-> IF h.reply_to = 0 THEN NoPath ELSE bus[1],
            message |-> h.reply_to]

Undisturbed == INSTANCE Dialogue WITH
  Wallets <- Paths, NoWallet <- NoPath, Messages <- Ids,
  talk <- [p \in Processes |-> Talk(p)], asked <- [w \in Paths |-> wallet[w].asked]

\* While nobody disturbs it, a dialogue is one with a single wallet, in turns:
\* the wallet handles each message once, and only in its turn, and the process
\* hears the answer to what it said before it says more; although each message
\* makes a kernel, enumerates and opens anew (message_communication, call).
FollowsDialogue == Undisturbed!Spec

\* Every handle is given back (~device, call).
HandleReleased ==
  \A p \in Processes : (host[p].handle # NoPath) ~> (host[p].handle = NoPath)

\* messages.proto: the message before a TxAck is the TxRequest it replies to.
\* Violated where a disturbed dialogue goes on.
RepliesReachTheAsker ==
  [][\A p \in Processes :
       Write(p) /\ host[p].reply_to # 0 =>
         wallet[host[p].handle].asked = host[p].reply_to]_vars
=============================================================================
