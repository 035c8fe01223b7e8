-------------------------------- MODULE Wire --------------------------------
(***************************************************************************)
(* device_kernel::call over wire::message and wire::device: the message is *)
(* written report by report, then the answer is read byte range by byte    *)
(* range out of read_buffer, which buffer_report refills with one report   *)
(* whenever it is empty.                                                   *)
(*                                                                         *)
(* The wallet is external: it joins the reports it gets, answers a         *)
(* complete message, and cuts its answer into reports as it likes.         *)
(***************************************************************************)
EXTENDS WireData

CONSTANTS
  Requests,      (* Messages the host sends.                               *)
  Replies,       (* Messages the wallet answers with.                      *)
  Cuts,          (* Bound: how many bytes the wallet puts into a report.   *)
  MaxPending,    (* Bound: reports under way in one direction.             *)
  MaxCalls,      (* Bound: calls in a run.                                 *)
  MaxFailures,   (* Bound: failed transfers in a run.                      *)
  NoMessage,
  Thrown,        (* What a call returns that throws.                       *)
  Transient      (* Whether a transfer can fail with the wallet plugged in.*)

ASSUME CallAssumption ==
  /\ Requests \subseteq Messages /\ Replies \subseteq Messages
  /\ Cuts \subseteq 1 .. PayloadSize /\ MaxPending \in Nat \ {0}
  /\ MaxCalls \in Nat /\ MaxFailures \in Nat
  /\ NoMessage \notin Messages /\ Thrown \notin Messages
  /\ NoMessage \notin [request : Messages, reply : Messages]
  /\ Transient \in BOOLEAN

\* The four bytes of the header can say how long a message is, and the wallet
\* sends none that read_from refuses.
ASSUME SizeAssumption ==
  /\ MaxSize < Base * Base * Base * Base
  /\ \A m \in Requests : Len(m.data) < Base * Base * Base * Base
  /\ \A m \in Replies : Len(m.data) <= MaxSize

VARIABLES
  pc,           (* Where call is: idle, write, or the phase of read_from.  *)
  opened,       (* Whether device_kernel::device holds a handle.           *)
  read_buffer,  (* wire::device::read_buffer.                              *)
  buf,          (* Bytes device::write has left to write.                  *)
  data,         (* Bytes the running read_buffered has read ...            *)
  want,         (* ... and how many it has left to read.                   *)
  msg_in,       (* The message of the call.                                *)
  msg_out,      (* The message read so far: its id once the header is in.  *)
  result,       (* What the last call did.                                 *)
  to_wallet,    (* Reports written and not yet taken by the wallet.        *)
  to_host,      (* Reports of the wallet not yet read.                     *)
  wallet,       (* The wallet: bytes it has joined, bytes left to send.    *)
  calls,        (* Number of calls made.                                   *)
  failures,     (* Number of transfers that failed.                        *)
  clean,        (* History: no failure has left the wallet in mid-message. *)
  served        (* History: what the wallet answered in this call.         *)

hostVars   == <<pc, opened, read_buffer, buf, data, want, msg_in, msg_out, result>>
walletVars == <<to_wallet, to_host, wallet, served>>
vars == <<hostVars, walletVars, calls, failures, clean>>

Idle == [received |-> <<>>, sending |-> <<>>]

-----------------------------------------------------------------------------
(* The host *)

Init ==
  /\ pc = "idle"
  /\ opened = FALSE
  /\ read_buffer = <<>> /\ buf = <<>> /\ data = <<>> /\ want = 0
  /\ msg_in = NoMessage /\ msg_out = NoMessage
  /\ result = NoMessage
  /\ to_wallet = <<>> /\ to_host = <<>>
  /\ wallet = Idle
  /\ calls = 0 /\ failures = 0
  /\ clean = TRUE
  /\ served = NoMessage

\* call opens the device unless it is open, and starts to write.
Call(m) ==
  /\ pc = "idle"
  /\ calls < MaxCalls
  /\ calls' = calls + 1
  /\ opened' = TRUE
  /\ read_buffer' = IF opened THEN read_buffer ELSE <<>>
  /\ msg_in' = m
  /\ buf' = Encode(m)
  /\ pc' = "write"
  /\ result' = NoMessage
  /\ served' = NoMessage
  /\ UNCHANGED <<data, want, msg_out, to_wallet, to_host, wallet, failures, clean>>

\* open() throws before the try block: there is no handle to close.
OpenThrows ==
  /\ pc = "idle"
  /\ ~opened
  /\ calls < MaxCalls
  /\ calls' = calls + 1
  /\ result' = Thrown
  /\ served' = NoMessage
  /\ UNCHANGED <<pc, opened, read_buffer, buf, data, want, msg_in, msg_out,
                 to_wallet, to_host, wallet, failures, clean>>

\* The owner closes the device between two calls, or drops it.
Close ==
  /\ pc = "idle"
  /\ opened
  /\ opened' = FALSE
  /\ read_buffer' = <<>>
  /\ UNCHANGED <<pc, buf, data, want, msg_in, msg_out, result, walletVars, calls,
                 failures, clean>>

\* The next read_buffered, for n bytes.
Read(phase, n) ==
  /\ pc' = phase
  /\ want' = n
  /\ data' = <<>>

\* The catch block of call: close the handle and rethrow.
CloseAndThrow ==
  /\ pc' = "idle"
  /\ opened' = FALSE
  /\ read_buffer' = <<>>
  /\ result' = Thrown
  /\ buf' = <<>> /\ data' = <<>> /\ want' = 0
  /\ msg_in' = NoMessage /\ msg_out' = NoMessage

\* write_report, and write again while it has not taken all.
WriteReport ==
  /\ pc = "write"
  /\ Len(to_wallet) < MaxPending
  /\ to_wallet' = Append(to_wallet, ReportOf(buf))
  /\ buf' = Rest(buf, Minimum(PayloadSize, Len(buf)))
  /\ IF buf' = <<>>
       THEN Read("sync", 1)
       ELSE UNCHANGED <<pc, want, data>>
  /\ UNCHANGED <<opened, read_buffer, msg_in, msg_out, result, to_host, wallet,
                 calls, failures, clean, served>>

Phases == {"sync", "mark", "header", "body"}

\* read_buffered finds the buffer empty and waits for a report.
BufferReport ==
  /\ pc \in Phases
  /\ read_buffer = <<>>
  /\ to_host # <<>>
  /\ read_buffer' = Payload(Head(to_host))
  /\ to_host' = Tail(to_host)
  /\ UNCHANGED <<pc, opened, buf, data, want, msg_in, msg_out, result, to_wallet,
                 wallet, calls, failures, clean, served>>

\* Nothing within 50 ms: buffer_report tries again, without end.
PollAgain ==
  /\ pc \in Phases
  /\ read_buffer = <<>>
  /\ to_host = <<>>
  /\ UNCHANGED vars

\* read_report_form_buffer; read_buffered goes on if it has not got all.
ReadFromBuffer ==
  /\ pc \in Phases
  /\ read_buffer # <<>>
  /\ LET n   == Minimum(Len(read_buffer), want)
         got == data \o First(read_buffer, n)
     IN  /\ read_buffer' = Rest(read_buffer, n)
         /\ \/ /\ n < want
               /\ data' = got
               /\ want' = want - n
               /\ UNCHANGED <<pc, opened, buf, msg_in, msg_out, result>>
            \/ /\ n = want /\ pc = "sync"
               /\ Read(IF got[1] = Mark THEN "mark" ELSE "sync", 1)
               /\ UNCHANGED <<opened, buf, msg_in, msg_out, result>>
            \/ /\ n = want /\ pc = "mark" /\ got[1] = Mark
               /\ Read("header", HeaderSize)
               /\ UNCHANGED <<opened, buf, msg_in, msg_out, result>>
            \/ /\ n = want /\ pc = "header" /\ ~TooBig(got)
               /\ Read("body", SizeOf(got))
               /\ msg_out' = [id |-> IdOf(got), data |-> <<>>]
               /\ UNCHANGED <<opened, buf, msg_in, result>>
            \/ /\ n = want /\ pc = "body"
               /\ pc' = "idle" /\ data' = <<>> /\ want' = 0
               /\ result' = [msg_out EXCEPT !.data = got]
               /\ msg_in' = NoMessage /\ msg_out' = NoMessage
               /\ UNCHANGED <<opened, buf>>
  /\ UNCHANGED <<walletVars, calls, failures, clean>>

\* "header bytes are malformed", "message is too big".
HeaderThrows ==
  /\ pc \in {"mark", "header"}
  /\ read_buffer # <<>>
  /\ LET n   == Minimum(Len(read_buffer), want)
         got == data \o First(read_buffer, n)
     IN  /\ n = want
         /\ IF pc = "mark" THEN got[1] # Mark ELSE TooBig(got)
  /\ CloseAndThrow
  /\ UNCHANGED <<walletVars, calls, failures, clean>>

\* A report cannot be written or read, because the wallet was unplugged (it
\* comes back with nothing pending) or, if Transient, with the wallet as it is.
TransferFails ==
  /\ pc = "write" \/ (pc \in Phases /\ read_buffer = <<>>)
  /\ failures < MaxFailures
  /\ failures' = failures + 1
  /\ CloseAndThrow
  /\ \/ /\ to_wallet' = <<>> /\ to_host' = <<>>
        /\ wallet' = Idle
        /\ clean' = TRUE
     \/ /\ Transient
        /\ clean' = FALSE
        /\ UNCHANGED <<to_wallet, to_host, wallet>>
  /\ UNCHANGED <<calls, served>>

-----------------------------------------------------------------------------
(* The wallet *)

\* It joins the payloads; bytes that do not begin a message are dropped.
WalletTakes ==
  /\ to_wallet # <<>>
  /\ LET joined == wallet.received \o First(Head(to_wallet).payload, Head(to_wallet).size)
         begins == First(joined, Minimum(2, Len(joined)))
     IN  wallet' = [wallet EXCEPT !.received =
                      IF \A i \in 1 .. Len(begins) : begins[i] = Mark THEN joined ELSE <<>>]
  /\ to_wallet' = Tail(to_wallet)
  /\ UNCHANGED <<hostVars, to_host, calls, failures, clean, served>>

\* It answers the message it has received in full.
WalletServes(reply) ==
  LET header == Rest(wallet.received, 2)
      size   == SizeOf(header)
  IN  /\ wallet.sending = <<>>
      /\ Len(wallet.received) >= 2 + HeaderSize
      /\ Len(header) >= HeaderSize + size
      /\ wallet' = [received |-> <<>>, sending |-> Encode(reply)]
      /\ served' = [request |-> [id   |-> IdOf(header),
                                 data |-> First(Rest(header, HeaderSize), size)],
                    reply   |-> reply]
      /\ UNCHANGED <<hostVars, to_wallet, to_host, calls, failures, clean>>

\* It sends the next bytes of its answer, up to cut of them, in a report that
\* holds just those, one whose length byte ends them, or, for the last ones,
\* one filled up.
WalletSends(cut) ==
  LET n      == Minimum(cut, Len(wallet.sending))
      bytes  == First(wallet.sending, n)
      filled == [i \in 1 .. PayloadSize |-> IF i <= n THEN bytes[i] ELSE 0]
  IN  /\ wallet.sending # <<>>
      /\ Len(to_host) < MaxPending
      /\ \/ to_host' = Append(to_host, [size |-> PayloadSize, payload |-> bytes])
         \/ to_host' = Append(to_host, [size |-> n, payload |-> filled])
         \/ /\ n = Len(wallet.sending)
            /\ to_host' = Append(to_host, [size |-> PayloadSize, payload |-> filled])
      /\ wallet' = [wallet EXCEPT !.sending = Rest(@, n)]
      /\ UNCHANGED <<hostVars, to_wallet, calls, failures, clean, served>>

-----------------------------------------------------------------------------
HostStep   == WriteReport \/ BufferReport \/ ReadFromBuffer \/ HeaderThrows
WalletStep == \/ WalletTakes
              \/ \E reply \in Replies : WalletServes(reply)
              \/ \E cut \in Cuts : WalletSends(cut)

Finished == pc = "idle" /\ calls = MaxCalls /\ UNCHANGED vars

Next ==
  \/ \E m \in Requests : Call(m)
  \/ OpenThrows \/ Close
  \/ HostStep
  \/ PollAgain
  \/ TransferFails
  \/ WalletStep
  \/ Finished

Spec == Init /\ [][Next]_vars

\* The host polls without end, and the wallet answers what it has received.
FairSpec == Spec /\ WF_vars(HostStep) /\ WF_vars(WalletStep)
-----------------------------------------------------------------------------
(* Properties *)

\* Type invariant.
TypeOK ==
  /\ pc \in {"idle", "write"} \union Phases
  /\ opened \in BOOLEAN
  /\ read_buffer \in Seq(Bytes) /\ buf \in Seq(Bytes) /\ data \in Seq(Bytes)
  /\ want \in Nat
  /\ msg_in \in Requests \union {NoMessage}
  /\ msg_out \in Messages \union {NoMessage}
  /\ result \in Messages \union {NoMessage, Thrown}
  /\ to_wallet \in Seq(Reports) /\ to_host \in Seq(Reports)
  /\ wallet \in [received : Seq(Bytes), sending : Seq(Bytes)]
  /\ calls \in 0 .. MaxCalls /\ failures \in 0 .. MaxFailures
  /\ clean \in BOOLEAN
  /\ served \in [request : Messages, reply : Replies] \union {NoMessage}

\* As long as no failed transfer has left the wallet in mid-message, the
\* wallet takes exactly the message of the call, and the call returns exactly
\* the wallet's answer, however both are cut into reports and whatever
\* padding a call before has left in read_buffer (write_to, read_from).
AnswerIntact ==
  clean =>
    /\ served # NoMessage /\ pc # "idle" => served.request = msg_in
    /\ pc = "idle" /\ result \notin {NoMessage, Thrown} => result = served.reply

\* read_buffer never holds more than one report, and read_from never asks
\* for more than a header or max_size bytes -- also after a failure, when
\* what it takes for a header is not one (read_buffered, buffer_report).
BufferBounded ==
  /\ Len(read_buffer) <= PayloadSize
  /\ Len(data) + want <= IF pc = "body" THEN MaxSize ELSE HeaderSize

\* Between two calls only padding is left over on an open handle: nothing the
\* next call could take for a header (read_from, call).
OnlyPaddingLeft ==
  clean /\ pc = "idle" =>
    /\ to_host = <<>>
    /\ \A i \in 1 .. Len(read_buffer) : read_buffer[i] # Mark

\* read_buffered calls buffer_report for an empty body, too, if the header
\* was the last of its report: it waits for a report that need not come.
AwaitsEmptyBody == pc = "body" /\ want = 0 /\ read_buffer = <<>>

\* Every call returns or throws, as long as the wallet answers; but for an
\* empty body that ends with its report (call, read_buffered).
CallEnds == (pc # "idle") ~> (pc = "idle" \/ AwaitsEmptyBody)

\* call implements Call: a wallet that is only ever unplugged serves a message
\* once, and its answer is what the caller gets.
Promise == INSTANCE Call WITH
  calling <- msg_in,
  served  <- IF pc = "idle" THEN NoMessage ELSE served

KeepsPromise == Promise!Spec
=============================================================================
