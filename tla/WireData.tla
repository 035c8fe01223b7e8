------------------------------ MODULE WireData ------------------------------
(***************************************************************************)
(* The wire format: how wire::message becomes bytes and how bytes travel   *)
(* in HID reports (wire.hpp).                                              *)
(*                                                                         *)
(* A message is an id and a body.  On the wire it is two marks ('#'), the  *)
(* id in two bytes and the size of the body in four, most significant      *)
(* first, and the body.  The bytes travel in reports of up to PayloadSize  *)
(* bytes, each behind a length byte.  A byte has a value below Base.       *)
(***************************************************************************)
EXTENDS Integers, Sequences

CONSTANTS
  Base,         (* Number of values of a byte (256).                       *)
  Mark,         (* The byte '#'.                                           *)
  PayloadSize,  (* report.size() - 1 (63).                                 *)
  MaxSize       (* max_size of read_from (1 MB).                           *)

ASSUME WireAssumption ==
  /\ Base \in Nat /\ Mark \in 1 .. Base - 1
  /\ PayloadSize \in Nat \ {0}
  /\ MaxSize \in Nat

Bytes    == 0 .. Base - 1
Messages == [id : 0 .. Base * Base - 1, data : Seq(Bytes)]

\* A report: its length byte, and the bytes that follow it.
Reports == [size : 0 .. PayloadSize, payload : Seq(Bytes)]

Minimum(a, b) == IF a <= b THEN a ELSE b
First(s, n)   == SubSeq(s, 1, n)
Rest(s, n)    == SubSeq(s, n + 1, Len(s))

-----------------------------------------------------------------------------
\* htons, htonl: the most significant byte comes first.
IdBytes(n) == <<n \div Base, n % Base>>
SizeBytes(n) ==
  <<n \div (Base * Base * Base), (n \div (Base * Base)) % Base,
    (n \div Base) % Base, n % Base>>

\* ntohs, ntohl
IdOf(h)   == h[1] * Base + h[2]
SizeOf(h) == ((h[3] * Base + h[4]) * Base + h[5]) * Base + h[6]

\* Mutant: no size is refused.
TooBigNever(h) == FALSE

\* read_from refuses the message.
TooBig(h) == SizeOf(h) > MaxSize

HeaderSize == 6

\* What write_to hands to device::write.
Encode(m) == <<Mark, Mark>> \o IdBytes(m.id) \o SizeBytes(Len(m.data)) \o m.data

\* Mutant: the length byte counts itself, as in report[0] = report.size().
ReportOfWhole(bytes) ==
  LET n == Minimum(PayloadSize, Len(bytes))
  IN  [size    |-> PayloadSize + 1,
       payload |-> [i \in 1 .. PayloadSize |-> IF i <= n THEN bytes[i] ELSE 0]]

\* write_report: the first bytes, filled up with zeros; the length byte says
\* PayloadSize whatever was copied.
ReportOf(bytes) ==
  LET n == Minimum(PayloadSize, Len(bytes))
  IN  [size    |-> PayloadSize,
       payload |-> [i \in 1 .. PayloadSize |-> IF i <= n THEN bytes[i] ELSE 0]]

\* Mutants: the length byte is ignored; it is believed to count itself.
PayloadWhole(report)    == report.payload
PayloadOffByOne(report) == First(report.payload, Minimum(report.size, Len(report.payload) - 1))

\* buffer_report: the length byte counts, but no further than what arrived.
Payload(report) == First(report.payload, Minimum(report.size, Len(report.payload)))
=============================================================================
