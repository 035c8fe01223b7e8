------------------------------- MODULE MCWire -------------------------------
(***************************************************************************)
(* Small instances of Wire: bytes of two bits, reports of four bytes, so   *)
(* that the two marks and the header just fill two reports.                *)
(***************************************************************************)
EXTENDS Wire

MCRequests == {[id |-> 1, data |-> <<3>>], [id |-> 5, data |-> <<>>]}

\* An empty answer, and one whose body looks like the start of a message.
MCReplies == {[id |-> 2, data |-> <<>>], [id |-> 6, data |-> <<3, 3, 1>>]}
=============================================================================
