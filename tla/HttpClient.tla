----------------------------- MODULE HttpClient -----------------------------
(***************************************************************************)
(* http_client_request_data (http_client.hpp, common_msg.hpp): download    *)
(* the page of a transaction with libcurl, collect the body in a stream,   *)
(* parse it into url_data.                                                 *)
(*                                                                         *)
(* libcurl and the block explorer are external.  curl_easy_perform hands   *)
(* the body to write_to_stream in chunks; it gives up connecting after     *)
(* CURLOPT_CONNECTTIMEOUT, and is told of no other limit.  Whether it can  *)
(* tell that a body was cut short depends on the response: one that says   *)
(* its length, or chunks it, fails; one that ends where the server closes  *)
(* the connection looks complete.  A page is a sequence of pieces.         *)
(***************************************************************************)
EXTENDS Integers, Sequences, SequencesExt

CONSTANTS
  Pages,          (* What the explorer may have at the url, errors too.    *)
  Open, Close,    (* The pieces a JSON document begins and ends with.      *)
  ConnectTimeout  (* CURLOPT_CONNECTTIMEOUT, in seconds.                   *)

ASSUME HttpClientAssumption ==
  /\ \A page \in Pages : page \in Seq(STRING)
  /\ ConnectTimeout \in Nat \ {0}

\* A page that begins with Open is one JSON document: nothing follows the piece
\* that closes it (a blank there is part of that piece), and the braces of a
\* nested object are within a piece.
ASSUME PagesAssumption ==
  \A page \in Pages :
    page # <<>> /\ Head(page) = Open =>
      \A i \in 1 .. Len(page) - 1 : page[i] # Close

VARIABLES
  pc,        (* Where request_url_to_stream, or its caller, is.            *)
  handles,   (* CURL easy handles that live.                               *)
  waited,    (* Seconds spent connecting.                                  *)
  stream,    (* The body received.                                         *)
  res,       (* The result of curl_easy_perform.                           *)
  url_data,  (* Global: the parsed page.                                   *)
  server     (* The page, how much of it was sent, whether its length was. *)

vars == <<pc, handles, waited, stream, res, url_data, server>>

Init ==
  /\ pc = "start"
  /\ handles = 0 /\ waited = 0
  /\ stream = <<>> /\ url_data = <<>>
  /\ res = "none"
  /\ server \in [page : Pages, given : {0}, length : BOOLEAN]

-----------------------------------------------------------------------------
(* request_url_to_stream *)

EasyInit ==
  /\ pc = "start"
  /\ handles' = handles + 1
  /\ pc' = "connecting"
  /\ UNCHANGED <<waited, stream, res, url_data, server>>

\* curl_easy_init returns a null pointer.
EasyInitFails ==
  /\ pc = "start"
  /\ pc' = "failed"
  /\ UNCHANGED <<handles, waited, stream, res, url_data, server>>

\* curl_easy_perform returns r.
Performed(r) == pc' = "performed" /\ res' = r

Connects ==
  /\ pc = "connecting"
  /\ pc' = "receiving"
  /\ UNCHANGED <<handles, waited, stream, res, url_data, server>>

\* No such host, or nobody listens.
ConnectFails ==
  /\ pc = "connecting"
  /\ Performed("couldnt_connect")
  /\ UNCHANGED <<handles, waited, stream, url_data, server>>

\* A second passes without an answer.
ConnectWaits ==
  /\ pc = "connecting"
  /\ waited < ConnectTimeout
  /\ waited' = waited + 1
  /\ UNCHANGED <<pc, handles, stream, res, url_data, server>>

\* Mutant: no time limit is set.
ConnectTimesOutNever ==
  /\ pc = "connecting"
  /\ waited > ConnectTimeout
  /\ Performed("timedout")
  /\ UNCHANGED <<handles, waited, stream, url_data, server>>

ConnectTimesOut ==
  /\ pc = "connecting"
  /\ waited = ConnectTimeout
  /\ Performed("timedout")
  /\ UNCHANGED <<handles, waited, stream, url_data, server>>

\* Mutant: at most two pieces of a chunk are written, and all reported taken.
WriteToStreamShort ==
  /\ pc = "receiving"
  /\ \E n \in 1 .. Len(server.page) - server.given :
       /\ stream' = stream \o SubSeq(server.page, server.given + 1,
                                    server.given + (IF n < 2 THEN n ELSE 2))
       /\ server' = [server EXCEPT !.given = @ + n]
  /\ UNCHANGED <<pc, handles, waited, res, url_data>>

\* write_to_stream takes a chunk of whatever size libcurl has received.
WriteToStream ==
  /\ pc = "receiving"
  /\ \E n \in 1 .. Len(server.page) - server.given :
       /\ stream' = stream \o SubSeq(server.page, server.given + 1, server.given + n)
       /\ server' = [server EXCEPT !.given = @ + n]
  /\ UNCHANGED <<pc, handles, waited, res, url_data>>

\* The body is there, or the server closes the connection before and libcurl
\* cannot tell the difference.
TransferEnds ==
  /\ pc = "receiving"
  /\ server.given = Len(server.page) \/ ~server.length
  /\ Performed("ok")
  /\ UNCHANGED <<handles, waited, stream, url_data, server>>

\* The connection breaks, or the server closes it and the length is known.
TransferFails ==
  /\ pc = "receiving"
  /\ server.given < Len(server.page)
  /\ Performed("partial_file")
  /\ UNCHANGED <<handles, waited, stream, url_data, server>>

\* Mutant: the result is checked before curl_easy_cleanup.
EasyCleanupIfOk ==
  /\ pc = "performed"
  /\ handles' = IF res = "ok" THEN handles - 1 ELSE handles
  /\ pc' = IF res = "ok" THEN "received" ELSE "failed"
  /\ UNCHANGED <<waited, stream, res, url_data, server>>

\* curl_easy_cleanup; then a result other than CURLE_OK throws.
EasyCleanup ==
  /\ pc = "performed"
  /\ handles' = handles - 1
  /\ pc' = IF res = "ok" THEN "received" ELSE "failed"
  /\ UNCHANGED <<waited, stream, res, url_data, server>>

-----------------------------------------------------------------------------
(* http_client_request_data *)

\* reader.parse finds a document; it does not look behind it.
IsDocument(s) == s # <<>> /\ Head(s) = Open /\ Contains(s, Close)

Parse ==
  /\ pc = "received"
  /\ IsDocument(stream)
  /\ url_data' = stream
  /\ pc' = "done"
  /\ UNCHANGED <<handles, waited, stream, res, server>>

ParseFails ==
  /\ pc = "received"
  /\ ~IsDocument(stream)
  /\ pc' = "failed"
  /\ UNCHANGED <<handles, waited, stream, res, url_data, server>>

Finished == pc \in {"done", "failed"} /\ UNCHANGED vars

-----------------------------------------------------------------------------
\* What the process and libcurl do by themselves.
Runs ==
  \/ EasyInit \/ EasyInitFails \/ ConnectWaits \/ ConnectTimesOut
  \/ EasyCleanup \/ Parse \/ ParseFails

\* What the network and the server do.
Transfer == WriteToStream \/ TransferEnds \/ TransferFails

Next == Runs \/ Connects \/ ConnectFails \/ Transfer \/ Finished

Spec == Init /\ [][Next]_vars

\* The process runs and time passes; the server owes it nothing.
FairSpec == Spec /\ WF_vars(Runs)

-----------------------------------------------------------------------------
(* Properties *)

\* Type invariant.
TypeOK ==
  /\ pc \in {"start", "connecting", "receiving", "performed", "received", "done", "failed"}
  /\ handles \in 0 .. 1
  /\ waited \in 0 .. ConnectTimeout
  /\ res \in {"none", "ok", "couldnt_connect", "timedout", "partial_file"}
  /\ server \in [page : Pages, given : Nat, length : BOOLEAN]
  /\ server.given <= Len(server.page)
  /\ stream = SubSeq(server.page, 1, server.given)
  /\ url_data \in {<<>>} \union Pages

\* A transaction is never signed against half a page: in whatever chunks it
\* came, and whether or not libcurl could tell that the rest was missing, what
\* is parsed is the page as the server has it (request_url_to_stream,
\* http_client_request_data).
WholePageOrThrown == pc = "done" => url_data = server.page

\* A download that is over, by whatever failure, has given its handle back
\* (curl_easy_cleanup before the throw).
HandleCleaned == pc \in {"received", "done", "failed"} => handles = 0

\* A server that does not answer at all does not hold the command up for good
\* (CURLOPT_CONNECTTIMEOUT).
GivesUpConnecting == (pc = "connecting") ~> (pc # "connecting")
=============================================================================
