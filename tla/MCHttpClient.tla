---------------------------- MODULE MCHttpClient ----------------------------
(***************************************************************************)
(* Small instances of HttpClient: the page of a transaction, a JSON page   *)
(* that reports an error, and pages that are no JSON, one of them empty.   *)
(***************************************************************************)
EXTENDS HttpClient

MCPages ==
  {<<"{", "txid", "vin", "vout", "}">>, <<"{", "error", "}">>,
   <<"<html>", "Not found", "</html>">>, <<>>}
=============================================================================
