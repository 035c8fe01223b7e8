-------------------------- MODULE HttpClientProofs --------------------------
(***************************************************************************)
(* Proofs about HttpClient, for every set of pages and every way to cut    *)
(* them into chunks: what is parsed is the whole page, and the handle is   *)
(* given back.                                                             *)
(***************************************************************************)
EXTENDS HttpClient, SequenceTheorems, TLAPS

\* The handle lives from curl_easy_init to curl_easy_cleanup, and nowhere else.
HandleLives ==
  handles = IF pc \in {"connecting", "receiving", "performed"} THEN 1 ELSE 0

IInv == TypeOK /\ HandleLives /\ WholePageOrThrown

-----------------------------------------------------------------------------
(* The stream *)

\* A page is a sequence.
LEMMA PageIsSeq ==
  ASSUME NEW page \in Pages
  PROVE  page \in Seq(STRING)
PROOF
  BY HttpClientAssumption

\* A chunk that follows on from the first g pieces makes the first g + n pieces.
LEMMA ChunkFollowsOn ==
  ASSUME NEW page \in Pages, NEW g \in 0 .. Len(page), NEW n \in 1 .. Len(page) - g
  PROVE  SubSeq(page, 1, g) \o SubSeq(page, g + 1, g + n) = SubSeq(page, 1, g + n)
PROOF
<1>1. page \in Seq(STRING) /\ Len(page) \in Nat
  BY PageIsSeq, LenProperties
<1> DEFINE head  == SubSeq(page, 1, g)
           chunk == SubSeq(page, g + 1, g + n)
           whole == SubSeq(page, 1, g + n)
<1>2. /\ head \in Seq(STRING) /\ Len(head) = g
      /\ \A i \in 1 .. g : head[i] = page[i]
  BY <1>1, SubSeqProperties
<1>3. /\ chunk \in Seq(STRING) /\ Len(chunk) = n
      /\ \A i \in 1 .. n : chunk[i] = page[g + i]
  BY <1>1, SubSeqProperties
<1>4. /\ whole \in Seq(STRING) /\ Len(whole) = g + n
      /\ \A i \in 1 .. g + n : whole[i] = page[i]
  BY <1>1, SubSeqProperties
<1> HIDE DEF head, chunk, whole
<1>5. head \o chunk \in Seq(STRING) /\ Len(head \o chunk) = g + n
  BY <1>2, <1>3, ConcatProperties
<1>6. ASSUME NEW i \in 1 .. g + n
      PROVE  (head \o chunk)[i] = whole[i]
  <2>1. CASE i <= g
    <3>1. i \in 1 .. g /\ i \in 1 .. g + n
      BY <2>1
    <3>2. (head \o chunk)[i] = head[i]
      BY <1>2, <1>3, <3>1, ConcatProperties
    <3>3. head[i] = page[i] /\ whole[i] = page[i]
      BY <1>2, <1>4, <3>1
    <3> QED BY <3>2, <3>3, Zenon
  <2>2. CASE i > g
    <3>1. (head \o chunk)[i] = chunk[i - g] /\ i - g \in 1 .. n
      BY <1>2, <1>3, <2>2, ConcatProperties
    <3> QED BY <1>3, <1>4, <3>1
  <2>3. i <= g \/ i > g
    BY <1>1
  <2> QED BY <2>1, <2>2, <2>3, Zenon
<1>7. head \o chunk = whole
  BY <1>4, <1>5, <1>6, SeqEqual
<1> QED BY <1>7 DEF head, chunk, whole

\* What is received of a page is a document only if it is all of it.
LEMMA OnlyTheWholeIsDocument ==
  ASSUME NEW page \in Pages, NEW g \in 0 .. Len(page), IsDocument(SubSeq(page, 1, g))
  PROVE  SubSeq(page, 1, g) = page
PROOF
<1>1. page \in Seq(STRING) /\ Len(page) \in Nat
  BY PageIsSeq, LenProperties
<1> DEFINE part == SubSeq(page, 1, g)
<1>2. /\ part \in Seq(STRING) /\ Len(part) = g
      /\ \A i \in 1 .. g : part[i] = page[i]
  BY <1>1, SubSeqProperties
<1>3. PICK i \in 1 .. Len(part) : part[i] = Close
  BY DEF IsDocument, Contains
<1>4. part # <<>> /\ Head(part) = Open
  BY DEF IsDocument
<1> HIDE DEF part
<1>5. page # <<>> /\ Head(page) = Open
  BY <1>1, <1>2, <1>4, HeadTailProperties, EmptySeq
<1>6. i \notin 1 .. Len(page) - 1
  BY <1>2, <1>3, <1>5, PagesAssumption
<1>7. g = Len(page)
  BY <1>1, <1>2, <1>3, <1>6
<1> QED BY <1>1, <1>2, <1>7, SeqEqual DEF part

-----------------------------------------------------------------------------
(* The invariant *)

LEMMA InitInv == Init => IInv
PROOF
<1> SUFFICES ASSUME Init PROVE IInv
  OBVIOUS
<1>1. server.page \in Pages /\ server.given = 0 /\ server.length \in BOOLEAN
  BY DEF Init
<1>2. server.page \in Seq(STRING) /\ Len(server.page) \in Nat
  BY <1>1, PageIsSeq, LenProperties
<1>3. SubSeq(server.page, 1, 0) = <<>>
  BY <1>2, SubSeqProperties, EmptySeq
<1> QED BY <1>1, <1>2, <1>3, HttpClientAssumption
        DEF Init, IInv, TypeOK, HandleLives, WholePageOrThrown

LEMMA WriteToStreamInv ==
  ASSUME IInv, WriteToStream
  PROVE  IInv'
PROOF
<1>1. PICK n \in 1 .. Len(server.page) - server.given :
        /\ stream' = stream \o SubSeq(server.page, server.given + 1, server.given + n)
        /\ server' = [server EXCEPT !.given = @ + n]
  BY DEF WriteToStream
<1>2. /\ server.page \in Pages /\ server.given \in Nat
      /\ Len(server.page) \in Nat
      /\ server.given \in 0 .. Len(server.page)
  BY PageIsSeq, LenProperties DEF IInv, TypeOK
<1>3. server \in [page : Pages, given : Nat, length : BOOLEAN] /\ server.given + n \in Nat
  BY <1>2 DEF IInv, TypeOK
<1>4. server' = [page |-> server.page, given |-> server.given + n, length |-> server.length]
  BY <1>1, <1>3
<1>5. server.given + n <= Len(server.page)
  BY <1>2
<1>6. stream' = SubSeq(server.page, 1, server.given + n)
  BY <1>1, <1>2, ChunkFollowsOn DEF IInv, TypeOK
<1> QED BY <1>3, <1>4, <1>5, <1>6 DEF WriteToStream, IInv, TypeOK, HandleLives, WholePageOrThrown

LEMMA ParseInv ==
  ASSUME IInv, Parse
  PROVE  IInv'
PROOF
<1>1. server.page \in Pages /\ server.given \in 0 .. Len(server.page)
  BY PageIsSeq, LenProperties DEF IInv, TypeOK
<1>2. stream = server.page
  BY <1>1, OnlyTheWholeIsDocument DEF IInv, TypeOK, Parse
<1> QED BY <1>1, <1>2 DEF Parse, IInv, TypeOK, HandleLives, WholePageOrThrown

LEMMA NextInv == IInv /\ [Next]_vars => IInv'
PROOF
<1> SUFFICES ASSUME IInv, [Next]_vars PROVE IInv'
  OBVIOUS
<1> USE DEF IInv, TypeOK, HandleLives, WholePageOrThrown
<1>1. CASE EasyInit
  BY <1>1 DEF EasyInit
<1>2. CASE EasyInitFails
  BY <1>2 DEF EasyInitFails
<1>3. CASE Connects
  BY <1>3 DEF Connects
<1>4. CASE ConnectFails
  BY <1>4 DEF ConnectFails, Performed
<1>5. CASE ConnectWaits
  BY <1>5, HttpClientAssumption DEF ConnectWaits
<1>6. CASE ConnectTimesOut
  BY <1>6 DEF ConnectTimesOut, Performed
<1>7. CASE WriteToStream
  BY <1>7, WriteToStreamInv
<1>8. CASE TransferEnds
  BY <1>8 DEF TransferEnds, Performed
<1>9. CASE TransferFails
  BY <1>9 DEF TransferFails, Performed
<1>10. CASE EasyCleanup
  BY <1>10 DEF EasyCleanup
<1>11. CASE Parse
  BY <1>11, ParseInv
<1>12. CASE ParseFails
  BY <1>12 DEF ParseFails
<1>13. CASE UNCHANGED vars
  BY <1>13 DEF vars
<1> QED BY <1>1, <1>2, <1>3, <1>4, <1>5, <1>6, <1>7, <1>8, <1>9, <1>10, <1>11, <1>12, <1>13
        DEF Next, Runs, Transfer, Finished

THEOREM Invariance == Spec => []IInv
PROOF
  BY InitInv, NextInv, PTL DEF Spec

-----------------------------------------------------------------------------
(* What it implies *)

\* Every variable has its type, and the stream is the page as far as it was
\* sent: no chunk is lost, doubled or out of place (write_to_stream).
THEOREM TypeCorrect == Spec => []TypeOK
PROOF
  BY Invariance, PTL DEF IInv

\* What a transaction is signed against is the whole page, however it was cut
\* into chunks and cut short (request_url_to_stream, http_client_request_data).
THEOREM WholePage == Spec => []WholePageOrThrown
PROOF
  BY Invariance, PTL DEF IInv

\* A download that is over has given its handle back (curl_easy_cleanup).
THEOREM HandleGivenBack == Spec => []HandleCleaned
PROOF
<1>1. IInv => HandleCleaned
  BY DEF IInv, HandleLives, HandleCleaned
<1> QED BY <1>1, Invariance, PTL
=============================================================================
