----------------------------- MODULE WireProofs -----------------------------
(***************************************************************************)
(* Proofs about Wire, for every width of a byte, size of a report, set of  *)
(* messages, way to cut them, and number of calls and failures: the types, *)
(* the bound of the buffer, that what is sent and answered arrives as it   *)
(* is, and that Wire implements Call.                                      *)
(*                                                                         *)
(* Shape says how much there is of what where call is.  Undisturbed says   *)
(* where every byte of the message and of its answer is, as long as no     *)
(* failure has garbled them; it is what makes the answer arrive intact.    *)
(***************************************************************************)
EXTENDS Wire, WireDataProofs

\* What read_buffered has read and has left to read, where call is.
Reading ==
  /\ pc \in {"idle", "write"} => data = <<>> /\ want = 0
  /\ pc \in {"sync", "mark"} => data = <<>> /\ want = 1
  /\ pc = "header" => Len(data) + want = HeaderSize /\ want >= 1
  /\ pc = "body" => Len(data) + want <= MaxSize /\ msg_out \in Messages

\* What is there to write and to answer, where call is.
Calling ==
  /\ msg_in = NoMessage <=> pc = "idle"
  /\ buf # <<>> <=> pc = "write"

\* Whatever the wallet takes or sends is in reports no longer than they may be.
InReports ==
  /\ \A j \in 1 .. Len(to_wallet) : to_wallet[j].size <= Len(to_wallet[j].payload)
  /\ Len(read_buffer) <= PayloadSize

Shape == TypeOK /\ Reading /\ Calling /\ InReports

-----------------------------------------------------------------------------
(* Where the bytes of the call are, unless a failure has garbled them *)

NoMark(bytes) == \A i \in 1 .. Len(bytes) : bytes[i] # Mark

\* Byte i of the reports that m is written in.
Padded(m, i) == IF i <= Len(Encode(m)) THEN Encode(m)[i] ELSE 0

\* A report written of m, from byte o + 1 on.
IsPart(report, m, o) ==
  /\ o < Len(Encode(m))
  /\ report.size = PayloadSize /\ Len(report.payload) = PayloadSize
  /\ \A i \in 1 .. PayloadSize : report.payload[i] = Padded(m, o + i)

\* The number of bytes written, the padding of the last report included.
Written == Len(wallet.received) + Len(to_wallet) * PayloadSize

\* Between two calls nothing is under way, and only padding is left over.
AtRest ==
  /\ to_wallet = <<>> /\ to_host = <<>> /\ wallet = Idle
  /\ NoMark(read_buffer)
  /\ result \in {NoMessage, Thrown} \/ (served # NoMessage /\ result = served.reply)

\* Until the wallet serves it, the message is in what the wallet has received,
\* in the reports under way and in buf, in this order and nowhere else.
Sending ==
  /\ to_host = <<>> /\ wallet.sending = <<>>
  /\ pc \in {"write", "sync"} /\ NoMark(read_buffer)
  /\ \A i \in 1 .. Len(wallet.received) : wallet.received[i] = Padded(msg_in, i)
  /\ \A j \in 1 .. Len(to_wallet) :
       IsPart(to_wallet[j], msg_in, Len(wallet.received) + (j - 1) * PayloadSize)
  /\ Len(buf) = (IF Written < Len(Encode(msg_in)) THEN Len(Encode(msg_in)) - Written ELSE 0)
  /\ \A i \in 1 .. Len(buf) : buf[i] = Encode(msg_in)[Written + i]

\* What read_from has taken of the wallet's answer.
Taken == CASE pc = "sync"   -> 0
           [] pc = "mark"   -> 1
           [] pc = "header" -> 2 + Len(data)
           [] OTHER         -> 2 + HeaderSize + Len(data)

\* These bytes are those of message m behind the first lo, up to hi; and what
\* is behind them is padding at the end of m, or was there before m began.
Carries(bytes, m, lo, hi) ==
  /\ hi - lo <= Len(bytes)
  /\ \A i \in 1 .. hi - lo : bytes[i] = Encode(m)[lo + i]
  /\ \A i \in hi - lo + 1 .. Len(bytes) : bytes[i] # Mark
  /\ hi - lo < Len(bytes) => hi \in {0, Len(Encode(m))}

\* e says where read_buffer and each report under way end in the answer m.
Stream(m, e) ==
  /\ e \in [1 .. Len(to_host) + 1 -> 0 .. Len(Encode(m))]
  /\ Taken <= e[1] /\ Carries(read_buffer, m, Taken, e[1])
  /\ \A j \in 1 .. Len(to_host) :
       e[j] < e[j + 1] /\ Carries(Payload(to_host[j]), m, e[j], e[j + 1])
  /\ Len(wallet.sending) = Len(Encode(m)) - e[Len(to_host) + 1]
  /\ \A i \in 1 .. Len(wallet.sending) :
       wallet.sending[i] = Encode(m)[e[Len(to_host) + 1] + i]

\* What read_from has made of the bytes it has taken.
Understood(m) ==
  /\ pc = "header" => \A i \in 1 .. Len(data) : data[i] = Encode(m)[2 + i]
  /\ pc = "body" => /\ msg_out.id = m.id
                    /\ Len(data) + want = Len(m.data)
                    /\ \A i \in 1 .. Len(data) : data[i] = m.data[i]

\* Once the wallet has served it, its answer is in what read_from has taken,
\* in read_buffer, in the reports under way and in what the wallet has left to
\* send, in this order and nowhere else.
Serving ==
  /\ served \in [request : {msg_in}, reply : Replies]
  /\ pc # "write" /\ to_wallet = <<>> /\ wallet.received = <<>>
  /\ \E e \in [1 .. Len(to_host) + 1 -> 0 .. Len(Encode(served.reply))] :
       Stream(served.reply, e)
  /\ Understood(served.reply)

Undisturbed ==
  clean => /\ pc = "idle" => AtRest
           /\ pc # "idle" /\ served = NoMessage => Sending
           /\ pc # "idle" /\ served # NoMessage => Serving

-----------------------------------------------------------------------------
(* Messages *)

LEMMA RequestFits ==
  ASSUME NEW m \in Requests
  PROVE  Fits(m) /\ m # NoMessage
PROOF
  BY CallAssumption, SizeAssumption DEF Fits

LEMMA ReplyFits ==
  ASSUME NEW m \in Replies
  PROVE  Fits(m) /\ m \in Messages /\ Len(m.data) <= MaxSize
PROOF
<1>1. m \in Messages /\ Len(m.data) <= MaxSize
  BY CallAssumption, SizeAssumption
<1>2. Len(m.data) \in Nat
  BY <1>1, LenProperties DEF Messages
<1>3. Base * Base * Base * Base \in Nat
  BY ByteRange
<1> QED BY <1>1, <1>2, <1>3, SizeAssumption, WireAssumption DEF Fits

\* The first bytes of the buffer that are read.
LEMMA Got ==
  ASSUME NEW S, NEW s \in Seq(S), NEW t \in Seq(S), NEW n \in 0 .. Len(t)
  PROVE  /\ s \o First(t, n) \in Seq(S)
         /\ Len(s \o First(t, n)) = Len(s) + n
         /\ \A i \in 1 .. Len(s) : (s \o First(t, n))[i] = s[i]
         /\ \A i \in 1 .. n : (s \o First(t, n))[Len(s) + i] = t[i]
PROOF
<1>1. PICK f : f = First(t, n)
  OBVIOUS
<1>2. f \in Seq(S) /\ Len(f) = n /\ \A i \in 1 .. n : f[i] = t[i]
  BY <1>1, FirstPart
<1>3. PICK r : r = s \o f
  OBVIOUS
<1>4. f \in Seq(S)
  BY <1>2
<1>5. /\ r \in Seq(S) /\ Len(r) = Len(s) + Len(f)
      /\ \A i \in 1 .. Len(s) : r[i] = s[i]
      /\ \A i \in 1 .. Len(f) : r[Len(s) + i] = f[i]
  BY <1>3, <1>4, Joined
<1>6. /\ r \in Seq(S) /\ Len(r) = Len(s) + n
      /\ \A i \in 1 .. Len(s) : r[i] = s[i]
      /\ \A i \in 1 .. n : r[Len(s) + i] = t[i]
  BY <1>2, <1>5
<1> QED BY <1>1, <1>3, <1>6

-----------------------------------------------------------------------------
(* The type invariant *)

LEMMA NothingYet ==
  /\ <<>> \in Seq(Bytes) /\ <<>> \in Seq(Reports)
  /\ Idle \in [received : Seq(Bytes), sending : Seq(Bytes)]
PROOF
  BY DEF Idle

LEMMA InitShape == Init => Shape
PROOF
<1> SUFFICES ASSUME Init PROVE Shape
  OBVIOUS
<1>1. 0 \in 0 .. MaxCalls /\ 0 \in 0 .. MaxFailures
  BY CallAssumption
<1>2. TypeOK
  BY <1>1, NothingYet DEF Init, TypeOK
<1>3. Reading /\ Calling
  BY DEF Init, Reading, Calling
<1>4. InReports
  BY WireAssumption DEF Init, InReports
<1> QED BY <1>2, <1>3, <1>4 DEF Shape

LEMMA CallShape ==
  ASSUME Shape, NEW m \in Requests, Call(m)
  PROVE  Shape'
PROOF
<1>1. m # NoMessage /\ Encode(m) \in Seq(Bytes) /\ Encode(m) # <<>>
  <2>1. Fits(m) /\ m # NoMessage
    BY RequestFits
  <2>2. Encode(m) \in Seq(Bytes) /\ Len(Encode(m)) > 0
    BY <2>1, Encoded DEF HeaderSize
  <2> QED BY <2>1, <2>2
<1>2. TypeOK'
  BY <1>1, CallAssumption DEF Shape, TypeOK, Call, walletVars
<1>3. Reading' /\ Calling'
  BY <1>1 DEF Shape, Reading, Calling, Call
<1>4. InReports'
  BY WireAssumption DEF Shape, InReports, Call, walletVars
<1> QED BY <1>2, <1>3, <1>4 DEF Shape

LEMMA OpenThrowsShape ==
  ASSUME Shape, OpenThrows
  PROVE  Shape'
PROOF
<1>1. TypeOK'
  BY CallAssumption DEF Shape, TypeOK, OpenThrows
<1>2. Reading' /\ Calling' /\ InReports'
  BY DEF Shape, Reading, Calling, InReports, OpenThrows
<1> QED BY <1>1, <1>2 DEF Shape

LEMMA CloseShape ==
  ASSUME Shape, Close
  PROVE  Shape'
PROOF
<1>1. TypeOK'
  BY NothingYet DEF Shape, TypeOK, Close, walletVars
<1>2. Reading' /\ Calling' /\ InReports'
  BY WireAssumption DEF Shape, Reading, Calling, InReports, Close, walletVars
<1> QED BY <1>1, <1>2 DEF Shape

\* The catch block of call.
LEMMA CatchShape ==
  ASSUME Shape, CloseAndThrow,
         to_wallet' \in {to_wallet, <<>>}, to_host' \in {to_host, <<>>},
         wallet' \in {wallet, Idle}, served' = served,
         calls' = calls, failures' \in 0 .. MaxFailures, clean' \in BOOLEAN
  PROVE  Shape'
PROOF
<1>1. /\ to_wallet' \in Seq(Reports) /\ to_host' \in Seq(Reports)
      /\ wallet' \in [received : Seq(Bytes), sending : Seq(Bytes)]
  BY NothingYet DEF Shape, TypeOK
<1>2. /\ pc' \in {"idle", "write"} \union Phases /\ opened' \in BOOLEAN
      /\ read_buffer' \in Seq(Bytes) /\ buf' \in Seq(Bytes) /\ data' \in Seq(Bytes)
      /\ want' \in Nat
  BY NothingYet DEF CloseAndThrow
<1>3. /\ msg_in' \in Requests \union {NoMessage} /\ msg_out' \in Messages \union {NoMessage}
      /\ result' \in Messages \union {NoMessage, Thrown}
  BY DEF CloseAndThrow
<1>4. /\ calls' \in 0 .. MaxCalls
      /\ served' \in [request : Messages, reply : Replies] \union {NoMessage}
  BY DEF Shape, TypeOK
<1>5. TypeOK'
  BY <1>1, <1>2, <1>3, <1>4 DEF TypeOK
<1>6. Reading' /\ Calling'
  BY DEF Shape, Reading, Calling, CloseAndThrow
<1>7. InReports'
  BY WireAssumption DEF Shape, InReports, CloseAndThrow
<1> QED BY <1>5, <1>6, <1>7 DEF Shape

LEMMA HeaderThrowsShape ==
  ASSUME Shape, HeaderThrows
  PROVE  Shape'
PROOF
  BY CatchShape DEF HeaderThrows, walletVars, Shape, TypeOK

LEMMA TransferFailsShape ==
  ASSUME Shape, TransferFails
  PROVE  Shape'
PROOF
<1>1. failures' \in 0 .. MaxFailures
  BY CallAssumption DEF TransferFails, Shape, TypeOK
<1> QED BY <1>1, CatchShape DEF TransferFails

LEMMA WriteReportShape ==
  ASSUME Shape, WriteReport
  PROVE  Shape'
PROOF
<1>1. buf \in Seq(Bytes) /\ Len(buf) \in Nat /\ to_wallet \in Seq(Reports)
  BY LenProperties DEF Shape, TypeOK
<1>2. PICK report : report = ReportOf(buf)
  OBVIOUS
<1>3. report \in Reports /\ report.size <= Len(report.payload)
  BY <1>1, <1>2, Reported, WireAssumption
<1>4. to_wallet' = Append(to_wallet, report)
  BY <1>2 DEF WriteReport
<1>5. /\ to_wallet' \in Seq(Reports)
      /\ \A j \in 1 .. Len(to_wallet') : to_wallet'[j].size <= Len(to_wallet'[j].payload)
  BY <1>1, <1>3, <1>4, AppendProperties DEF Shape, InReports
<1>6. buf' \in Seq(Bytes)
  <2>1. Minimum(PayloadSize, Len(buf)) \in 0 .. Len(buf)
    BY <1>1, WireAssumption DEF Minimum
  <2> QED BY <1>1, <2>1, RestPart DEF WriteReport
<1>7. TypeOK'
  <2>1. pc' \in {"idle", "write"} \union Phases /\ want' \in Nat /\ data' \in Seq(Bytes)
    <3>1. pc \in {"idle", "write"} \union Phases /\ want \in Nat /\ data \in Seq(Bytes)
      BY DEF Shape, TypeOK
    <3>2. \/ pc' = "sync" /\ want' = 1 /\ data' = <<>>
          \/ pc' = pc /\ want' = want /\ data' = data
      BY DEF WriteReport, Read
    <3>3. 1 \in Nat /\ <<>> \in Seq(Bytes) /\ "sync" \in Phases
      BY DEF Phases
    <3> QED BY <3>1, <3>2, <3>3, Zenon
  <2> QED BY <1>5, <1>6, <2>1 DEF Shape, TypeOK, WriteReport
<1>8. Reading' /\ Calling'
  BY DEF Shape, Reading, Calling, WriteReport, Read
<1>9. InReports'
  BY <1>5 DEF Shape, InReports, WriteReport
<1> QED BY <1>7, <1>8, <1>9 DEF Shape

LEMMA BufferReportShape ==
  ASSUME Shape, BufferReport
  PROVE  Shape'
PROOF
<1>1. to_host \in Seq(Reports) /\ to_host # <<>>
  BY DEF Shape, TypeOK, BufferReport
<1>2. Head(to_host) \in Reports /\ Tail(to_host) \in Seq(Reports)
  BY <1>1, HeadTailProperties
<1>3. Payload(Head(to_host)) \in Seq(Bytes) /\ Len(Payload(Head(to_host))) <= PayloadSize
  BY <1>2, Unpacked
<1>4. TypeOK'
  BY <1>2, <1>3 DEF Shape, TypeOK, BufferReport
<1>5. Reading' /\ Calling' /\ InReports'
  BY <1>3 DEF Shape, Reading, Calling, InReports, BufferReport
<1> QED BY <1>4, <1>5 DEF Shape

\* What one read_report_form_buffer takes: at least a byte, if any is wanted.
LEMMA Gets ==
  ASSUME Shape, pc \in Phases, read_buffer # <<>>
  PROVE  LET n   == Minimum(Len(read_buffer), want)
             got == data \o First(read_buffer, n)
         IN  /\ n \in 0 .. Len(read_buffer) /\ n <= want /\ (want >= 1 => n >= 1)
             /\ Len(read_buffer) \in Nat /\ Len(data) \in Nat
             /\ got \in Seq(Bytes) /\ Len(got) = Len(data) + n
             /\ \A i \in 1 .. Len(data) : got[i] = data[i]
             /\ \A i \in 1 .. n : got[Len(data) + i] = read_buffer[i]
             /\ Rest(read_buffer, n) \in Seq(Bytes)
             /\ Len(Rest(read_buffer, n)) = Len(read_buffer) - n
             /\ \A i \in 1 .. Len(read_buffer) - n : Rest(read_buffer, n)[i] = read_buffer[n + i]
PROOF
<1>1. read_buffer \in Seq(Bytes) /\ data \in Seq(Bytes) /\ want \in Nat
  BY DEF Shape, TypeOK
<1>2. Len(read_buffer) \in Nat \ {0} /\ Len(data) \in Nat
  BY <1>1, EmptySeq, LenProperties
<1>3. PICK n : n = Minimum(Len(read_buffer), want)
  OBVIOUS
<1>4. n \in 0 .. Len(read_buffer) /\ n <= want /\ (want >= 1 => n >= 1)
  BY <1>1, <1>2, <1>3 DEF Minimum
<1>5. /\ data \o First(read_buffer, n) \in Seq(Bytes)
      /\ Len(data \o First(read_buffer, n)) = Len(data) + n
      /\ \A i \in 1 .. Len(data) : (data \o First(read_buffer, n))[i] = data[i]
      /\ \A i \in 1 .. n : (data \o First(read_buffer, n))[Len(data) + i] = read_buffer[i]
  BY <1>1, <1>4, Got
<1>6. /\ Rest(read_buffer, n) \in Seq(Bytes)
      /\ Len(Rest(read_buffer, n)) = Len(read_buffer) - n
      /\ \A i \in 1 .. Len(read_buffer) - n : Rest(read_buffer, n)[i] = read_buffer[n + i]
  BY <1>1, <1>4, RestPart
<1> QED BY <1>2, <1>3, <1>4, <1>5, <1>6, Zenon

LEMMA ReadFromBufferShape ==
  ASSUME Shape, ReadFromBuffer
  PROVE  Shape'
PROOF
<1> DEFINE n   == Minimum(Len(read_buffer), want)
           got == data \o First(read_buffer, n)
<1>1. pc \in Phases /\ read_buffer # <<>>
  BY DEF ReadFromBuffer
<1>2. /\ n \in 0 .. Len(read_buffer) /\ n <= want /\ (want >= 1 => n >= 1)
      /\ Len(read_buffer) \in Nat /\ Len(data) \in Nat
      /\ got \in Seq(Bytes) /\ Len(got) = Len(data) + n
      /\ Rest(read_buffer, n) \in Seq(Bytes)
      /\ Len(Rest(read_buffer, n)) = Len(read_buffer) - n
  BY <1>1, Gets, Zenon
<1>3. /\ read_buffer' = Rest(read_buffer, n)
      /\ \/ /\ n < want
            /\ data' = got
            /\ want' = want - n
            /\ UNCHANGED <<pc, opened, buf, msg_in, msg_out, result>>
         \/ /\ n = want /\ pc = "sync"
            /\ Read(IF got[1] = Mark THEN "mark" ELSE "sync", 1)
            /\ UNCHANGED <<opened, buf, msg_in, msg_out, result>>
         \/ /\ n = want /\ pc = "mark" /\ got[1] = Mark
            /\ Read("header", HeaderSize)
            /\ UNCHANGED <<opened, buf, msg_in, msg_out, result>>
         \/ /\ n = want /\ pc = "header" /\ ~TooBig(got)
            /\ Read("body", SizeOf(got))
            /\ msg_out' = [id |-> IdOf(got), data |-> <<>>]
            /\ UNCHANGED <<opened, buf, msg_in, result>>
         \/ /\ n = want /\ pc = "body"
            /\ pc' = "idle" /\ data' = <<>> /\ want' = 0
            /\ result' = [msg_out EXCEPT !.data = got]
            /\ msg_in' = NoMessage /\ msg_out' = NoMessage
            /\ UNCHANGED <<opened, buf>>
      /\ UNCHANGED <<walletVars, calls, failures, clean>>
  BY Zenon DEF ReadFromBuffer
<1> HIDE DEF n, got
<1>4. TypeOK /\ Reading /\ Calling /\ InReports
  BY DEF Shape
<1>5. /\ data \in Seq(Bytes) /\ want \in Nat
      /\ Len(data) + want <= MaxSize \/ pc # "body"
      /\ msg_out \in Messages \union {NoMessage}
      /\ pc = "body" => msg_out \in Messages
  BY <1>4 DEF TypeOK, Reading
<1>6. /\ read_buffer' \in Seq(Bytes) /\ Len(read_buffer') <= PayloadSize
  BY <1>2, <1>3, <1>4, WireAssumption DEF InReports
<1>7. InReports'
  BY <1>3, <1>4, <1>6 DEF InReports, walletVars
<1>8. /\ to_wallet' \in Seq(Reports) /\ to_host' \in Seq(Reports)
      /\ wallet' \in [received : Seq(Bytes), sending : Seq(Bytes)]
      /\ calls' \in 0 .. MaxCalls /\ failures' \in 0 .. MaxFailures
      /\ clean' \in BOOLEAN
      /\ served' \in [request : Messages, reply : Replies] \union {NoMessage}
  BY <1>3, <1>4 DEF TypeOK, walletVars
<1>9. CASE /\ n < want
           /\ data' = got
           /\ want' = want - n
           /\ UNCHANGED <<pc, opened, buf, msg_in, msg_out, result>>
  <2>1. pc \notin {"sync", "mark"}
    BY <1>2, <1>4, <1>9 DEF Reading
  <2>2. Len(data') + want' = Len(data) + want /\ want' >= 1 /\ want' \in Nat
    BY <1>2, <1>5, <1>9
  <2>3. Reading'
    BY <1>1, <1>4, <1>9, <2>1, <2>2 DEF Reading, Phases
  <2>4. Calling'
    BY <1>4, <1>9 DEF Calling
  <2>5. TypeOK'
    BY <1>2, <1>4, <1>6, <1>8, <1>9, <2>2 DEF TypeOK
  <2> QED BY <1>7, <2>3, <2>4, <2>5 DEF Shape
<1>10. CASE /\ n = want /\ pc = "sync"
            /\ Read(IF got[1] = Mark THEN "mark" ELSE "sync", 1)
            /\ UNCHANGED <<opened, buf, msg_in, msg_out, result>>
  <2>1. Reading' /\ Calling'
    BY <1>4, <1>10 DEF Reading, Calling, Read
  <2>2. TypeOK'
    BY <1>4, <1>6, <1>8, <1>10, NothingYet DEF TypeOK, Read, Phases
  <2> QED BY <1>7, <2>1, <2>2 DEF Shape
<1>11. CASE /\ n = want /\ pc = "mark" /\ got[1] = Mark
            /\ Read("header", HeaderSize)
            /\ UNCHANGED <<opened, buf, msg_in, msg_out, result>>
  <2>1. Reading' /\ Calling'
    BY <1>4, <1>11 DEF Reading, Calling, Read, HeaderSize
  <2>2. TypeOK'
    BY <1>4, <1>6, <1>8, <1>11, NothingYet DEF TypeOK, Read, Phases, HeaderSize
  <2> QED BY <1>7, <2>1, <2>2 DEF Shape
<1>12. CASE /\ n = want /\ pc = "header" /\ ~TooBig(got)
            /\ Read("body", SizeOf(got))
            /\ msg_out' = [id |-> IdOf(got), data |-> <<>>]
            /\ UNCHANGED <<opened, buf, msg_in, result>>
  <2>1. Len(got) = HeaderSize
    BY <1>2, <1>4, <1>12 DEF Reading
  <2>2. PICK i, k : i = IdOf(got) /\ k = SizeOf(got)
    OBVIOUS
  <2>3. i \in 0 .. Base * Base - 1 /\ k \in Nat /\ k <= MaxSize
    <3>1. i \in 0 .. Base * Base - 1 /\ k \in Nat
      <4>1. got \in Seq(Bytes)
        BY <1>2
      <4>2. HeaderSize \in Nat
        BY DEF HeaderSize
      <4>3. Len(got) >= HeaderSize
        BY <2>1, <4>2
      <4> QED BY <2>2, <4>1, <4>3, HeaderRange
    <3>2. ~(k > MaxSize)
      BY <1>12, <2>2 DEF TooBig
    <3> QED BY <3>1, <3>2, WireAssumption
  <2>4. pc' = "body" /\ want' = k /\ data' = <<>> /\ msg_out' = [id |-> i, data |-> <<>>]
    BY <1>12, <2>2 DEF Read
  <2>5. msg_out' \in Messages
    BY <2>3, <2>4, NothingYet DEF Messages
  <2>6. Reading' /\ Calling'
    BY <1>4, <1>12, <2>3, <2>4, <2>5 DEF Reading, Calling
  <2>7. TypeOK'
    BY <1>4, <1>6, <1>8, <1>12, <2>3, <2>4, <2>5, NothingYet DEF TypeOK, Phases
  <2> QED BY <1>7, <2>6, <2>7 DEF Shape
<1>13. CASE /\ n = want /\ pc = "body"
            /\ pc' = "idle" /\ data' = <<>> /\ want' = 0
            /\ result' = [msg_out EXCEPT !.data = got]
            /\ msg_in' = NoMessage /\ msg_out' = NoMessage
            /\ UNCHANGED <<opened, buf>>
  <2>1. result' \in Messages
    BY <1>2, <1>5, <1>13 DEF Messages
  <2>2. Reading' /\ Calling'
    BY <1>4, <1>13 DEF Reading, Calling
  <2>3. TypeOK'
    BY <1>4, <1>6, <1>8, <1>13, <2>1, NothingYet DEF TypeOK
  <2> QED BY <1>7, <2>2, <2>3 DEF Shape
<1> QED BY <1>3, <1>9, <1>10, <1>11, <1>12, <1>13, Zenon

LEMMA WalletTakesShape ==
  ASSUME Shape, WalletTakes
  PROVE  Shape'
PROOF
<1>1. /\ to_wallet \in Seq(Reports) /\ to_wallet # <<>>
      /\ wallet \in [received : Seq(Bytes), sending : Seq(Bytes)]
  BY DEF Shape, TypeOK, WalletTakes
<1>2. PICK report : report = Head(to_wallet)
  OBVIOUS
<1>3. /\ report \in Reports /\ report = to_wallet[1] /\ 1 \in 1 .. Len(to_wallet)
      /\ Tail(to_wallet) \in Seq(Reports)
      /\ Len(to_wallet) \in Nat /\ Len(Tail(to_wallet)) = Len(to_wallet) - 1
      /\ \A j \in 1 .. Len(Tail(to_wallet)) : Tail(to_wallet)[j] = to_wallet[j + 1]
  BY <1>1, <1>2, EmptySeq, HeadTailProperties, LenProperties
<1>4. report.size \in 0 .. Len(report.payload) /\ report.payload \in Seq(Bytes)
  BY <1>3, WireAssumption DEF Shape, InReports, Reports
<1>5. wallet.received \o First(report.payload, report.size) \in Seq(Bytes)
  BY <1>1, <1>4, Got
<1>6. wallet' \in [received : Seq(Bytes), sending : Seq(Bytes)]
  BY <1>1, <1>2, <1>5, NothingYet DEF WalletTakes
<1>7. TypeOK'
  BY <1>3, <1>6 DEF Shape, TypeOK, WalletTakes, hostVars
<1>8. Reading' /\ Calling'
  BY DEF Shape, Reading, Calling, WalletTakes, hostVars
<1>9. InReports'
  BY <1>3 DEF Shape, InReports, WalletTakes, hostVars
<1> QED BY <1>7, <1>8, <1>9 DEF Shape

LEMMA WalletServesShape ==
  ASSUME Shape, NEW reply \in Replies, WalletServes(reply)
  PROVE  Shape'
PROOF
<1> DEFINE header == Rest(wallet.received, 2)
           size   == SizeOf(header)
<1>1. wallet.received \in Seq(Bytes) /\ Len(wallet.received) \in Nat
  BY LenProperties DEF Shape, TypeOK
<1>2. /\ Len(wallet.received) >= 2 + HeaderSize
      /\ Len(header) >= HeaderSize + size
      /\ wallet' = [received |-> <<>>, sending |-> Encode(reply)]
      /\ served' = [request |-> [id   |-> IdOf(header),
                                 data |-> First(Rest(header, HeaderSize), size)],
                    reply   |-> reply]
      /\ UNCHANGED <<hostVars, to_wallet, to_host, calls, failures, clean>>
  BY Zenon DEF WalletServes
<1>3. 2 \in 0 .. Len(wallet.received)
  BY <1>1, <1>2 DEF HeaderSize
<1>4. header \in Seq(Bytes) /\ Len(header) = Len(wallet.received) - 2
  BY <1>1, <1>3, RestPart
<1> HIDE DEF header
<1>5. Len(header) >= HeaderSize /\ Len(header) \in Nat
  BY <1>1, <1>2, <1>4 DEF HeaderSize
<1>6. IdOf(header) \in 0 .. Base * Base - 1 /\ size \in Nat
  BY <1>4, <1>5, HeaderRange
<1> HIDE DEF size
<1>7. /\ Rest(header, HeaderSize) \in Seq(Bytes)
      /\ Len(Rest(header, HeaderSize)) = Len(header) - HeaderSize
  <2>1. HeaderSize \in 0 .. Len(header)
    BY <1>5 DEF HeaderSize
  <2> QED BY <1>4, <2>1, RestPart
<1>8. First(Rest(header, HeaderSize), size) \in Seq(Bytes)
  <2>1. size \in 0 .. Len(Rest(header, HeaderSize))
    BY <1>2, <1>5, <1>6, <1>7 DEF HeaderSize
  <2> QED BY <1>7, <2>1, FirstPart
<1>9. served' \in [request : Messages, reply : Replies]
  BY <1>2, <1>6, <1>8 DEF Messages
<1>10. wallet' \in [received : Seq(Bytes), sending : Seq(Bytes)]
  BY <1>2, ReplyFits, Encoded, NothingYet
<1>11. TypeOK'
  BY <1>2, <1>9, <1>10 DEF Shape, TypeOK, hostVars
<1>12. Reading' /\ Calling' /\ InReports'
  BY <1>2 DEF Shape, Reading, Calling, InReports, hostVars
<1> QED BY <1>11, <1>12 DEF Shape

LEMMA WalletSendsShape ==
  ASSUME Shape, NEW cut \in Cuts, WalletSends(cut)
  PROVE  Shape'
PROOF
<1> DEFINE n      == Minimum(cut, Len(wallet.sending))
           bytes  == First(wallet.sending, n)
           filled == [i \in 1 .. PayloadSize |-> IF i <= n THEN bytes[i] ELSE 0]
<1>1. /\ wallet \in [received : Seq(Bytes), sending : Seq(Bytes)]
      /\ wallet.sending \in Seq(Bytes) /\ Len(wallet.sending) \in Nat
      /\ to_host \in Seq(Reports)
  BY LenProperties DEF Shape, TypeOK
<1>2. n \in 0 .. Len(wallet.sending) /\ n \in 0 .. PayloadSize
  BY <1>1, CallAssumption, WireAssumption DEF Minimum
<1>3. bytes \in Seq(Bytes) /\ Rest(wallet.sending, n) \in Seq(Bytes) /\ Len(bytes) = n
  BY <1>1, <1>2, FirstPart, RestPart
<1>4. filled \in Seq(Bytes)
  <2>1. ASSUME NEW i \in 1 .. PayloadSize
        PROVE  (IF i <= n THEN bytes[i] ELSE 0) \in Bytes
    <3>1. CASE i <= n
      BY <1>2, <1>3, <3>1, ElementOfSeq
    <3>2. CASE ~(i <= n)
      BY <3>2, ByteRange
    <3> QED BY <3>1, <3>2
  <2> QED BY <2>1, WireAssumption
<1>5. /\ \/ to_host' = Append(to_host, [size |-> PayloadSize, payload |-> bytes])
         \/ to_host' = Append(to_host, [size |-> n, payload |-> filled])
         \/ to_host' = Append(to_host, [size |-> PayloadSize, payload |-> filled])
      /\ wallet' = [wallet EXCEPT !.sending = Rest(@, n)]
      /\ UNCHANGED <<hostVars, to_wallet, calls, failures, clean, served>>
  BY DEF WalletSends
<1> HIDE DEF n, bytes, filled
<1>6. /\ [size |-> PayloadSize, payload |-> bytes] \in Reports
      /\ [size |-> n, payload |-> filled] \in Reports
      /\ [size |-> PayloadSize, payload |-> filled] \in Reports
  BY <1>2, <1>3, <1>4, WireAssumption DEF Reports
<1>7. to_host' \in Seq(Reports)
  <2>1. PICK report \in Reports : to_host' = Append(to_host, report)
    BY <1>5, <1>6, Zenon
  <2> QED BY <1>1, <2>1, AppendProperties
<1>8. wallet' \in [received : Seq(Bytes), sending : Seq(Bytes)]
  BY <1>1, <1>3, <1>5
<1>9. TypeOK'
  BY <1>5, <1>7, <1>8 DEF Shape, TypeOK, hostVars
<1>10. Reading' /\ Calling' /\ InReports'
  BY <1>5 DEF Shape, Reading, Calling, InReports, hostVars
<1> QED BY <1>9, <1>10 DEF Shape

LEMMA UnchangedShape ==
  ASSUME Shape, UNCHANGED vars
  PROVE  Shape'
PROOF
<1>1. TypeOK'
  BY DEF Shape, TypeOK, vars, hostVars, walletVars
<1>2. Reading' /\ Calling' /\ InReports'
  BY DEF Shape, Reading, Calling, InReports, vars, hostVars, walletVars
<1> QED BY <1>1, <1>2 DEF Shape

LEMMA NextShape == Shape /\ [Next]_vars => Shape'
PROOF
<1> SUFFICES ASSUME Shape, [Next]_vars PROVE Shape'
  OBVIOUS
<1>1. ASSUME NEW m \in Requests, Call(m) PROVE Shape'
  BY <1>1, CallShape
<1>2. CASE OpenThrows
  BY <1>2, OpenThrowsShape
<1>3. CASE Close
  BY <1>3, CloseShape
<1>4. CASE WriteReport
  BY <1>4, WriteReportShape
<1>5. CASE BufferReport
  BY <1>5, BufferReportShape
<1>6. CASE ReadFromBuffer
  BY <1>6, ReadFromBufferShape
<1>7. CASE HeaderThrows
  BY <1>7, HeaderThrowsShape
<1>8. CASE TransferFails
  BY <1>8, TransferFailsShape
<1>9. CASE WalletTakes
  BY <1>9, WalletTakesShape
<1>10. ASSUME NEW reply \in Replies, WalletServes(reply) PROVE Shape'
  BY <1>10, WalletServesShape
<1>11. ASSUME NEW cut \in Cuts, WalletSends(cut) PROVE Shape'
  BY <1>11, WalletSendsShape
<1>12. CASE PollAgain \/ Finished \/ UNCHANGED vars
  BY <1>12, UnchangedShape DEF PollAgain, Finished
<1> QED
  BY <1>1, <1>2, <1>3, <1>4, <1>5, <1>6, <1>7, <1>8, <1>9, <1>10, <1>11, <1>12
  DEF Next, HostStep, WalletStep

LEMMA ShapeKept == Spec => []Shape
PROOF
<1> QED BY InitShape, NextShape, PTL DEF Spec

\* device_kernel::call, the buffers of wire::device and the reports under way
\* keep their types, whatever messages are sent, however they are cut and
\* whatever fails.
THEOREM TypeCorrect == Spec => []TypeOK
PROOF
<1>1. Shape => TypeOK
  BY DEF Shape
<1> QED BY <1>1, ShapeKept, PTL

\* read_buffer never holds more than one report, and read_from asks for no
\* more than a header or max_size bytes, also when a failure has left the
\* wallet in mid-message and what read_from takes for a header is not one.
THEOREM BufferStaysBounded == Spec => []BufferBounded
PROOF
<1>1. Shape => BufferBounded
  <2> SUFFICES ASSUME Shape PROVE BufferBounded
    OBVIOUS
  <2>1. pc \in {"idle", "write"} \union Phases /\ want \in Nat /\ Len(<<>>) = 0
    BY DEF Shape, TypeOK
  <2>2. Len(data) + want <= IF pc = "body" THEN MaxSize ELSE HeaderSize
    BY <2>1 DEF Shape, Reading, Phases, HeaderSize
  <2> QED BY <2>2 DEF Shape, InReports, BufferBounded
<1> QED BY <1>1, ShapeKept, PTL

-----------------------------------------------------------------------------
(* Undisturbed: between two calls *)

LEMMA InitUndisturbed == Init => Undisturbed
PROOF
  BY DEF Init, Undisturbed, AtRest, NoMark

LEMMA CallUndisturbed ==
  ASSUME Shape, Undisturbed, NEW m \in Requests, Call(m)
  PROVE  Undisturbed'
PROOF
<1> SUFFICES ASSUME clean PROVE Sending'
  BY DEF Call, Undisturbed
<1>1. AtRest
  BY DEF Call, Undisturbed
<1>2. /\ to_wallet' = <<>> /\ to_host' = <<>> /\ wallet' = Idle
      /\ pc' = "write" /\ msg_in' = m /\ buf' = Encode(m) /\ NoMark(read_buffer')
  BY <1>1 DEF AtRest, Call, NoMark
<1>3. wallet'.received = <<>> /\ wallet'.sending = <<>>
  BY <1>2 DEF Idle
<1>4. Len(Encode(m)) \in Nat /\ Len(Encode(m)) > 0
  BY RequestFits, Encoded DEF HeaderSize
<1>5. Written' = 0
  BY <1>2, <1>3, WireAssumption DEF Written
<1>6. PICK w : w = Written'
  OBVIOUS
<1>7. /\ Len(buf') = (IF w < Len(Encode(msg_in')) THEN Len(Encode(msg_in')) - w ELSE 0)
      /\ \A i \in 1 .. Len(buf') : buf'[i] = Encode(msg_in')[w + i]
  BY <1>2, <1>4, <1>5, <1>6
<1> QED BY <1>2, <1>3, <1>6, <1>7 DEF Sending

LEMMA OpenThrowsUndisturbed ==
  ASSUME Shape, Undisturbed, OpenThrows
  PROVE  Undisturbed'
PROOF
  BY DEF OpenThrows, Undisturbed, AtRest, NoMark

LEMMA CloseUndisturbed ==
  ASSUME Shape, Undisturbed, Close
  PROVE  Undisturbed'
PROOF
  BY DEF Close, Undisturbed, AtRest, NoMark, walletVars

LEMMA TransferFailsUndisturbed ==
  ASSUME Shape, Undisturbed, TransferFails
  PROVE  Undisturbed'
PROOF
  BY DEF TransferFails, CloseAndThrow, Undisturbed, AtRest, NoMark

LEMMA UnchangedUndisturbed ==
  ASSUME Undisturbed, UNCHANGED vars
  PROVE  Undisturbed'
PROOF
<1>1. AtRest => AtRest'
  BY DEF AtRest, NoMark, vars, hostVars, walletVars
<1>2. Sending => Sending'
  BY DEF Sending, Written, NoMark, vars, hostVars, walletVars
<1>3. Serving => Serving'
  BY DEF Serving, Stream, Understood, Taken, vars, hostVars, walletVars
<1> QED BY <1>1, <1>2, <1>3 DEF Undisturbed, vars, hostVars, walletVars

-----------------------------------------------------------------------------
(* Undisturbed: the message on its way to the wallet *)

\* A call under way has a message that fits, and it is as long as it is.
LEMMA MessageOfCall ==
  ASSUME Shape, pc # "idle"
  PROVE  /\ msg_in \in Requests /\ Fits(msg_in) /\ msg_in # NoMessage
         /\ Encode(msg_in) \in Seq(Bytes)
         /\ Len(msg_in.data) \in Nat /\ Len(Encode(msg_in)) = 2 + HeaderSize + Len(msg_in.data)
PROOF
<1>1. msg_in \in Requests
  BY DEF Shape, TypeOK, Calling
<1> QED BY <1>1, RequestFits, Encoded

\* So many reports are so many bytes.
LEMMA Multiple ==
  ASSUME NEW a \in Nat
  PROVE  a * PayloadSize \in Nat /\ (a + 1) * PayloadSize = a * PayloadSize + PayloadSize
PROOF
<1>1. PICK p \in Nat \ {0} : p = PayloadSize
  BY WireAssumption
<1>2. a * p \in Nat /\ (a + 1) * p = a * p + p
  OBVIOUS
<1> QED BY <1>1, <1>2

\* Lengths are numbers.
LEMMA Lengths ==
  ASSUME Shape
  PROVE  /\ wallet.received \in Seq(Bytes) /\ Len(wallet.received) \in Nat
         /\ wallet.sending \in Seq(Bytes) /\ Len(wallet.sending) \in Nat
         /\ to_wallet \in Seq(Reports) /\ Len(to_wallet) \in Nat
         /\ to_host \in Seq(Reports) /\ Len(to_host) \in Nat
         /\ buf \in Seq(Bytes) /\ Len(buf) \in Nat
         /\ data \in Seq(Bytes) /\ Len(data) \in Nat
         /\ read_buffer \in Seq(Bytes) /\ Len(read_buffer) \in Nat
         /\ want \in Nat /\ Written \in Nat
PROOF
<1>1. /\ wallet.received \in Seq(Bytes) /\ wallet.sending \in Seq(Bytes)
      /\ to_wallet \in Seq(Reports) /\ to_host \in Seq(Reports)
      /\ buf \in Seq(Bytes) /\ data \in Seq(Bytes) /\ read_buffer \in Seq(Bytes)
      /\ want \in Nat
  BY DEF Shape, TypeOK
<1>2. /\ Len(wallet.received) \in Nat /\ Len(wallet.sending) \in Nat
      /\ Len(to_wallet) \in Nat /\ Len(to_host) \in Nat
      /\ Len(buf) \in Nat /\ Len(data) \in Nat /\ Len(read_buffer) \in Nat
  BY <1>1, LenProperties
<1>3. Written \in Nat
  <2>1. PICK kp \in Nat : kp = Len(to_wallet) * PayloadSize
    BY <1>2, Multiple
  <2>2. PICK r \in Nat : r = Len(wallet.received)
    BY <1>2
  <2>3. r + kp \in Nat
    OBVIOUS
  <2> QED BY <2>1, <2>2, <2>3 DEF Written
<1> QED BY <1>1, <1>2, <1>3

LEMMA WriteReportUndisturbed ==
  ASSUME Shape, Undisturbed, WriteReport
  PROVE  Undisturbed'
PROOF
<1>1. pc = "write" /\ clean' = clean /\ served' = served /\ pc' \in {"write", "sync"}
  BY DEF WriteReport, Read
<1> SUFFICES ASSUME clean PROVE Sending' /\ served = NoMessage
  BY <1>1 DEF Undisturbed
<1>2. Sending /\ served = NoMessage
  BY <1>1 DEF Undisturbed, Serving
<1> DEFINE m == msg_in
           L == Len(Encode(m))
           w == Written
           k == Len(to_wallet)
           r == Len(wallet.received)
<1>3. /\ Fits(m) /\ L \in Nat /\ w \in Nat /\ k \in Nat /\ r \in Nat
      /\ Len(buf) \in Nat /\ Len(buf) > 0 /\ buf \in Seq(Bytes)
      /\ to_wallet \in Seq(Reports) /\ PayloadSize \in Nat \ {0}
  <2>1. buf # <<>>
    BY <1>1 DEF Shape, Calling
  <2> QED BY <1>1, <2>1, MessageOfCall, Lengths, EmptySeq, WireAssumption DEF HeaderSize
<1>4. w < L /\ Len(buf) = L - w /\ \A i \in 1 .. Len(buf) : buf[i] = Encode(m)[w + i]
  BY <1>2, <1>3 DEF Sending
<1>5. /\ m' = m /\ L' = L /\ wallet' = wallet /\ r' = r /\ to_host' = to_host
      /\ read_buffer' = read_buffer
  BY DEF WriteReport
<1>6. PICK report : report = ReportOf(buf)
  OBVIOUS
<1>7. /\ report \in Reports /\ report.size = PayloadSize /\ Len(report.payload) = PayloadSize
      /\ \A i \in 1 .. PayloadSize : report.payload[i] = IF i <= Len(buf) THEN buf[i] ELSE 0
  BY <1>3, <1>6, Reported
<1>8. to_wallet' = Append(to_wallet, report)
  BY <1>6 DEF WriteReport
<1>9. /\ Len(to_wallet') = k + 1
      /\ \A j \in 1 .. k : to_wallet'[j] = to_wallet[j]
      /\ to_wallet'[k + 1] = report
  BY <1>3, <1>7, <1>8, AppendProperties
<1>10. w' = w + PayloadSize /\ w = r + k * PayloadSize
  <2>1. PICK kp \in Nat : kp = k * PayloadSize /\ (k + 1) * PayloadSize = kp + PayloadSize
    BY <1>3, Multiple
  <2>2. w' = r + (k + 1) * PayloadSize /\ w = r + k * PayloadSize
    BY <1>5, <1>9 DEF Written
  <2>3. w' = r + (kp + PayloadSize) /\ w = r + kp
    BY <2>1, <2>2
  <2>4. w' = w + PayloadSize
    <3>1. PICK r0 \in Nat, p \in Nat : r0 = r /\ p = PayloadSize
      BY <1>3
    <3>2. r0 + (kp + p) = (r0 + kp) + p
      OBVIOUS
    <3> QED BY <2>3, <3>1, <3>2
  <2> QED BY <2>2, <2>4
<1>11. PICK n : n = Minimum(PayloadSize, Len(buf))
  OBVIOUS
<1>12. /\ n \in 0 .. Len(buf) /\ n <= PayloadSize /\ (n = PayloadSize \/ n = Len(buf))
  BY <1>3, <1>11 DEF Minimum
<1>13. /\ Len(buf') = Len(buf) - n
       /\ \A i \in 1 .. Len(buf) - n : buf'[i] = buf[n + i]
  <2>1. buf' = Rest(buf, n)
    BY <1>11 DEF WriteReport
  <2> QED BY <1>3, <1>12, <2>1, RestPart
<1> HIDE DEF L, w, k, r
<1>14. IsPart(report, m, w)
  <2>1. ASSUME NEW i \in 1 .. PayloadSize
        PROVE  report.payload[i] = Padded(m, w + i)
    <3>1. i <= Len(buf) <=> w + i <= L
      BY <1>3, <1>4
    <3>2. i <= Len(buf) => buf[i] = Encode(m)[w + i]
      BY <1>3, <1>4
    <3> QED BY <1>7, <3>1, <3>2 DEF Padded, L
  <2> QED BY <1>4, <1>7, <2>1 DEF IsPart, L
<1>15. ASSUME NEW j \in 1 .. Len(to_wallet')
       PROVE  IsPart(to_wallet'[j], m, r + (j - 1) * PayloadSize)
  <2>1. CASE j <= k
    <3>1. j \in 1 .. k
      BY <1>3, <2>1
    <3> QED BY <1>2, <1>9, <3>1 DEF Sending, k, r
  <2>2. CASE j = k + 1
    <3>1. j - 1 = k
      BY <1>3, <2>2
    <3> QED BY <1>9, <1>10, <1>14, <2>2, <3>1
  <2> QED BY <1>3, <1>9, <2>1, <2>2
<1>16. Len(buf') = (IF w' < L THEN L - w' ELSE 0)
  BY <1>3, <1>4, <1>10, <1>12, <1>13
<1>17. ASSUME NEW i \in 1 .. Len(buf')
       PROVE  buf'[i] = Encode(m)[w' + i]
  <2>1. n = PayloadSize
    BY <1>3, <1>12, <1>13
  <2>2. n + i \in 1 .. Len(buf) /\ i \in 1 .. Len(buf) - n /\ w + (n + i) = w' + i
    BY <1>3, <1>10, <1>12, <1>13, <2>1
  <2> QED BY <1>4, <1>13, <2>2
<1>18. NoMark(read_buffer') /\ to_host' = <<>> /\ wallet'.sending = <<>>
  BY <1>2, <1>5 DEF Sending, NoMark
<1>19. \A i \in 1 .. Len(wallet'.received) : wallet'.received[i] = Padded(m', i)
  BY <1>2, <1>5 DEF Sending, Padded
<1>20. m = msg_in /\ m' = msg_in'
  OBVIOUS
<1> HIDE DEF m
<1> QED
  BY <1>1, <1>2, <1>5, <1>15, <1>16, <1>17, <1>18, <1>19, <1>20 DEF Sending, L, w, r

\* The first bytes of a message are marks.
LEMMA Begins ==
  ASSUME NEW m, Fits(m), NEW i \in {1, 2}
  PROVE  Padded(m, i) = Mark
PROOF
<1>1. i <= Len(Encode(m))
  BY Encoded DEF HeaderSize
<1> QED BY <1>1, Encoded DEF Padded

LEMMA WalletTakesUndisturbed ==
  ASSUME Shape, Undisturbed, WalletTakes
  PROVE  Undisturbed'
PROOF
<1>1. /\ to_wallet # <<>> /\ to_wallet' = Tail(to_wallet)
      /\ UNCHANGED <<hostVars, to_host, clean, served>>
  BY DEF WalletTakes
<1>2. /\ pc' = pc /\ clean' = clean /\ served' = served
  BY <1>1 DEF hostVars
<1> SUFFICES ASSUME clean PROVE Sending' /\ pc # "idle" /\ served = NoMessage
  BY <1>2 DEF Undisturbed
<1>3. Sending /\ pc # "idle" /\ served = NoMessage
  BY <1>1 DEF Undisturbed, AtRest, Serving
<1>4. PICK m : m = msg_in
  OBVIOUS
<1>5. PICK r \in Nat : r = Len(wallet.received)
  BY Lengths
<1>6. PICK k \in Nat : k = Len(to_wallet)
  BY Lengths
<1>7. PICK p \in Nat : p = PayloadSize
  BY WireAssumption
<1>8. PICK l \in Nat : l = Len(Encode(m))
  BY <1>3, <1>4, MessageOfCall DEF HeaderSize
<1>9. PICK report : report = Head(to_wallet)
  OBVIOUS
<1>10. /\ k >= 1 /\ report = to_wallet[1] /\ report \in Reports
       /\ Len(to_wallet') = k - 1
       /\ \A j \in 1 .. k - 1 : to_wallet'[j] = to_wallet[j + 1]
  <2>1. to_wallet \in Seq(Reports) /\ to_wallet # <<>>
    BY <1>1, Lengths
  <2> QED BY <1>1, <1>6, <1>9, <2>1, EmptySeq, HeadTailProperties
<1>11. /\ \A i \in 1 .. r : wallet.received[i] = Padded(m, i)
       /\ \A j \in 1 .. k : IsPart(to_wallet[j], m, r + (j - 1) * p)
       /\ Len(buf) = (IF Written < l THEN l - Written ELSE 0)
       /\ \A i \in 1 .. Len(buf) : buf[i] = Encode(m)[Written + i]
  BY <1>3, <1>4, <1>5, <1>6, <1>7, <1>8 DEF Sending
<1>12. /\ report.size = p /\ Len(report.payload) = p
       /\ \A i \in 1 .. p : report.payload[i] = Padded(m, r + i)
  <2>1. 1 \in 1 .. k /\ r + (1 - 1) * p = r
    BY <1>10
  <2>2. IsPart(report, m, r)
    BY <1>10, <1>11, <2>1
  <2> QED BY <1>7, <2>2 DEF IsPart
<1>13. PICK joined : joined = wallet.received \o First(report.payload, p)
  OBVIOUS
<1>14. /\ joined \in Seq(Bytes) /\ Len(joined) = r + p
       /\ \A i \in 1 .. r + p : joined[i] = Padded(m, i)
  <2>1. wallet.received \in Seq(Bytes) /\ report.payload \in Seq(Bytes)
    BY <1>10, Lengths DEF Reports
  <2>2. p \in 0 .. Len(report.payload)
    BY <1>12
  <2>3. /\ joined \in Seq(Bytes) /\ Len(joined) = r + p
        /\ \A i \in 1 .. r : joined[i] = wallet.received[i]
        /\ \A i \in 1 .. p : joined[r + i] = report.payload[i]
    <3>1. /\ joined \in Seq(Bytes) /\ Len(joined) = Len(wallet.received) + p
          /\ \A i \in 1 .. Len(wallet.received) : joined[i] = wallet.received[i]
          /\ \A i \in 1 .. p : joined[Len(wallet.received) + i] = report.payload[i]
      <4>1. PICK s, t : s = wallet.received /\ t = report.payload
        OBVIOUS
      <4>2. s \in Seq(Bytes) /\ t \in Seq(Bytes) /\ p \in 0 .. Len(t)
        BY <2>1, <2>2, <4>1, Zenon
      <4>3. joined = s \o First(t, p)
        BY <1>13, <4>1, Zenon
      <4>4. /\ s \o First(t, p) \in Seq(Bytes)
            /\ Len(s \o First(t, p)) = Len(s) + p
            /\ \A i \in 1 .. Len(s) : (s \o First(t, p))[i] = s[i]
            /\ \A i \in 1 .. p : (s \o First(t, p))[Len(s) + i] = t[i]
        BY <4>2, Got
      <4> QED BY <4>1, <4>3, <4>4, Zenon
    <3> QED BY <1>5, <3>1
  <2>4. ASSUME NEW i \in 1 .. r + p
        PROVE  joined[i] = Padded(m, i)
    <3>1. CASE i <= r
      BY <1>11, <2>3, <3>1
    <3>2. CASE i > r
      <4>1. PICK q \in 1 .. p : r + q = i
        <5>1. i - r \in 1 .. p /\ r + (i - r) = i
          BY <3>2
        <5> QED BY <5>1
      <4> QED BY <1>12, <2>3, <4>1
    <3> QED BY <3>1, <3>2
  <2> QED BY <2>3, <2>4
<1>15. PICK begins : begins = First(joined, Minimum(2, Len(joined)))
  OBVIOUS
<1>16. \A i \in 1 .. Len(begins) : begins[i] = Mark
  <2>1. PICK q : q = Minimum(2, Len(joined))
    OBVIOUS
  <2>2. q \in 0 .. Len(joined) /\ q <= 2 /\ q <= r + p
    BY <1>14, <2>1 DEF Minimum
  <2>3. Len(begins) = q /\ \A i \in 1 .. q : begins[i] = joined[i]
    BY <1>14, <1>15, <2>1, <2>2, FirstPart
  <2>4. ASSUME NEW i \in 1 .. q
        PROVE  begins[i] = Mark
    <3>1. i \in {1, 2} /\ i \in 1 .. r + p
      BY <2>2
    <3>2. Fits(m)
      BY <1>3, <1>4, MessageOfCall
    <3> QED BY <1>14, <2>3, <3>1, <3>2, Begins
  <2> QED BY <2>3, <2>4
<1>17. wallet' = [wallet EXCEPT !.received = joined]
  BY <1>7, <1>9, <1>12, <1>13, <1>15, <1>16 DEF WalletTakes
<1>18. wallet'.received = joined /\ wallet'.sending = wallet.sending
  <2>1. wallet \in [received : Seq(Bytes), sending : Seq(Bytes)]
    BY DEF Shape, TypeOK
  <2> QED BY <1>17, <2>1
<1>19. Written' = Written
  <2>1. PICK a \in Nat : a = k - 1
    BY <1>10
  <2>2. PICK ap \in Nat : ap = a * p /\ (a + 1) * p = ap + p
    BY <1>7, <2>1, Multiple
  <2>3. Written' = (r + p) + ap
    BY <1>7, <1>10, <1>14, <1>18, <2>1, <2>2 DEF Written
  <2>4. Written = r + (ap + p)
    <3>1. k = a + 1
      BY <2>1
    <3> QED BY <1>5, <1>6, <1>7, <2>2, <3>1 DEF Written
  <2>5. (r + p) + ap = r + (ap + p)
    OBVIOUS
  <2> QED BY <2>3, <2>4, <2>5
<1>20. ASSUME NEW j \in 1 .. k - 1
       PROVE  IsPart(to_wallet'[j], m, (r + p) + (j - 1) * p)
  <2>1. PICK jp \in Nat : jp = (j - 1) * p /\ ((j - 1) + 1) * p = jp + p
    <3>1. j - 1 \in Nat
      OBVIOUS
    <3> QED BY <1>7, <3>1, Multiple
  <2>2. j + 1 \in 1 .. k /\ (j + 1) - 1 = (j - 1) + 1 /\ r + (jp + p) = (r + p) + jp
    BY <1>10
  <2> QED BY <1>10, <1>11, <2>1, <2>2
<1>21. /\ pc' \in {"write", "sync"} /\ NoMark(read_buffer') /\ to_host' = <<>>
       /\ msg_in' = m /\ buf' = buf
  BY <1>1, <1>3, <1>4 DEF Sending, NoMark, hostVars
<1> QED
  BY <1>3, <1>4, <1>7, <1>8, <1>10, <1>11, <1>14, <1>18, <1>19, <1>20, <1>21 DEF Sending

LEMMA WalletServesUndisturbed ==
  ASSUME Shape, Undisturbed, clean, NEW reply \in Replies, WalletServes(reply)
  PROVE  Serving' /\ pc = "sync" /\ served = NoMessage
PROOF
<1> DEFINE header == Rest(wallet.received, 2)
           size   == SizeOf(header)
<1>1. /\ Len(wallet.received) >= 2 + HeaderSize
      /\ Len(header) >= HeaderSize + size
      /\ wallet' = [received |-> <<>>, sending |-> Encode(reply)]
      /\ served' = [request |-> [id   |-> IdOf(header),
                                 data |-> First(Rest(header, HeaderSize), size)],
                    reply   |-> reply]
      /\ UNCHANGED <<hostVars, to_wallet, to_host, calls, failures, clean>>
  BY Zenon DEF WalletServes
<1>2. PICK r \in Nat : r = Len(wallet.received)
  BY Lengths
<1>3. wallet.received # <<>>
  BY <1>1, <1>2 DEF HeaderSize
<1>4. Sending /\ pc # "idle" /\ served = NoMessage
  BY <1>3 DEF Undisturbed, AtRest, Serving, Idle
<1>5. PICK m : m = msg_in
  OBVIOUS
<1>6. PICK s \in Nat : s = Len(m.data)
  BY <1>4, <1>5, MessageOfCall
<1>7. /\ Fits(m) /\ m \in Requests /\ Len(Encode(m)) = 8 + s
  BY <1>4, <1>5, <1>6, MessageOfCall DEF HeaderSize
<1>8. /\ r >= 8 /\ header \in Seq(Bytes) /\ Len(header) = r - 2
      /\ \A i \in 1 .. r - 2 : header[i] = wallet.received[2 + i]
  <2>1. r >= 8
    BY <1>1, <1>2 DEF HeaderSize
  <2>2. 2 \in 0 .. Len(wallet.received) /\ wallet.received \in Seq(Bytes)
    BY <1>2, <2>1, Lengths
  <2> QED BY <1>2, <2>1, <2>2, RestPart
<1>9. \A i \in 1 .. r : wallet.received[i] = Padded(m, i)
  BY <1>2, <1>4, <1>5 DEF Sending
<1> HIDE DEF header
<1>10. IdOf(header) = m.id /\ size = s
  <2>1. ASSUME NEW i \in 1 .. HeaderSize
        PROVE  header[i] = Encode(m)[2 + i]
    <3>1. i \in 1 .. r - 2 /\ 2 + i \in 1 .. r /\ 2 + i <= 8 + s
      BY <1>8 DEF HeaderSize
    <3> QED BY <1>7, <1>8, <1>9, <3>1 DEF Padded
  <2> QED BY <1>6, <1>7, <2>1, HeaderIsRead
<1> HIDE DEF size
<1>11. r >= 8 + s
  BY <1>1, <1>8, <1>10 DEF HeaderSize
<1>12. to_wallet = <<>>
  <2>1. SUFFICES ASSUME to_wallet # <<>> PROVE FALSE
    OBVIOUS
  <2>2. 1 \in 1 .. Len(to_wallet) /\ r + (1 - 1) * PayloadSize = r
    BY <2>1, Lengths, EmptySeq, WireAssumption
  <2>3. IsPart(to_wallet[1], m, r)
    BY <1>2, <1>4, <1>5, <2>2 DEF Sending
  <2>4. r < 8 + s
    BY <1>7, <2>3 DEF IsPart
  <2> QED BY <1>11, <2>4
<1>13. buf = <<>>
  <2>1. Written = r
    <3>1. PICK p \in Nat : p = PayloadSize
      BY WireAssumption
    <3>2. r + 0 * p = r
      OBVIOUS
    <3> QED BY <1>2, <1>12, <3>1, <3>2 DEF Written
  <2>2. ~(Written < Len(Encode(msg_in)))
    BY <1>5, <1>7, <1>11, <2>1
  <2>3. Len(buf) = 0
    BY <1>4, <2>2 DEF Sending
  <2> QED BY <2>3, Lengths, EmptySeq
<1>14. pc = "sync"
  BY <1>4, <1>13 DEF Sending, Shape, Calling
<1>15. PICK body : body = First(Rest(header, HeaderSize), s)
  OBVIOUS
<1>16. body = m.data
  <2> header \in Seq(Bytes)
    BY <1>8
  <2>1. HeaderSize \in 0 .. Len(header)
    BY <1>8 DEF HeaderSize
  <2>2. PICK rest : rest = Rest(header, HeaderSize)
    OBVIOUS
  <2>3. /\ rest \in Seq(Bytes) /\ Len(rest) = r - 8
        /\ \A i \in 1 .. r - 8 : rest[i] = header[6 + i]
    <3>1. /\ rest \in Seq(Bytes) /\ Len(rest) = Len(header) - HeaderSize
          /\ \A i \in 1 .. Len(header) - HeaderSize : rest[i] = header[HeaderSize + i]
      BY <2>1, <2>2, RestPart
    <3>2. Len(header) - HeaderSize = r - 8 /\ HeaderSize = 6
      BY <1>8 DEF HeaderSize
    <3> QED BY <3>1, <3>2
  <2>4. s \in 0 .. Len(rest)
    BY <1>11, <2>3
  <2>5. body \in Seq(Bytes) /\ Len(body) = s /\ \A i \in 1 .. s : body[i] = rest[i]
    BY <1>15, <2>2, <2>3, <2>4, FirstPart
  <2>6. ASSUME NEW i \in 1 .. s
        PROVE  body[i] = m.data[i]
    <3>1. /\ i \in 1 .. r - 8 /\ 6 + i \in 1 .. r - 2 /\ 2 + (6 + i) = 8 + i
          /\ 8 + i \in 1 .. r /\ 8 + i <= 8 + s
      BY <1>11
    <3>2. body[i] = Padded(m, 8 + i)
      BY <1>8, <1>9, <2>3, <2>5, <3>1
    <3>3. Padded(m, 8 + i) = Encode(m)[8 + i]
      BY <1>7, <3>1 DEF Padded
    <3>4. i \in 1 .. Len(m.data)
      BY <1>6
    <3> QED BY <1>7, <3>2, <3>3, <3>4, Encoded
  <2>7. m.data \in Seq(Bytes)
    BY <1>7 DEF Fits, Messages
  <2> QED BY <1>6, <2>5, <2>6, <2>7, SeqEqual
<1>17. served' = [request |-> m, reply |-> reply]
  <2>1. m = [id |-> m.id, data |-> m.data]
    BY <1>7 DEF Fits, Messages
  <2>2. served' = [request |-> [id |-> m.id, data |-> body], reply |-> reply]
    BY <1>1, <1>10, <1>15
  <2> QED BY <1>16, <2>1, <2>2
<1>18. /\ pc' = "sync" /\ to_wallet' = <<>> /\ to_host' = <<>> /\ msg_in' = m
       /\ NoMark(read_buffer) /\ read_buffer' = read_buffer
       /\ wallet'.received = <<>> /\ wallet'.sending = Encode(reply)
  BY <1>1, <1>4, <1>5, <1>12, <1>14 DEF hostVars, Sending
<1>19. served'.reply = reply
  BY <1>17
<1>20. PICK l \in Nat : l = Len(Encode(reply))
  BY ReplyFits, Encoded DEF HeaderSize
<1>21. PICK e : e = [j \in 1 .. 1 |-> 0]
  OBVIOUS
<1>22. e \in [1 .. Len(to_host') + 1 -> 0 .. Len(Encode(reply))] /\ e[1] = 0
  <2>1. Len(to_host') + 1 = 1
    BY <1>18
  <2> QED BY <1>20, <1>21, <2>1
<1>23. Stream(reply, e)'
  <2>1. Taken' = 0 /\ Len(to_host') = 0
    BY <1>18 DEF Taken
  <2>2. Carries(read_buffer', reply, 0, 0)
    BY <1>18, Lengths DEF Carries, NoMark
  <2> QED BY <1>18, <1>20, <1>22, <2>1, <2>2 DEF Stream
<1>24. Understood(reply)'
  BY <1>18 DEF Understood
<1> QED BY <1>4, <1>14, <1>17, <1>18, <1>19, <1>22, <1>23, <1>24 DEF Serving

-----------------------------------------------------------------------------
(* Undisturbed: the answer on its way back *)

\* The answer to the call is a message that fits.
LEMMA AnswerOfCall ==
  ASSUME Serving
  PROVE  /\ served.reply \in Replies /\ Fits(served.reply)
         /\ Encode(served.reply) \in Seq(Bytes) /\ Len(Encode(served.reply)) \in Nat
         /\ Len(served.reply.data) \in Nat
         /\ Len(Encode(served.reply)) = 2 + HeaderSize + Len(served.reply.data)
PROOF
<1>1. served.reply \in Replies
  BY DEF Serving
<1>2. /\ Fits(served.reply)
      /\ Encode(served.reply) \in Seq(Bytes) /\ Len(served.reply.data) \in Nat
      /\ Len(Encode(served.reply)) = 2 + HeaderSize + Len(served.reply.data)
  BY <1>1, ReplyFits, Encoded
<1> QED BY <1>1, <1>2 DEF HeaderSize

\* The bytes of a report that are filled up with zeros.
LEMMA FilledUp ==
  ASSUME NEW bytes \in Seq(Bytes), NEW n \in 0 .. PayloadSize, n = Len(bytes),
         NEW filled, filled = [i \in 1 .. PayloadSize |-> IF i <= n THEN bytes[i] ELSE 0]
  PROVE  /\ filled \in Seq(Bytes) /\ PayloadSize = Len(filled)
         /\ \A i \in 1 .. n : filled[i] = bytes[i]
         /\ \A i \in n + 1 .. PayloadSize : filled[i] = 0
PROOF
<1>1. ASSUME NEW i \in 1 .. PayloadSize
      PROVE  (IF i <= n THEN bytes[i] ELSE 0) \in Bytes
  <2>1. CASE i <= n
    BY <2>1, ElementOfSeq
  <2>2. CASE ~(i <= n)
    BY <2>2, ByteRange
  <2> QED BY <2>1, <2>2
<1>2. filled \in Seq(Bytes) /\ Len(filled) = PayloadSize
  BY <1>1, WireAssumption
<1>3. \A i \in 1 .. n : filled[i] = bytes[i]
  BY WireAssumption
<1>4. \A i \in n + 1 .. PayloadSize : filled[i] = 0
  BY WireAssumption
<1> QED BY <1>2, <1>3, <1>4

\* A report of the wallet holds the next bytes of its answer: just those, or
\* those and a length byte that ends them, or the last ones and padding.
LEMMA ReportCarries ==
  ASSUME NEW m, NEW lo \in Nat, NEW hi \in Nat,
         NEW bytes \in Seq(Bytes), Len(bytes) = hi - lo, Len(bytes) <= PayloadSize,
         \A i \in 1 .. Len(bytes) : bytes[i] = Encode(m)[lo + i],
         NEW filled \in Seq(Bytes), PayloadSize = Len(filled),
         \A i \in 1 .. Len(bytes) : filled[i] = bytes[i],
         \A i \in Len(bytes) + 1 .. PayloadSize : filled[i] = 0,
         NEW report \in Reports,
         \/ report.size = PayloadSize /\ report.payload = bytes
         \/ report.size = Len(bytes) /\ report.payload = filled
         \/ report.size = PayloadSize /\ report.payload = filled /\ hi = Len(Encode(m))
  PROVE  Carries(Payload(report), m, lo, hi)
PROOF
<1>1. PICK n \in Nat : n = Len(bytes)
  BY LenProperties
<1>2. PayloadSize \in Nat /\ hi - lo = n
  BY <1>1, WireAssumption
<1>3. PICK f : f = Payload(report)
  OBVIOUS
<1>4. /\ Len(f) = Minimum(report.size, Len(report.payload))
      /\ \A i \in 1 .. Len(f) : f[i] = report.payload[i]
  BY <1>3, Unpacked
<1>5. CASE \/ report.size = PayloadSize /\ report.payload = bytes
           \/ report.size = Len(bytes) /\ report.payload = filled
  <2>1. Len(f) = n
    BY <1>1, <1>2, <1>4, <1>5 DEF Minimum
  <2>2. \A i \in 1 .. n : f[i] = Encode(m)[lo + i]
    BY <1>1, <1>4, <1>5, <2>1
  <2> QED BY <1>2, <1>3, <2>1, <2>2 DEF Carries
<1>6. CASE report.size = PayloadSize /\ report.payload = filled /\ hi = Len(Encode(m))
  <2>1. Len(f) = PayloadSize
    BY <1>1, <1>2, <1>4, <1>6 DEF Minimum
  <2>2. ASSUME NEW i \in 1 .. n
        PROVE  f[i] = Encode(m)[lo + i]
    BY <1>1, <1>2, <1>4, <1>6, <2>1
  <2>3. ASSUME NEW i \in n + 1 .. PayloadSize
        PROVE  f[i] # Mark
    BY <1>1, <1>2, <1>4, <1>6, <2>1, ByteRange
  <2> QED BY <1>1, <1>2, <1>3, <1>6, <2>1, <2>2, <2>3 DEF Carries
<1> QED BY <1>1, <1>5, <1>6

LEMMA TakenIsNumber ==
  ASSUME Shape
  PROVE  Taken \in Nat
PROOF
<1>1. PICK k \in Nat : k = Len(data)
  BY Lengths
<1>2. 2 + k \in Nat /\ (2 + HeaderSize) + k \in Nat
  BY DEF HeaderSize
<1> QED BY <1>1, <1>2 DEF Taken

LEMMA WalletSendsUndisturbed ==
  ASSUME Shape, Undisturbed, NEW cut \in Cuts, WalletSends(cut)
  PROVE  Undisturbed'
PROOF
<1> DEFINE n      == Minimum(cut, Len(wallet.sending))
           bytes  == First(wallet.sending, n)
           filled == [i \in 1 .. PayloadSize |-> IF i <= n THEN bytes[i] ELSE 0]
<1>1. /\ wallet.sending # <<>>
      /\ \/ to_host' = Append(to_host, [size |-> PayloadSize, payload |-> bytes])
         \/ to_host' = Append(to_host, [size |-> n, payload |-> filled])
         \/ /\ n = Len(wallet.sending)
            /\ to_host' = Append(to_host, [size |-> PayloadSize, payload |-> filled])
      /\ wallet' = [wallet EXCEPT !.sending = Rest(@, n)]
      /\ UNCHANGED <<hostVars, to_wallet, clean, served>>
  BY DEF WalletSends
<1>2. pc' = pc /\ clean' = clean /\ served' = served /\ msg_in' = msg_in /\ data' = data
      /\ read_buffer' = read_buffer /\ want' = want /\ msg_out' = msg_out
  BY <1>1 DEF hostVars
<1> SUFFICES ASSUME clean PROVE Serving' /\ pc # "idle" /\ served # NoMessage
  BY <1>2 DEF Undisturbed
<1>3. Serving /\ pc # "idle" /\ served # NoMessage
  BY <1>1 DEF Undisturbed, AtRest, Sending, Idle
<1>4. PICK m : m = served.reply
  OBVIOUS
<1>5. PICK l \in Nat : l = Len(Encode(m))
  BY <1>3, <1>4, AnswerOfCall
<1>6. PICK k \in Nat : k = Len(to_host)
  BY Lengths
<1>7. PICK e \in [1 .. k + 1 -> 0 .. l] : Stream(m, e)
  BY <1>3, <1>4, <1>5, <1>6 DEF Serving
<1>8. PICK lo \in 0 .. l : lo = e[k + 1]
  BY <1>7
<1>9. PICK sending \in Seq(Bytes) : sending = wallet.sending
  BY Lengths
<1>10. /\ Taken <= e[1] /\ Carries(read_buffer, m, Taken, e[1])
       /\ \A j \in 1 .. k : e[j] < e[j + 1] /\ Carries(Payload(to_host[j]), m, e[j], e[j + 1])
       /\ Len(sending) = l - lo
       /\ \A i \in 1 .. Len(sending) : sending[i] = Encode(m)[lo + i]
  BY <1>5, <1>6, <1>7, <1>8, <1>9 DEF Stream
<1>11. /\ n \in Nat \ {0} /\ n \in 0 .. Len(sending) /\ n <= PayloadSize
  <2>1. cut \in 1 .. PayloadSize /\ Len(sending) \in Nat \ {0}
    BY <1>1, <1>9, CallAssumption, EmptySeq, LenProperties
  <2> QED BY <1>9, <2>1, WireAssumption DEF Minimum
<1> HIDE DEF n
<1>12. /\ bytes \in Seq(Bytes) /\ n = Len(bytes) /\ \A i \in 1 .. n : bytes[i] = sending[i]
       /\ Rest(sending, n) \in Seq(Bytes) /\ Len(Rest(sending, n)) = Len(sending) - n
       /\ \A i \in 1 .. Len(sending) - n : Rest(sending, n)[i] = sending[n + i]
  <2>1. bytes = First(sending, n)
    BY <1>9, Zenon
  <2> HIDE DEF bytes
  <2>2. bytes \in Seq(Bytes) /\ n = Len(bytes) /\ \A i \in 1 .. n : bytes[i] = sending[i]
    BY <1>11, <2>1, FirstPart
  <2> QED BY <1>11, <2>2, RestPart
<1>13. n \in 0 .. PayloadSize
  BY <1>11, WireAssumption
<1> HIDE DEF bytes
<1>14. /\ filled \in Seq(Bytes) /\ PayloadSize = Len(filled)
       /\ \A i \in 1 .. n : filled[i] = bytes[i]
       /\ \A i \in n + 1 .. PayloadSize : filled[i] = 0
  BY <1>12, <1>13, FilledUp
<1> HIDE DEF filled
<1>15. PICK hi \in 0 .. l : hi = lo + n
  BY <1>10, <1>11
<1>16. PICK report \in Reports :
         /\ to_host' = Append(to_host, report)
         /\ \/ report.size = PayloadSize /\ report.payload = bytes
            \/ report.size = n /\ report.payload = filled
            \/ report.size = PayloadSize /\ report.payload = filled /\ hi = l
  <2>1. PayloadSize \in 0 .. PayloadSize
    BY WireAssumption
  <2>2. /\ [size |-> PayloadSize, payload |-> bytes] \in Reports
        /\ [size |-> n, payload |-> filled] \in Reports
        /\ [size |-> PayloadSize, payload |-> filled] \in Reports
    BY <1>12, <1>13, <1>14, <2>1 DEF Reports
  <2>3. n = Len(wallet.sending) => hi = l
    BY <1>9, <1>10, <1>15
  <2> QED BY <1>1, <2>2, <2>3
<1>17. Carries(Payload(report), m, lo, hi)
  <2>1. lo \in Nat /\ hi \in Nat /\ bytes \in Seq(Bytes) /\ filled \in Seq(Bytes)
    BY <1>12, <1>14
  <2>2. Len(bytes) = hi - lo /\ Len(bytes) <= PayloadSize
    BY <1>11, <1>12, <1>15
  <2>3. ASSUME NEW i \in 1 .. Len(bytes)
        PROVE  bytes[i] = Encode(m)[lo + i] /\ filled[i] = bytes[i]
    <3>1. i \in 1 .. Len(sending) /\ i \in 1 .. n
      BY <1>10, <1>11, <1>12
    <3>2. bytes[i] = sending[i] /\ filled[i] = bytes[i]
      BY <1>12, <1>14, <3>1
    <3> QED BY <1>10, <3>1, <3>2
  <2>4. /\ PayloadSize = Len(filled)
        /\ \A i \in Len(bytes) + 1 .. PayloadSize : filled[i] = 0
    BY <1>12, <1>14
  <2>5. \/ report.size = PayloadSize /\ report.payload = bytes
        \/ report.size = Len(bytes) /\ report.payload = filled
        \/ report.size = PayloadSize /\ report.payload = filled /\ hi = Len(Encode(m))
    BY <1>5, <1>12, <1>16
  <2>6. ASSUME NEW a \in Nat, a = lo, NEW z \in Nat, z = hi,
               NEW b \in Seq(Bytes), b = bytes, NEW f \in Seq(Bytes), f = filled
        PROVE  Carries(Payload(report), m, a, z)
    <3>1. /\ Len(b) = z - a /\ Len(b) <= PayloadSize
          /\ \A i \in 1 .. Len(b) : b[i] = Encode(m)[a + i]
      BY <2>2, <2>3, <2>6
    <3>2. /\ PayloadSize = Len(f)
          /\ \A i \in 1 .. Len(b) : f[i] = b[i]
          /\ \A i \in Len(b) + 1 .. PayloadSize : f[i] = 0
      BY <2>3, <2>4, <2>6
    <3>3. \/ report.size = PayloadSize /\ report.payload = b
          \/ report.size = Len(b) /\ report.payload = f
          \/ report.size = PayloadSize /\ report.payload = f /\ z = Len(Encode(m))
      BY <2>5, <2>6
    <3> HIDE <2>6
    <3> QED BY <3>1, <3>2, <3>3, ReportCarries
  <2> QED BY <2>1, <2>6
<1>18. /\ Len(to_host') = k + 1
       /\ \A j \in 1 .. k : to_host'[j] = to_host[j]
       /\ to_host'[k + 1] = report
  BY <1>6, <1>16, Lengths, AppendProperties
<1>19. PICK e2 : e2 = [j \in 1 .. (k + 1) + 1 |-> IF j <= k + 1 THEN e[j] ELSE hi]
  OBVIOUS
<1>20. /\ e2 \in [1 .. (k + 1) + 1 -> 0 .. l]
       /\ \A j \in 1 .. k + 1 : e2[j] = e[j]
       /\ e2[(k + 1) + 1] = hi
  BY <1>19
<1>21. wallet'.sending = Rest(sending, n) /\ wallet'.received = wallet.received
  <2>1. wallet \in [received : Seq(Bytes), sending : Seq(Bytes)]
    BY DEF Shape, TypeOK
  <2> QED BY <1>1, <1>9, <2>1
<1>22. Taken' = Taken /\ 1 \in 1 .. k + 1
  BY <1>2 DEF Taken
<1>23. ASSUME NEW j \in 1 .. k + 1
       PROVE  e2[j] < e2[j + 1] /\ Carries(Payload(to_host'[j]), m, e2[j], e2[j + 1])
  <2>1. CASE j <= k
    <3>1. j \in 1 .. k /\ j + 1 \in 1 .. k + 1
      BY <2>1
    <3> QED BY <1>10, <1>18, <1>20, <3>1
  <2>2. CASE j = k + 1
    BY <1>8, <1>11, <1>15, <1>17, <1>18, <1>20, <2>2
  <2> QED BY <2>1, <2>2
<1>24. /\ Len(wallet'.sending) = l - hi
       /\ \A i \in 1 .. Len(wallet'.sending) : wallet'.sending[i] = Encode(m)[hi + i]
  <2>1. Len(wallet'.sending) = l - hi
    BY <1>10, <1>11, <1>12, <1>15, <1>21
  <2>2. ASSUME NEW i \in 1 .. l - hi
        PROVE  wallet'.sending[i] = Encode(m)[hi + i]
    <3>1. i \in 1 .. Len(sending) - n /\ n + i \in 1 .. Len(sending) /\ lo + (n + i) = hi + i
      BY <1>10, <1>11, <1>15
    <3> QED BY <1>10, <1>12, <1>21, <3>1
  <2> QED BY <2>1, <2>2
<1>25. Stream(m, e2)'
  BY <1>2, <1>5, <1>10, <1>18, <1>20, <1>22, <1>23, <1>24 DEF Stream
<1>26. Understood(m)'
  BY <1>2, <1>3, <1>4 DEF Serving, Understood
<1>27. /\ served' \in [request : {msg_in'}, reply : Replies] /\ served'.reply = m
       /\ pc' # "write" /\ to_wallet' = <<>> /\ wallet'.received = <<>>
  BY <1>1, <1>2, <1>3, <1>4, <1>21 DEF Serving
<1>28. e2 \in [1 .. Len(to_host') + 1 -> 0 .. Len(Encode(m))]
  BY <1>5, <1>18, <1>20
<1> QED BY <1>3, <1>25, <1>26, <1>27, <1>28 DEF Serving

LEMMA BufferReportUndisturbed ==
  ASSUME Shape, Undisturbed, BufferReport
  PROVE  Undisturbed'
PROOF
<1>1. /\ pc \in Phases /\ read_buffer = <<>> /\ to_host # <<>>
      /\ read_buffer' = Payload(Head(to_host)) /\ to_host' = Tail(to_host)
      /\ UNCHANGED <<pc, data, want, msg_in, msg_out, to_wallet, wallet, clean, served>>
  BY DEF BufferReport
<1> SUFFICES ASSUME clean PROVE Serving' /\ pc # "idle" /\ served # NoMessage
  BY <1>1 DEF Undisturbed
<1>2. Serving /\ pc # "idle" /\ served # NoMessage
  BY <1>1 DEF Undisturbed, Sending, Phases
<1>3. PICK m : m = served.reply
  OBVIOUS
<1>4. PICK l \in Nat : l = Len(Encode(m))
  BY <1>2, <1>3, AnswerOfCall
<1>5. PICK k \in Nat : k + 1 = Len(to_host)
  <2>1. Len(to_host) \in Nat \ {0}
    BY <1>1, Lengths, EmptySeq
  <2>2. Len(to_host) - 1 \in Nat /\ (Len(to_host) - 1) + 1 = Len(to_host)
    BY <2>1
  <2> QED BY <2>2
<1>6. PICK e \in [1 .. (k + 1) + 1 -> 0 .. l] : Stream(m, e)
  BY <1>2, <1>3, <1>4, <1>5 DEF Serving
<1>7. /\ Taken <= e[1] /\ Carries(read_buffer, m, Taken, e[1])
      /\ \A j \in 1 .. k + 1 : e[j] < e[j + 1] /\ Carries(Payload(to_host[j]), m, e[j], e[j + 1])
      /\ Len(wallet.sending) = l - e[(k + 1) + 1]
      /\ \A i \in 1 .. Len(wallet.sending) : wallet.sending[i] = Encode(m)[e[(k + 1) + 1] + i]
  BY <1>4, <1>5, <1>6 DEF Stream
<1>8. Taken \in Nat /\ 1 \in 1 .. (k + 1) + 1 /\ e[1] \in 0 .. l
  <2>1. 1 \in 1 .. (k + 1) + 1
    OBVIOUS
  <2> QED BY <1>6, <2>1, TakenIsNumber
<1>9. Taken = e[1]
  <2>1. e[1] - Taken <= 0
    BY <1>1, <1>7 DEF Carries
  <2> QED BY <1>7, <1>8, <2>1
<1>10. /\ Head(to_host) = to_host[1] /\ Len(to_host') = k
       /\ \A j \in 1 .. k : to_host'[j] = to_host[j + 1]
  BY <1>1, <1>5, Lengths, HeadTailProperties
<1>11. PICK e2 : e2 = [j \in 1 .. k + 1 |-> e[j + 1]]
  OBVIOUS
<1>12. e2 \in [1 .. k + 1 -> 0 .. l] /\ \A j \in 1 .. k + 1 : e2[j] = e[j + 1]
  BY <1>11
<1>13. Taken' = Taken
  BY <1>1 DEF Taken
<1>14. 1 \in 1 .. k + 1 /\ k + 1 \in 1 .. k + 1
  OBVIOUS
<1>15. Taken' <= e2[1] /\ Carries(read_buffer', m, Taken', e2[1])
  <2>1. e[1] < e[1 + 1] /\ Carries(Payload(to_host[1]), m, e[1], e[1 + 1]) /\ e2[1] = e[1 + 1]
    BY <1>7, <1>12, <1>14
  <2>2. e[1 + 1] \in 0 .. l
    BY <1>12, <1>14
  <2> QED BY <1>1, <1>8, <1>9, <1>10, <1>13, <2>1, <2>2
<1>16. ASSUME NEW j \in 1 .. k
       PROVE  e2[j] < e2[j + 1] /\ Carries(Payload(to_host'[j]), m, e2[j], e2[j + 1])
  <2>1. j \in 1 .. k + 1 /\ j + 1 \in 1 .. k + 1
    OBVIOUS
  <2> QED BY <1>7, <1>10, <1>12, <2>1
<1>17. /\ Len(wallet'.sending) = l - e2[k + 1]
       /\ \A i \in 1 .. Len(wallet'.sending) : wallet'.sending[i] = Encode(m)[e2[k + 1] + i]
  BY <1>1, <1>7, <1>12, <1>14
<1>18. Stream(m, e2)'
  BY <1>4, <1>10, <1>12, <1>15, <1>16, <1>17 DEF Stream
<1>19. Understood(m)'
  BY <1>1, <1>2, <1>3 DEF Serving, Understood
<1>20. /\ served' \in [request : {msg_in'}, reply : Replies] /\ served'.reply = m
       /\ pc' # "write" /\ to_wallet' = <<>> /\ wallet'.received = <<>>
  BY <1>1, <1>2, <1>3 DEF Serving
<1>21. e2 \in [1 .. Len(to_host') + 1 -> 0 .. Len(Encode(m))]
  BY <1>4, <1>10, <1>12
<1> QED BY <1>2, <1>18, <1>19, <1>20, <1>21 DEF Serving

\* Reading on among the bytes of a message.
LEMMA Consumed ==
  ASSUME NEW m, NEW lo \in Nat, NEW hi \in Nat, NEW b \in Seq(Bytes), Carries(b, m, lo, hi),
         NEW n \in 0 .. Len(b), lo + n <= hi
  PROVE  /\ \A i \in 1 .. n : b[i] = Encode(m)[lo + i]
         /\ Carries(Rest(b, n), m, lo + n, hi)
PROOF
<1>1. PICK c \in Nat : c = Len(b)
  BY LenProperties
<1>2. PICK r : r = Rest(b, n)
  OBVIOUS
<1>3. /\ r \in Seq(Bytes) /\ Len(r) = c - n
      /\ \A i \in 1 .. c - n : r[i] = b[n + i]
  BY <1>1, <1>2, RestPart
<1>4. PICK d \in Nat : d = hi - lo /\ n <= d
  OBVIOUS
<1>5. /\ d <= c /\ \A i \in 1 .. d : b[i] = Encode(m)[lo + i]
      /\ \A i \in d + 1 .. c : b[i] # Mark
      /\ d < c => hi \in {0, Len(Encode(m))}
  BY <1>1, <1>4 DEF Carries
<1>6. hi - (lo + n) = d - n
  BY <1>4
<1>7. ASSUME NEW i \in 1 .. d - n
      PROVE  r[i] = Encode(m)[(lo + n) + i]
  <2>1. i \in 1 .. c - n /\ n + i \in 1 .. d /\ lo + (n + i) = (lo + n) + i
    BY <1>4, <1>5
  <2> QED BY <1>3, <1>5, <2>1
<1>8. ASSUME NEW i \in (d - n) + 1 .. c - n
      PROVE  r[i] # Mark
  <2>1. i \in 1 .. c - n /\ n + i \in d + 1 .. c
    BY <1>4, <1>5
  <2> QED BY <1>3, <1>5, <2>1
<1>9. d - n <= c - n /\ (d - n < c - n => d < c)
  BY <1>1, <1>4, <1>5
<1>10. Carries(r, m, lo + n, hi)
  BY <1>3, <1>5, <1>6, <1>7, <1>8, <1>9 DEF Carries
<1>11. ASSUME NEW i \in 1 .. n
       PROVE  b[i] = Encode(m)[lo + i]
  <2>1. i \in 1 .. d
    BY <1>4
  <2> QED BY <1>5, <2>1
<1> QED BY <1>2, <1>10, <1>11

\* What is read of a message that has begun, up to its end, is all there.
LEMMA WithinAnswer ==
  ASSUME NEW m, NEW lo \in Nat \ {0}, NEW hi \in Nat, lo <= hi,
         NEW b \in Seq(Bytes), Carries(b, m, lo, hi),
         NEW n \in 0 .. Len(b), lo + n <= Len(Encode(m))
  PROVE  lo + n <= hi
PROOF
<1>1. PICK c \in Nat : c = Len(b)
  BY LenProperties
<1>2. hi - lo <= c /\ (hi - lo < c => hi \in {0, Len(Encode(m))})
  BY <1>1 DEF Carries
<1>3. CASE hi - lo < c
  BY <1>2, <1>3
<1>4. CASE ~(hi - lo < c)
  BY <1>1, <1>2, <1>4
<1> QED BY <1>3, <1>4

\* With n more bytes of read_buffer, what read_buffered has read is got.
ReadsOn(n, got) ==
  /\ n \in 0 .. Len(read_buffer) /\ n <= want /\ (want >= 1 => n >= 1)
  /\ got \in Seq(Bytes) /\ Len(got) = Len(data) + n
  /\ \A i \in 1 .. Len(data) : got[i] = data[i]
  /\ \A i \in 1 .. n : got[Len(data) + i] = read_buffer[i]

LEMMA ItReadsOn ==
  ASSUME Shape, pc \in Phases, read_buffer # <<>>,
         NEW n, n = Minimum(Len(read_buffer), want)
  PROVE  ReadsOn(n, data \o First(read_buffer, n))
PROOF
  BY Gets, Zenon DEF ReadsOn

\* Once the marks have begun, read_from reads the wallet's answer.
LEMMA ReadsAnswer ==
  ASSUME Shape, Undisturbed, clean, pc \in {"mark", "header", "body"}, read_buffer # <<>>,
         NEW m, m = served.reply,
         NEW n, NEW got, ReadsOn(n, got)
  PROVE  /\ Serving /\ served # NoMessage
         /\ pc = "mark" => got[1] = Mark
         /\ pc = "header" => \A i \in 1 .. Len(data) + n : got[i] = Encode(m)[2 + i]
         /\ pc = "body" => \A i \in 1 .. Len(data) + n : got[i] = m.data[i]
         /\ \A e \in [1 .. Len(to_host) + 1 -> 0 .. Len(Encode(m))] :
              Stream(m, e) => /\ Taken + n <= e[1]
                              /\ Carries(Rest(read_buffer, n), m, Taken + n, e[1])
PROOF
<1>1. Serving /\ served # NoMessage
  BY DEF Undisturbed, Sending
<1>2. PICK l \in Nat, s \in Nat : /\ l = Len(Encode(m)) /\ s = Len(m.data)
                                  /\ Fits(m) /\ l = 8 + s
  BY <1>1, AnswerOfCall DEF HeaderSize
<1>3. PICK d \in Nat, b \in Nat : d = Len(data) /\ b = Len(read_buffer)
  BY Lengths
<1>4. PICK q, g : q = n /\ g = got
  OBVIOUS
<1>5. /\ q \in 0 .. b /\ q <= want /\ (want >= 1 => q >= 1) /\ want \in Nat
      /\ \A i \in 1 .. d : g[i] = data[i]
      /\ \A i \in 1 .. q : g[d + i] = read_buffer[i]
  BY <1>3, <1>4, Lengths DEF ReadsOn
<1>6. PICK t \in Nat : t = Taken
  BY TakenIsNumber
<1>7. /\ pc = "mark" => t = 1 /\ d = 0 /\ want = 1 /\ q = 1
      /\ pc = "header" => t = 2 + d /\ d + want = 6
      /\ pc = "body" => t = 8 + d /\ d + want = s
  <2>1. pc = "mark" => d = 0 /\ want = 1
    BY <1>3 DEF Shape, Reading
  <2>2. pc = "header" => d + want = 6
    BY <1>3 DEF Shape, Reading, HeaderSize
  <2>3. pc = "body" => d + want = s
    BY <1>1, <1>2, <1>3 DEF Serving, Understood
  <2>4. /\ pc = "mark" => t = 1
        /\ pc = "header" => t = 2 + d
        /\ pc = "body" => t = 8 + d
    BY <1>3, <1>6 DEF Taken, HeaderSize
  <2> QED BY <1>5, <2>1, <2>2, <2>3, <2>4
<1>8. t + q <= l /\ t \in Nat \ {0}
  BY <1>2, <1>5, <1>7
<1>9. ASSUME NEW e \in [1 .. Len(to_host) + 1 -> 0 .. Len(Encode(m))], Stream(m, e)
      PROVE  /\ t + q <= e[1] /\ Carries(Rest(read_buffer, q), m, t + q, e[1])
             /\ \A i \in 1 .. q : read_buffer[i] = Encode(m)[t + i]
  <2>1. e[1] \in Nat
    <3>1. PICK k \in Nat : k = Len(to_host)
      BY Lengths
    <3>2. 1 \in 1 .. k + 1
      OBVIOUS
    <3> QED BY <1>2, <3>1, <3>2
  <2>2. t <= e[1] /\ Carries(read_buffer, m, t, e[1]) /\ read_buffer \in Seq(Bytes)
    BY <1>6, <1>9, Lengths DEF Stream
  <2>3. PICK h \in Nat : h = e[1]
    BY <2>1
  <2>4. q \in 0 .. Len(read_buffer) /\ t + q <= Len(Encode(m))
    BY <1>2, <1>3, <1>5, <1>8
  <2>5. t + q <= h
    BY <1>8, <2>2, <2>3, <2>4, WithinAnswer
  <2>6. /\ Carries(Rest(read_buffer, q), m, t + q, h)
        /\ \A i \in 1 .. q : read_buffer[i] = Encode(m)[t + i]
    BY <2>2, <2>3, <2>4, <2>5, Consumed
  <2> QED BY <2>3, <2>5, <2>6
<1>10. \A i \in 1 .. q : read_buffer[i] = Encode(m)[t + i]
  BY <1>1, <1>9 DEF Serving
<1>11. ASSUME pc = "mark"
       PROVE  g[1] = Mark
  <2>1. g[0 + 1] = read_buffer[1] /\ read_buffer[1] = Encode(m)[1 + 1] /\ 1 + 1 = 2 /\ 0 + 1 = 1
    BY <1>5, <1>7, <1>10, <1>11
  <2> QED BY <1>2, <2>1, Encoded
<1>12. ASSUME pc = "header", NEW i \in 1 .. d + q
       PROVE  g[i] = Encode(m)[2 + i]
  <2>1. CASE i <= d
    <3>1. data[i] = Encode(m)[2 + i]
      BY <1>1, <1>3, <1>12, <2>1 DEF Serving, Understood
    <3> QED BY <1>5, <2>1, <3>1
  <2>2. CASE i > d
    <3>1. PICK j \in 1 .. q : i = d + j
      <4>1. i - d \in 1 .. q /\ i = d + (i - d)
        BY <1>5, <2>2
      <4> QED BY <4>1
    <3>2. t + j = 2 + i
      BY <1>7, <1>12, <3>1
    <3> QED BY <1>5, <1>10, <3>1, <3>2
  <2> QED BY <1>5, <2>1, <2>2
<1>13. ASSUME pc = "body", NEW i \in 1 .. d + q
       PROVE  g[i] = m.data[i]
  <2>1. CASE i <= d
    <3>1. data[i] = m.data[i]
      BY <1>1, <1>3, <1>13, <2>1 DEF Serving, Understood
    <3> QED BY <1>5, <2>1, <3>1
  <2>2. CASE i > d
    <3>1. PICK j \in 1 .. q : i = d + j
      <4>1. i - d \in 1 .. q /\ i = d + (i - d)
        BY <1>5, <2>2
      <4> QED BY <4>1
    <3>2. t + j = 8 + i /\ i \in 1 .. s
      BY <1>5, <1>7, <1>13, <3>1
    <3>3. Encode(m)[8 + i] = m.data[i]
      BY <1>2, <3>2, Encoded
    <3> QED BY <1>5, <1>10, <3>1, <3>2, <3>3
  <2> QED BY <1>5, <2>1, <2>2
<1> QED BY <1>1, <1>3, <1>4, <1>6, <1>9, <1>11, <1>12, <1>13

\* read_from finds nothing wrong with the wallet's answer.
LEMMA NothingMalformed ==
  ASSUME Shape, Undisturbed, clean
  PROVE  ~HeaderThrows
PROOF
<1> SUFFICES ASSUME HeaderThrows PROVE FALSE
  OBVIOUS
<1> DEFINE n   == Minimum(Len(read_buffer), want)
           got == data \o First(read_buffer, n)
<1>1. /\ pc \in {"mark", "header"} /\ read_buffer # <<>>
      /\ n = want
      /\ IF pc = "mark" THEN got[1] # Mark ELSE TooBig(got)
  BY Zenon DEF HeaderThrows
<1>2. PICK m : m = served.reply
  OBVIOUS
<1>3. pc \in {"mark", "header", "body"}
  BY <1>1
<1>4. ReadsOn(n, got)
  <2>1. pc \in Phases
    BY <1>1 DEF Phases
  <2> QED BY <1>1, <2>1, ItReadsOn, Zenon
<1> HIDE DEF got, n
<1>5. /\ Serving
      /\ pc = "mark" => got[1] = Mark
      /\ pc = "header" => \A i \in 1 .. Len(data) + n : got[i] = Encode(m)[2 + i]
  BY <1>1, <1>2, <1>3, <1>4, ReadsAnswer
<1>6. pc = "header" /\ SizeOf(got) > MaxSize
  BY <1>1, <1>5 DEF TooBig
<1>7. \A i \in 1 .. HeaderSize : got[i] = Encode(m)[2 + i]
  <2>1. Len(data) + n = HeaderSize
    BY <1>1, <1>6 DEF Shape, Reading
  <2> QED BY <1>5, <1>6, <2>1
<1>8. m \in Replies
  BY <1>2, <1>5 DEF Serving
<1>9. SizeOf(got) = Len(m.data)
  BY <1>7, <1>8, ReplyFits, HeaderIsRead
<1>10. Len(m.data) <= MaxSize /\ Len(m.data) \in Nat
  BY <1>8, ReplyFits, Encoded
<1> QED BY <1>6, <1>9, <1>10, WireAssumption

\* read_buffered passes over what is left of the answer before.
LEMMA PassesOver ==
  ASSUME Shape, Sending, ReadFromBuffer
  PROVE  Sending' /\ pc' # "idle"
PROOF
<1> DEFINE n   == Minimum(Len(read_buffer), want)
           got == data \o First(read_buffer, n)
<1>1. pc = "sync" /\ read_buffer # <<>> /\ pc \in Phases
  BY DEF ReadFromBuffer, Sending, Phases
<1>2. /\ n \in 0 .. Len(read_buffer) /\ n <= want /\ (want >= 1 => n >= 1)
      /\ \A i \in 1 .. n : got[Len(data) + i] = read_buffer[i]
      /\ Len(read_buffer) \in Nat
      /\ Len(Rest(read_buffer, n)) = Len(read_buffer) - n
      /\ \A i \in 1 .. Len(read_buffer) - n : Rest(read_buffer, n)[i] = read_buffer[n + i]
  BY <1>1, Gets, Zenon
<1>3. /\ read_buffer' = Rest(read_buffer, n)
      /\ n = want => /\ Read(IF got[1] = Mark THEN "mark" ELSE "sync", 1)
                     /\ UNCHANGED <<opened, buf, msg_in, msg_out, result>>
      /\ n < want \/ n = want
      /\ UNCHANGED <<walletVars, calls, failures, clean>>
  <2>1. /\ read_buffer' = Rest(read_buffer, n)
        /\ \/ n < want
           \/ /\ n = want /\ pc = "sync"
              /\ Read(IF got[1] = Mark THEN "mark" ELSE "sync", 1)
              /\ UNCHANGED <<opened, buf, msg_in, msg_out, result>>
           \/ n = want /\ pc \in {"mark", "header", "body"}
        /\ UNCHANGED <<walletVars, calls, failures, clean>>
    BY Zenon DEF ReadFromBuffer
  <2> HIDE DEF n, got
  <2> QED BY <1>1, <1>2, <2>1
<1> HIDE DEF n, got
<1>4. data = <<>> /\ want = 1
  BY <1>1 DEF Shape, Reading
<1>5. n = 1 /\ got[1] = read_buffer[1] /\ Len(read_buffer) >= 1
  <2>1. n = 1 /\ Len(data) = 0 /\ Len(read_buffer) >= 1
    BY <1>2, <1>4
  <2> QED BY <1>2, <2>1
<1>6. NoMark(read_buffer)
  BY DEF Sending
<1>7. got[1] # Mark
  BY <1>2, <1>5, <1>6 DEF NoMark
<1>8. pc' = "sync" /\ buf' = buf /\ msg_in' = msg_in
  BY <1>3, <1>4, <1>5, <1>7 DEF Read
<1>9. NoMark(read_buffer')
  <2>1. ASSUME NEW i \in 1 .. Len(read_buffer')
        PROVE  read_buffer'[i] # Mark
    <3>1. i \in 1 .. Len(read_buffer) - n /\ n + i \in 1 .. Len(read_buffer)
      BY <1>2, <1>3, <1>5
    <3> QED BY <1>2, <1>3, <1>6, <3>1 DEF NoMark
  <2> QED BY <2>1 DEF NoMark
<1>10. to_wallet' = to_wallet /\ to_host' = to_host /\ wallet' = wallet
  BY <1>3 DEF walletVars
<1>11. Written' = Written
  BY <1>10 DEF Written
<1> QED BY <1>8, <1>9, <1>10, <1>11 DEF Sending

\* Whatever is read of the answer, the rest of it is where it was.
LEMMA StreamGoesOn ==
  ASSUME NEW m, NEW e, Stream(m, e), to_host' = to_host, wallet' = wallet,
         Taken' <= e[1], Carries(read_buffer', m, Taken', e[1])
  PROVE  Stream(m, e)'
PROOF
  BY DEF Stream

\* What stays as it is while read_from reads.
LEMMA StillServing ==
  ASSUME Serving, NEW m, m = served.reply, pc' # "write", msg_in' = msg_in,
         UNCHANGED walletVars, Understood(m)',
         NEW e \in [1 .. Len(to_host) + 1 -> 0 .. Len(Encode(m))], Stream(m, e),
         Taken' <= e[1], Carries(read_buffer', m, Taken', e[1])
  PROVE  Serving'
PROOF
<1>1. to_host' = to_host /\ wallet' = wallet /\ to_wallet' = to_wallet /\ served' = served
  BY DEF walletVars
<1>2. Stream(m, e)'
  BY <1>1, StreamGoesOn
<1>3. e \in [1 .. Len(to_host') + 1 -> 0 .. Len(Encode(m))] /\ m = served'.reply
  BY <1>1
<1> QED BY <1>1, <1>2, <1>3 DEF Serving

\* The marks begin where the answer does.
LEMMA FindsMarks ==
  ASSUME Shape, Serving, pc = "sync", read_buffer # <<>>, NEW n, NEW got, ReadsOn(n, got),
         n = want, read_buffer' = Rest(read_buffer, n),
         Read(IF got[1] = Mark THEN "mark" ELSE "sync", 1),
         msg_in' = msg_in, UNCHANGED walletVars
  PROVE  Serving' /\ pc' # "idle"
PROOF
<1>1. PICK m : m = served.reply
  OBVIOUS
<1>2. PICK e \in [1 .. Len(to_host) + 1 -> 0 .. Len(Encode(m))] : Stream(m, e)
  BY <1>1 DEF Serving
<1>3. PICK h \in Nat : h = e[1]
  <2>1. PICK k \in Nat : k = Len(to_host)
    BY Lengths
  <2>2. 1 \in 1 .. k + 1 /\ Len(Encode(m)) \in Nat
    BY <1>1, AnswerOfCall
  <2> QED BY <2>1, <2>2
<1>4. data = <<>> /\ want = 1 /\ n = 1 /\ Taken = 0
  BY DEF Shape, Reading, Taken
<1>5. /\ got[1] = read_buffer[1] /\ 1 \in 0 .. Len(read_buffer) /\ read_buffer \in Seq(Bytes)
  <2>1. Len(data) = 0 /\ 0 + 1 = 1
    BY <1>4
  <2> QED BY <1>4, <2>1, Lengths DEF ReadsOn
<1>6. Carries(read_buffer, m, 0, h)
  BY <1>2, <1>3, <1>4 DEF Stream
<1>7. CASE h = 0
  <2>1. \A i \in 1 .. Len(read_buffer) : read_buffer[i] # Mark
    BY <1>6, <1>7 DEF Carries
  <2>2. pc' = "sync" /\ Taken' = 0
    BY <1>5, <2>1, Lengths DEF Read, Taken
  <2>3. PICK r : r = Rest(read_buffer, 1)
    OBVIOUS
  <2>4. /\ Len(r) = Len(read_buffer) - 1
        /\ \A i \in 1 .. Len(read_buffer) - 1 : r[i] = read_buffer[1 + i]
    BY <1>5, <2>3, RestPart
  <2>5. ASSUME NEW i \in 1 .. Len(r)
        PROVE  r[i] # Mark
    <3>1. i \in 1 .. Len(read_buffer) - 1 /\ 1 + i \in 1 .. Len(read_buffer)
      BY <2>4, Lengths
    <3> QED BY <2>1, <2>4, <3>1
  <2>6. Len(r) \in Nat
    BY <1>5, <2>4, Lengths
  <2>7. Carries(r, m, 0, h)
    BY <1>7, <2>5, <2>6 DEF Carries
  <2>8. read_buffer' = r
    BY <1>4, <2>3
  <2>9. Understood(m)'
    BY <2>2 DEF Understood
  <2>10. Taken' <= e[1] /\ Carries(read_buffer', m, Taken', e[1])
    BY <1>3, <2>2, <2>7, <2>8
  <2> QED BY <1>1, <1>2, <2>2, <2>9, <2>10, StillServing
<1>8. CASE h # 0
  <2>1. 0 + 1 <= h
    BY <1>8
  <2>2. read_buffer[1] = Encode(m)[0 + 1] /\ Carries(Rest(read_buffer, 1), m, 0 + 1, h)
    BY <1>5, <1>6, <2>1, Consumed
  <2>3. got[1] = Mark
    BY <1>1, <1>5, <2>2, AnswerOfCall, Encoded
  <2>4. pc' = "mark" /\ Taken' = 1
    BY <2>3 DEF Read, Taken
  <2>5. Taken' <= e[1] /\ Carries(read_buffer', m, Taken', e[1])
    BY <1>3, <1>4, <2>1, <2>2, <2>4
  <2>6. Understood(m)'
    BY <2>4 DEF Understood
  <2> QED BY <1>1, <1>2, <2>4, <2>5, <2>6, StillServing
<1> QED BY <1>7, <1>8

\* When all of the body is read, nothing of the answer is left anywhere.
LEMMA NothingLeft ==
  ASSUME Shape, Serving, NEW m, m = served.reply,
         NEW e \in [1 .. Len(to_host) + 1 -> 0 .. Len(Encode(m))], Stream(m, e),
         Len(Encode(m)) <= e[1]
  PROVE  to_host = <<>> /\ wallet = Idle /\ e[1] = Len(Encode(m))
PROOF
<1>1. PICK l \in Nat : l = Len(Encode(m))
  BY AnswerOfCall
<1>2. PICK k \in Nat : k = Len(to_host)
  BY Lengths
<1>3. /\ e \in [1 .. k + 1 -> 0 .. l] /\ l <= e[1]
      /\ \A j \in 1 .. k : e[j] < e[j + 1]
      /\ Len(wallet.sending) = l - e[k + 1]
  BY <1>1, <1>2 DEF Stream
<1>4. 1 \in 1 .. k + 1
  OBVIOUS
<1>5. e[1] = l
  BY <1>3, <1>4
<1>6. k = 0
  <2>1. SUFFICES ASSUME k # 0 PROVE FALSE
    OBVIOUS
  <2>2. 1 \in 1 .. k /\ 1 + 1 \in 1 .. k + 1
    BY <2>1
  <2>3. e[1] < e[1 + 1] /\ e[1 + 1] <= l
    BY <1>3, <2>2
  <2> QED BY <1>3, <1>5, <2>2, <2>3
<1>7. wallet.sending = <<>>
  <2>1. Len(wallet.sending) = 0
    BY <1>3, <1>5, <1>6
  <2> QED BY <2>1, Lengths, EmptySeq
<1>8. to_host = <<>>
  BY <1>2, <1>6, Lengths, EmptySeq
<1>9. wallet = Idle
  <2>1. wallet.received = <<>>
    BY DEF Serving
  <2>2. wallet = [received |-> wallet.received, sending |-> wallet.sending]
    BY DEF Shape, TypeOK
  <2> QED BY <1>7, <2>1, <2>2 DEF Idle
<1> QED BY <1>1, <1>5, <1>8, <1>9

\* read_from reads on in the answer, and returns it when it is complete.
LEMMA ReadsTheAnswer ==
  ASSUME Shape, Undisturbed, clean, served # NoMessage, ReadFromBuffer
  PROVE  \/ Serving' /\ pc' # "idle" /\ UNCHANGED <<msg_in, result>>
         \/ AtRest' /\ pc' = "idle" /\ msg_in' = NoMessage /\ result' = served.reply
PROOF
<1> DEFINE n   == Minimum(Len(read_buffer), want)
           got == data \o First(read_buffer, n)
<1>1. /\ pc \in Phases /\ read_buffer # <<>>
      /\ read_buffer' = Rest(read_buffer, n)
      /\ \/ /\ n < want
            /\ data' = got
            /\ want' = want - n
            /\ UNCHANGED <<pc, opened, buf, msg_in, msg_out, result>>
         \/ /\ n = want /\ pc = "sync"
            /\ Read(IF got[1] = Mark THEN "mark" ELSE "sync", 1)
            /\ UNCHANGED <<opened, buf, msg_in, msg_out, result>>
         \/ /\ n = want /\ pc = "mark" /\ got[1] = Mark
            /\ Read("header", HeaderSize)
            /\ UNCHANGED <<opened, buf, msg_in, msg_out, result>>
         \/ /\ n = want /\ pc = "header" /\ ~TooBig(got)
            /\ Read("body", SizeOf(got))
            /\ msg_out' = [id |-> IdOf(got), data |-> <<>>]
            /\ UNCHANGED <<opened, buf, msg_in, result>>
         \/ /\ n = want /\ pc = "body"
            /\ pc' = "idle" /\ data' = <<>> /\ want' = 0
            /\ result' = [msg_out EXCEPT !.data = got]
            /\ msg_in' = NoMessage /\ msg_out' = NoMessage
            /\ UNCHANGED <<opened, buf>>
      /\ UNCHANGED <<walletVars, calls, failures, clean>>
  BY Zenon DEF ReadFromBuffer
<1>2. ReadsOn(n, got)
  BY <1>1, ItReadsOn, Zenon
<1> HIDE DEF n, got
<1>3. UNCHANGED walletVars
  BY <1>1
<1>4. Serving
  <2>1. pc # "idle"
    BY <1>1 DEF Phases
  <2> QED BY <2>1 DEF Undisturbed
<1>5. CASE pc = "sync"
  <2>1. n = want
    <3>1. want = 1 /\ n >= 1
      BY <1>2, <1>5 DEF Shape, Reading, ReadsOn
    <3>2. n <= want /\ n \in Int
      BY <1>2, Lengths DEF ReadsOn
    <3> QED BY <3>1, <3>2
  <2>2. Read(IF got[1] = Mark THEN "mark" ELSE "sync", 1) /\ msg_in' = msg_in
    BY <1>1, <1>5, <2>1, Lengths
  <2> QED BY <1>1, <1>2, <1>3, <1>4, <1>5, <2>1, <2>2, FindsMarks
<1>6. CASE pc # "sync"
  <2>1. pc \in {"mark", "header", "body"}
    BY <1>1, <1>6 DEF Phases
  <2>2. PICK m : m = served.reply
    OBVIOUS
  <2>3. PICK e \in [1 .. Len(to_host) + 1 -> 0 .. Len(Encode(m))] : Stream(m, e)
    BY <1>4, <2>2 DEF Serving
  <2>4. PICK t \in Nat : t = Taken
    BY TakenIsNumber
  <2>5. /\ pc = "header" => \A i \in 1 .. Len(data) + n : got[i] = Encode(m)[2 + i]
        /\ pc = "body" => \A i \in 1 .. Len(data) + n : got[i] = m.data[i]
        /\ t + n <= e[1] /\ Carries(read_buffer', m, t + n, e[1])
    BY <1>1, <1>2, <2>1, <2>2, <2>3, <2>4, ReadsAnswer
  <2>6. /\ m \in Replies /\ m \in Messages /\ Fits(m)
        /\ Len(m.data) \in Nat /\ Len(Encode(m)) = 8 + Len(m.data)
    BY <1>4, <2>2, AnswerOfCall, ReplyFits DEF HeaderSize
  <2>7. /\ got \in Seq(Bytes) /\ Len(got) = Len(data) + n
        /\ n \in Nat /\ n <= want /\ Len(data) \in Nat /\ want \in Nat
    BY <1>2, Lengths DEF ReadsOn
  <2>8. /\ pc = "mark" => t = 1 /\ want = 1
        /\ pc = "header" => t = 2 + Len(data) /\ Len(data) + want = 6
        /\ pc = "body" => t = 8 + Len(data) /\ Len(data) + want = Len(m.data) /\ msg_out.id = m.id
    <3>1. pc = "mark" => want = 1
      BY DEF Shape, Reading
    <3>2. pc = "header" => Len(data) + want = 6
      BY DEF Shape, Reading, HeaderSize
    <3>3. pc = "body" => Len(data) + want = Len(m.data) /\ msg_out.id = m.id
      BY <1>4, <2>2 DEF Serving, Understood
    <3>4. /\ pc = "mark" => t = 1
          /\ pc = "header" => t = 2 + Len(data)
          /\ pc = "body" => t = 8 + Len(data)
      BY <2>4 DEF Taken, HeaderSize
    <3> QED BY <3>1, <3>2, <3>3, <3>4
  <2>9. CASE /\ n < want
             /\ data' = got
             /\ want' = want - n
             /\ UNCHANGED <<pc, opened, buf, msg_in, msg_out, result>>
    <3>1. pc \in {"header", "body"}
      BY <1>2, <2>1, <2>7, <2>8, <2>9 DEF ReadsOn
    <3>2. Taken' = t + n
      <4>1. Taken' = IF pc = "header" THEN 2 + (Len(data) + n) ELSE (2 + HeaderSize) + (Len(data) + n)
        BY <2>7, <2>9, <3>1 DEF Taken
      <4> QED BY <2>7, <2>8, <3>1, <4>1 DEF HeaderSize
    <3>3. Understood(m)'
      <4>1. pc = "body" => Len(data') + want' = Len(m.data)
        BY <2>7, <2>8, <2>9
      <4> QED BY <2>5, <2>7, <2>8, <2>9, <4>1 DEF Understood
    <3>4. pc' # "idle" /\ pc' # "write" /\ msg_in' = msg_in /\ result' = result
      BY <2>9, <3>1
    <3> QED BY <1>3, <1>4, <2>2, <2>3, <2>5, <3>2, <3>3, <3>4, StillServing
  <2>10. CASE /\ n = want /\ pc = "mark" /\ got[1] = Mark
              /\ Read("header", HeaderSize)
              /\ UNCHANGED <<opened, buf, msg_in, msg_out, result>>
    <3>1. /\ pc' = "header" /\ Len(data') = 0 /\ data' = <<>>
          /\ msg_in' = msg_in /\ result' = result
      BY <2>10 DEF Read
    <3>2. Taken' = t + n
      BY <2>8, <2>10, <3>1 DEF Taken
    <3>3. Understood(m)'
      BY <3>1 DEF Understood
    <3> QED BY <1>3, <1>4, <2>2, <2>3, <2>5, <3>1, <3>2, <3>3, StillServing
  <2>11. CASE /\ n = want /\ pc = "header" /\ ~TooBig(got)
              /\ Read("body", SizeOf(got))
              /\ msg_out' = [id |-> IdOf(got), data |-> <<>>]
              /\ UNCHANGED <<opened, buf, msg_in, result>>
    <3>1. Len(data) + n = 6
      BY <2>8, <2>11
    <3>2. \A i \in 1 .. HeaderSize : got[i] = Encode(m)[2 + i]
      BY <2>5, <2>11, <3>1 DEF HeaderSize
    <3>3. IdOf(got) = m.id /\ SizeOf(got) = Len(m.data)
      BY <2>6, <3>2, HeaderIsRead
    <3>4. /\ pc' = "body" /\ Len(data') = 0 /\ data' = <<>> /\ want' = Len(m.data)
          /\ msg_out'.id = m.id /\ msg_in' = msg_in /\ result' = result
      BY <2>11, <3>3 DEF Read
    <3>5. Taken' = t + n
      <4>1. Taken' = 8
        BY <3>4 DEF Taken, HeaderSize
      <4>2. t + n = 8
        BY <2>7, <2>8, <2>11, <3>1
      <4> QED BY <4>1, <4>2
    <3>6. Understood(m)'
      BY <2>6, <3>4 DEF Understood
    <3> QED BY <1>3, <1>4, <2>2, <2>3, <2>5, <3>4, <3>5, <3>6, StillServing
  <2>12. CASE /\ n = want /\ pc = "body"
              /\ pc' = "idle" /\ data' = <<>> /\ want' = 0
              /\ result' = [msg_out EXCEPT !.data = got]
              /\ msg_in' = NoMessage /\ msg_out' = NoMessage
              /\ UNCHANGED <<opened, buf>>
    <3>1. Len(data) + n = Len(m.data)
      BY <2>8, <2>12
    <3>2. got = m.data
      <4>1. m.data \in Seq(Bytes) /\ Len(got) = Len(m.data)
        BY <2>6, <2>7, <3>1 DEF Messages
      <4>2. \A i \in 1 .. Len(got) : got[i] = m.data[i]
        BY <2>5, <2>7, <2>12
      <4> QED BY <2>7, <4>1, <4>2, SeqEqual
    <3>3. result' = m
      <4>1. msg_out \in Messages /\ msg_out.id = m.id
        BY <2>8, <2>12 DEF Shape, Reading
      <4>2. /\ m = [id |-> m.id, data |-> m.data]
            /\ [msg_out EXCEPT !.data = got] = [id |-> msg_out.id, data |-> got]
        BY <2>6, <4>1 DEF Messages
      <4> QED BY <2>12, <3>2, <4>1, <4>2
    <3>4. t + n = Len(Encode(m))
      BY <2>6, <2>7, <2>8, <2>12, <3>1
    <3>5. to_host = <<>> /\ wallet = Idle /\ e[1] = Len(Encode(m))
      BY <1>4, <2>2, <2>3, <2>5, <3>4, NothingLeft
    <3>6. NoMark(read_buffer')
      <4>1. PICK z \in Nat : z = Len(Encode(m))
        BY <2>6
      <4>2. Carries(read_buffer', m, z, z)
        BY <2>5, <3>4, <3>5, <4>1
      <4>3. z - z = 0 /\ 0 + 1 = 1
        OBVIOUS
      <4> QED BY <4>2, <4>3 DEF Carries, NoMark
    <3>7. /\ to_wallet' = <<>> /\ to_host' = <<>> /\ wallet' = Idle /\ served' = served
      BY <1>3, <1>4, <3>5 DEF walletVars, Serving
    <3> QED BY <2>2, <2>12, <3>3, <3>6, <3>7 DEF AtRest
  <2> QED BY <1>1, <1>6, <2>9, <2>10, <2>11, <2>12, Zenon
<1> QED BY <1>5, <1>6

LEMMA ReadFromBufferUndisturbed ==
  ASSUME Shape, Undisturbed, ReadFromBuffer
  PROVE  Undisturbed'
PROOF
<1>1. clean' = clean /\ served' = served /\ pc # "idle"
  <2>1. pc \in Phases /\ UNCHANGED <<walletVars, clean>>
    BY DEF ReadFromBuffer
  <2> QED BY <2>1 DEF walletVars, Phases
<1> SUFFICES ASSUME clean
             PROVE  \/ Sending' /\ pc' # "idle" /\ served = NoMessage
                    \/ Serving' /\ pc' # "idle" /\ served # NoMessage
                    \/ AtRest' /\ pc' = "idle"
  BY <1>1 DEF Undisturbed
<1>2. CASE served = NoMessage
  BY <1>1, <1>2, PassesOver DEF Undisturbed
<1>3. CASE served # NoMessage
  BY <1>3, ReadsTheAnswer
<1> QED BY <1>2, <1>3

LEMMA NextUndisturbed == Shape /\ Undisturbed /\ [Next]_vars => Undisturbed'
PROOF
<1> SUFFICES ASSUME Shape, Undisturbed, [Next]_vars PROVE Undisturbed'
  OBVIOUS
<1>1. ASSUME NEW m \in Requests, Call(m) PROVE Undisturbed'
  BY <1>1, CallUndisturbed
<1>2. CASE OpenThrows
  BY <1>2, OpenThrowsUndisturbed
<1>3. CASE Close
  BY <1>3, CloseUndisturbed
<1>4. CASE WriteReport
  BY <1>4, WriteReportUndisturbed
<1>5. CASE BufferReport
  BY <1>5, BufferReportUndisturbed
<1>6. CASE ReadFromBuffer
  BY <1>6, ReadFromBufferUndisturbed
<1>7. CASE HeaderThrows
  <2>1. ~clean
    BY <1>7, NothingMalformed
  <2>2. clean' = clean
    BY <1>7 DEF HeaderThrows
  <2> QED BY <2>1, <2>2 DEF Undisturbed
<1>8. CASE TransferFails
  BY <1>8, TransferFailsUndisturbed
<1>9. CASE WalletTakes
  BY <1>9, WalletTakesUndisturbed
<1>10. ASSUME NEW reply \in Replies, WalletServes(reply) PROVE Undisturbed'
  <2>1. clean' = clean /\ pc' = pc
    BY <1>10 DEF WalletServes, hostVars
  <2> SUFFICES ASSUME clean PROVE Undisturbed'
    BY <2>1 DEF Undisturbed
  <2>2. Serving' /\ pc = "sync"
    BY <1>10, WalletServesUndisturbed
  <2>3. served' # NoMessage
    <3>1. Shape'
      BY <1>10, WalletServesShape
    <3>2. msg_in' \in Messages
      BY <2>1, <2>2, <3>1, CallAssumption DEF Shape, TypeOK, Calling
    <3>3. served' \in [request : Messages, reply : Messages]
      BY <2>2, <3>2, CallAssumption DEF Serving
    <3> QED BY <3>3, CallAssumption
  <2> QED BY <2>1, <2>2, <2>3 DEF Undisturbed
<1>11. ASSUME NEW cut \in Cuts, WalletSends(cut) PROVE Undisturbed'
  BY <1>11, WalletSendsUndisturbed
<1>12. CASE PollAgain \/ Finished \/ UNCHANGED vars
  BY <1>12, UnchangedUndisturbed DEF PollAgain, Finished
<1> QED
  BY <1>1, <1>2, <1>3, <1>4, <1>5, <1>6, <1>7, <1>8, <1>9, <1>10, <1>11, <1>12
  DEF Next, HostStep, WalletStep

LEMMA UndisturbedKept == Spec => []Undisturbed
PROOF
<1> QED BY InitUndisturbed, NextUndisturbed, ShapeKept, PTL DEF Spec

\* As long as no failed transfer has left the wallet in mid-message, the wallet
\* takes exactly the message of the call and the call returns exactly the
\* wallet's answer: whatever the messages, however write_report and the wallet
\* cut them and whatever padding is left in read_buffer.
THEOREM AnswersAreIntact == Spec => []AnswerIntact
PROOF
<1>1. Undisturbed => AnswerIntact
  BY DEF Undisturbed, AnswerIntact, AtRest, Serving
<1> QED BY <1>1, UndisturbedKept, PTL

\* Between two calls no report is under way and no mark is left over in
\* read_buffer that the next call could take for a header.
THEOREM LeavesOnlyPadding == Spec => []OnlyPaddingLeft
PROOF
<1>1. Undisturbed => OnlyPaddingLeft
  BY DEF Undisturbed, OnlyPaddingLeft, AtRest, NoMark
<1> QED BY <1>1, UndisturbedKept, PTL

-----------------------------------------------------------------------------
(* call implements Call *)

\* Only a transfer that fails with the wallet plugged in garbles anything.
LEMMA StaysClean ==
  ASSUME ~Transient
  PROVE  Spec => []clean
PROOF
<1>1. Init => clean
  BY DEF Init
<1>2. clean /\ [Next]_vars => clean'
  BY DEF Next, Call, OpenThrows, Close, HostStep, WriteReport, BufferReport, ReadFromBuffer,
         HeaderThrows, PollAgain, TransferFails, WalletStep, WalletTakes, WalletServes,
         WalletSends, Finished, vars
<1> QED BY <1>1, <1>2, PTL DEF Spec

\* What is not seen of a call.
LEMMA Unseen ==
  ASSUME UNCHANGED <<msg_in, result>>,
         \/ UNCHANGED <<pc, served>>
         \/ pc # "idle" /\ pc' # "idle" /\ served' = served
  PROVE  UNCHANGED Promise!vars
PROOF
  BY DEF Promise!vars

\* What is seen of it: it reads the answer, and returns it.
LEMMA ReturnSeen ==
  ASSUME Shape, Undisturbed, clean, ReadFromBuffer
  PROVE  [Promise!Next]_Promise!vars
PROOF
<1>1. pc # "idle" /\ served' = served
  <2>1. pc \in Phases /\ UNCHANGED walletVars
    BY DEF ReadFromBuffer
  <2> QED BY <2>1 DEF walletVars, Phases
<1>2. CASE served = NoMessage
  <2>1. Sending
    BY <1>1, <1>2 DEF Undisturbed
  <2>2. pc' # "idle" /\ UNCHANGED <<msg_in, result>>
    <3>1. pc' # "idle"
      BY <2>1, PassesOver
    <3>2. pc = "sync"
      BY <2>1 DEF Sending, ReadFromBuffer, Phases
    <3> QED BY <3>1, <3>2 DEF ReadFromBuffer
  <2> QED BY <1>1, <2>2, Unseen
<1>3. CASE served # NoMessage
  <2>1. CASE pc' # "idle" /\ UNCHANGED <<msg_in, result>>
    BY <1>1, <2>1, Unseen
  <2>2. CASE pc' = "idle" /\ msg_in' = NoMessage /\ result' = served.reply
    BY <1>1, <1>3, <2>2 DEF Promise!Next, Promise!Return
  <2> QED BY <1>3, <2>1, <2>2, ReadsTheAnswer
<1> QED BY <1>2, <1>3

LEMMA ServeSeen ==
  ASSUME Shape, Undisturbed, clean, NEW reply \in Replies, WalletServes(reply)
  PROVE  [Promise!Next]_Promise!vars
PROOF
<1>1. /\ Serving' /\ pc = "sync" /\ served = NoMessage
      /\ UNCHANGED <<pc, msg_in, result>>
  BY WalletServesUndisturbed DEF WalletServes, hostVars
<1>2. msg_in # NoMessage
  BY <1>1 DEF Shape, Calling
<1>3. \E r \in Replies : served' = [request |-> msg_in, reply |-> r]
  <2>1. served' \in [request : {msg_in}, reply : Replies]
    BY <1>1 DEF Serving
  <2> QED BY <2>1
<1> QED BY <1>1, <1>2, <1>3 DEF Promise!Next, Promise!Serve

\* Where a wallet can only be unplugged, device_kernel::call keeps the promise
\* of Call: the wallet serves the message of a call at most once, as it was
\* sent, and the call returns the wallet's answer to it or throws.
THEOREM CallIsKept ==
  ASSUME ~Transient
  PROVE  Spec => KeepsPromise
PROOF
<1>1. Init => Promise!Init
  BY DEF Init, Promise!Init
<1>2. Shape /\ Undisturbed /\ clean /\ [Next]_vars => [Promise!Next]_Promise!vars
  <2> SUFFICES ASSUME Shape, Undisturbed, clean, [Next]_vars
               PROVE  [Promise!Next]_Promise!vars
    OBVIOUS
  <2>1. ASSUME NEW m \in Requests, Call(m) PROVE [Promise!Next]_Promise!vars
    <3>1. /\ pc = "idle" /\ pc' = "write" /\ msg_in' = m
          /\ result' = NoMessage /\ served' = NoMessage
      BY <2>1 DEF Call
    <3>2. msg_in = NoMessage
      BY <3>1 DEF Shape, Calling
    <3> QED BY <3>1, <3>2 DEF Promise!Next, Promise!Invoke
  <2>2. CASE OpenThrows
    <3>1. pc = "idle" /\ pc' = "idle" /\ result' = Thrown /\ msg_in' = msg_in
      BY <2>2 DEF OpenThrows
    <3>2. msg_in = NoMessage
      BY <3>1 DEF Shape, Calling
    <3> QED BY <3>1, <3>2 DEF Promise!Next, Promise!Throw
  <2>3. CASE Close
    BY <2>3, Unseen DEF Close, walletVars
  <2>4. CASE WriteReport
    <3>1. pc # "idle" /\ pc' # "idle" /\ UNCHANGED <<msg_in, result, served>>
      BY <2>4 DEF WriteReport, Read
    <3> QED BY <3>1, Unseen
  <2>5. CASE BufferReport
    BY <2>5, Unseen DEF BufferReport
  <2>6. CASE ReadFromBuffer
    BY <2>6, ReturnSeen
  <2>7. CASE HeaderThrows
    BY <2>7, NothingMalformed
  <2>8. CASE TransferFails
    BY <2>8 DEF TransferFails, CloseAndThrow, Promise!Next, Promise!Throw
  <2>9. CASE WalletTakes
    BY <2>9, Unseen DEF WalletTakes, hostVars
  <2>10. ASSUME NEW reply \in Replies, WalletServes(reply) PROVE [Promise!Next]_Promise!vars
    BY <2>10, ServeSeen
  <2>11. ASSUME NEW cut \in Cuts, WalletSends(cut) PROVE [Promise!Next]_Promise!vars
    BY <2>11, Unseen DEF WalletSends, hostVars
  <2>12. CASE PollAgain \/ Finished \/ UNCHANGED vars
    BY <2>12, Unseen DEF PollAgain, Finished, vars, hostVars, walletVars
  <2> QED
    BY <2>1, <2>2, <2>3, <2>4, <2>5, <2>6, <2>7, <2>8, <2>9, <2>10, <2>11, <2>12
    DEF Next, HostStep, WalletStep
<1> QED BY <1>1, <1>2, ShapeKept, UndisturbedKept, StaysClean, PTL DEF Spec, KeepsPromise, Promise!Spec

=============================================================================
