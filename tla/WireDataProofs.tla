--------------------------- MODULE WireDataProofs ---------------------------
(***************************************************************************)
(* The wire format, for every width of a byte, size of a report and size   *)
(* of a message: what write_to writes is bytes, and read_from finds in     *)
(* them the id and the size that were written.                             *)
(***************************************************************************)
EXTENDS WireData, SequenceTheorems, TLAPS

\* A message whose size fits into the four bytes of the header.
Fits(m) == m \in Messages /\ Len(m.data) < Base * Base * Base * Base

-----------------------------------------------------------------------------
(* Parts of sequences *)

LEMMA FirstPart ==
  ASSUME NEW S, NEW s \in Seq(S), NEW n \in 0 .. Len(s)
  PROVE  /\ First(s, n) \in Seq(S) /\ Len(First(s, n)) = n
         /\ \A i \in 1 .. n : First(s, n)[i] = s[i]
PROOF
<1>1. Len(s) \in Nat
  BY LenProperties
<1>2. \A i \in 1 .. n : s[i] \in S
  BY <1>1, ElementOfSeq
<1> QED BY <1>1, <1>2, SubSeqProperties DEF First

LEMMA RestPart ==
  ASSUME NEW S, NEW s \in Seq(S), NEW n \in 0 .. Len(s)
  PROVE  /\ Rest(s, n) \in Seq(S) /\ Len(Rest(s, n)) = Len(s) - n
         /\ \A i \in 1 .. Len(s) - n : Rest(s, n)[i] = s[n + i]
PROOF
<1>1. PICK k \in Nat : k = Len(s)
  BY LenProperties
<1>2. \A i \in n + 1 .. k : s[i] \in S
  BY <1>1, ElementOfSeq
<1>3. n + 1 \in Int /\ k \in Int
  BY <1>1
<1>4. /\ SubSeq(s, n + 1, k) \in Seq(S)
      /\ Len(SubSeq(s, n + 1, k)) = IF n + 1 <= k THEN k - (n + 1) + 1 ELSE 0
      /\ \A i \in 1 .. k - (n + 1) + 1 : SubSeq(s, n + 1, k)[i] = s[(n + 1) + i - 1]
  BY <1>2, <1>3, SubSeqProperties
<1>5. /\ k - (n + 1) + 1 = k - n
      /\ \A i \in 1 .. k - n : (n + 1) + i - 1 = n + i
  BY <1>1
<1> QED BY <1>1, <1>4, <1>5 DEF Rest

\* Bytes that follow each other.
LEMMA Joined ==
  ASSUME NEW S, NEW s \in Seq(S), NEW t \in Seq(S), NEW r, r = s \o t
  PROVE  /\ r \in Seq(S) /\ Len(r) = Len(s) + Len(t)
         /\ \A i \in 1 .. Len(s) : r[i] = s[i]
         /\ \A i \in 1 .. Len(t) : r[Len(s) + i] = t[i]
PROOF
<1>1. PICK k \in Nat, l \in Nat : k = Len(s) /\ l = Len(t)
  BY LenProperties
<1>2. /\ r \in Seq(S) /\ Len(r) = k + l
      /\ \A i \in 1 .. k + l : r[i] = IF i <= k THEN s[i] ELSE t[i - k]
  BY <1>1, ConcatProperties
<1>3. ASSUME NEW i \in 1 .. l
      PROVE  r[k + i] = t[i]
  <2>1. k + i \in 1 .. k + l /\ ~(k + i <= k) /\ (k + i) - k = i
    OBVIOUS
  <2> QED BY <1>2, <2>1
<1>4. ASSUME NEW i \in 1 .. k
      PROVE  r[i] = s[i]
  BY <1>2
<1> QED BY <1>1, <1>2, <1>3, <1>4

-----------------------------------------------------------------------------
(* Numbers as bytes *)

LEMMA ByteRange == Base \in Nat \ {0, 1} /\ Mark \in Bytes /\ 0 \in Bytes /\ Mark # 0
PROOF
  BY WireAssumption DEF Bytes

LEMMA Division ==
  ASSUME NEW n \in Nat
  PROVE  n \div Base \in Nat /\ n % Base \in Bytes /\ (n \div Base) * Base + (n % Base) = n
PROOF
  BY ByteRange DEF Bytes

LEMMA TwiceDivided ==
  ASSUME NEW n \in Nat, NEW d \in Nat \ {0}
  PROVE  (n \div d) \div Base = n \div (d * Base)
PROOF
  BY ByteRange

LEMMA IdBytesOfId ==
  ASSUME NEW n \in 0 .. Base * Base - 1
  PROVE  /\ n \div Base \in Bytes /\ n % Base \in Bytes
         /\ (n \div Base) * Base + (n % Base) = n
PROOF
  BY ByteRange, Division DEF Bytes

LEMMA SizeBytesOfSize ==
  ASSUME NEW n \in Nat, n < Base * Base * Base * Base
  PROVE  /\ n \div (Base * Base * Base) \in Bytes
         /\ (n \div (Base * Base)) % Base \in Bytes
         /\ (n \div Base) % Base \in Bytes
         /\ n % Base \in Bytes
         /\ (((n \div (Base * Base * Base)) * Base + ((n \div (Base * Base)) % Base)) * Base
               + ((n \div Base) % Base)) * Base + (n % Base) = n
PROOF
<1>1. /\ Base * Base \in Nat \ {0} /\ Base * Base * Base \in Nat \ {0}
      /\ Base * Base * Base = (Base * Base) * Base
  BY ByteRange
<1> DEFINE n1 == n \div Base
           n2 == n \div (Base * Base)
           n3 == n \div (Base * Base * Base)
<1>2. n1 \in Nat /\ n2 \in Nat /\ n3 \in Nat
  BY <1>1, ByteRange
<1>3. n2 = n1 \div Base /\ n3 = n2 \div Base
  BY <1>1, ByteRange, TwiceDivided
<1>4. n3 \in Bytes
  BY <1>1, ByteRange DEF Bytes
<1> HIDE DEF n1, n2, n3
<1>5. n3 * Base + (n2 % Base) = n2 /\ n2 % Base \in Bytes
  BY <1>2, <1>3, Division
<1>6. n2 * Base + (n1 % Base) = n1 /\ n1 % Base \in Bytes
  BY <1>2, <1>3, Division
<1>7. n1 * Base + (n % Base) = n /\ n % Base \in Bytes
  BY Division DEF n1
<1>8. ((n3 * Base + (n2 % Base)) * Base + (n1 % Base)) * Base + (n % Base) = n
  BY <1>5, <1>6, <1>7
<1> QED BY <1>4, <1>5, <1>6, <1>7, <1>8 DEF n1, n2, n3

LEMMA NumberOfBytes ==
  ASSUME NEW a \in Bytes, NEW b \in Bytes
  PROVE  a * Base + b \in 0 .. Base * Base - 1
PROOF
  BY ByteRange DEF Bytes

LEMMA NextByte ==
  ASSUME NEW n \in Nat, NEW b \in Bytes
  PROVE  n * Base + b \in Nat
PROOF
  BY ByteRange DEF Bytes

\* What read_from takes for the header of a message is an id and a size.
LEMMA HeaderRange ==
  ASSUME NEW h \in Seq(Bytes), Len(h) >= HeaderSize
  PROVE  IdOf(h) \in 0 .. Base * Base - 1 /\ SizeOf(h) \in Nat
PROOF
<1>1. /\ h[1] \in Bytes /\ h[2] \in Bytes /\ h[3] \in Bytes
      /\ h[4] \in Bytes /\ h[5] \in Bytes /\ h[6] \in Bytes
  <2>1. \A i \in 1 .. 6 : i \in 1 .. Len(h)
    BY LenProperties DEF HeaderSize
  <2> QED BY <2>1, ElementOfSeq
<1>2. h[1] * Base + h[2] \in 0 .. Base * Base - 1
  BY <1>1, NumberOfBytes
<1>3. ((h[3] * Base + h[4]) * Base + h[5]) * Base + h[6] \in Nat
  <2>1. h[3] \in Nat
    BY <1>1 DEF Bytes
  <2>2. h[3] * Base + h[4] \in Nat
    BY <1>1, <2>1, NextByte
  <2>3. (h[3] * Base + h[4]) * Base + h[5] \in Nat
    BY <1>1, <2>2, NextByte
  <2> QED BY <1>1, <2>3, NextByte
<1> QED BY <1>2, <1>3 DEF IdOf, SizeOf

-----------------------------------------------------------------------------
(* Messages *)

LEMMA TupleOfTwo ==
  ASSUME NEW S, NEW a \in S, NEW b \in S
  PROVE  <<a, b>> \in Seq(S) /\ Len(<<a, b>>) = 2 /\ <<a, b>>[1] = a /\ <<a, b>>[2] = b
PROOF
  OBVIOUS

LEMMA TupleOfFour ==
  ASSUME NEW S, NEW a \in S, NEW b \in S, NEW c \in S, NEW d \in S
  PROVE  /\ <<a, b, c, d>> \in Seq(S) /\ Len(<<a, b, c, d>>) = 4
         /\ <<a, b, c, d>>[1] = a /\ <<a, b, c, d>>[2] = b
         /\ <<a, b, c, d>>[3] = c /\ <<a, b, c, d>>[4] = d
PROOF
  OBVIOUS

\* The bytes of a message, one by one.
LEMMA Encoded ==
  ASSUME NEW m, Fits(m)
  PROVE  /\ Encode(m) \in Seq(Bytes) /\ Len(m.data) \in Nat
         /\ Len(Encode(m)) = 2 + HeaderSize + Len(m.data)
         /\ Encode(m)[1] = Mark /\ Encode(m)[2] = Mark
         /\ Encode(m)[3] = m.id \div Base /\ Encode(m)[4] = m.id % Base
         /\ Encode(m)[5] = Len(m.data) \div (Base * Base * Base)
         /\ Encode(m)[6] = (Len(m.data) \div (Base * Base)) % Base
         /\ Encode(m)[7] = (Len(m.data) \div Base) % Base
         /\ Encode(m)[8] = Len(m.data) % Base
         /\ \A i \in 1 .. Len(m.data) : Encode(m)[8 + i] = m.data[i]
PROOF
<1> DEFINE marks == <<Mark, Mark>>
           code    == IdBytes(m.id)
           count  == SizeBytes(Len(m.data))
           first == marks \o code
           head  == first \o count
<1>1. m.id \in 0 .. Base * Base - 1 /\ m.data \in Seq(Bytes)
      /\ Len(m.data) \in Nat /\ Len(m.data) < Base * Base * Base * Base
  BY LenProperties DEF Fits, Messages
<1>2. /\ 2 = Len(marks) /\ marks[1] = Mark /\ marks[2] = Mark
      /\ 2 = Len(code) /\ code[1] = m.id \div Base /\ code[2] = m.id % Base
      /\ 4 = Len(count)
      /\ count[1] = Len(m.data) \div (Base * Base * Base)
      /\ count[2] = (Len(m.data) \div (Base * Base)) % Base
      /\ count[3] = (Len(m.data) \div Base) % Base
      /\ count[4] = Len(m.data) % Base
  BY DEF IdBytes, SizeBytes
<1>3. marks \in Seq(Bytes) /\ code \in Seq(Bytes) /\ count \in Seq(Bytes)
  <2>1. marks \in Seq(Bytes)
    BY ByteRange, TupleOfTwo
  <2>2. code \in Seq(Bytes)
    BY <1>1, IdBytesOfId, TupleOfTwo DEF IdBytes
  <2>3. count \in Seq(Bytes)
    BY <1>1, SizeBytesOfSize, TupleOfFour DEF SizeBytes
  <2> QED BY <2>1, <2>2, <2>3
<1>4. first = marks \o code /\ head = first \o count /\ Encode(m) = head \o m.data
  BY DEF Encode
<1> HIDE DEF marks, code, count, first, head
<1>5. /\ first \in Seq(Bytes) /\ Len(first) = Len(marks) + Len(code)
      /\ \A i \in 1 .. Len(marks) : first[i] = marks[i]
      /\ \A i \in 1 .. Len(code) : first[Len(marks) + i] = code[i]
  BY <1>3, <1>4, Joined
<1>6. /\ head \in Seq(Bytes) /\ Len(head) = Len(first) + Len(count)
      /\ \A i \in 1 .. Len(first) : head[i] = first[i]
      /\ \A i \in 1 .. Len(count) : head[Len(first) + i] = count[i]
  <2>1. first \in Seq(Bytes)
    BY <1>5
  <2> QED BY <1>3, <1>4, <2>1, Joined
<1>7. /\ Encode(m) \in Seq(Bytes) /\ Len(Encode(m)) = Len(head) + Len(m.data)
      /\ \A i \in 1 .. Len(head) : Encode(m)[i] = head[i]
      /\ \A i \in 1 .. Len(m.data) : Encode(m)[Len(head) + i] = m.data[i]
  <2>1. head \in Seq(Bytes) /\ m.data \in Seq(Bytes)
    BY <1>1, <1>6
  <2> QED BY <1>4, <2>1, Joined
<1>8. /\ 4 = Len(first) /\ first[1] = marks[1] /\ first[2] = marks[2]
      /\ first[3] = code[1] /\ first[4] = code[2]
  <2>1. PICK k \in Nat, l \in Nat : k = Len(marks) /\ l = Len(code)
    BY <1>3, LenProperties
  <2>2. k = 2 /\ l = 2
    BY <1>2, <2>1
  <2>3. /\ 1 \in 1 .. Len(marks) /\ 2 \in 1 .. Len(marks)
        /\ 1 \in 1 .. Len(code) /\ 2 \in 1 .. Len(code)
        /\ Len(marks) + 1 = 3 /\ Len(marks) + 2 = 4 /\ Len(marks) + Len(code) = 4
    BY <2>1, <2>2
  <2> QED BY <1>5, <2>3
<1>9. /\ 8 = Len(head) /\ head[1] = first[1] /\ head[2] = first[2]
      /\ head[3] = first[3] /\ head[4] = first[4]
      /\ head[5] = count[1] /\ head[6] = count[2] /\ head[7] = count[3] /\ head[8] = count[4]
  <2>1. \A i \in 1 .. 4 : i \in 1 .. Len(first)
    BY <1>5, <1>8
  <2>2. PICK k \in Nat, l \in Nat : k = Len(first) /\ l = Len(count)
    BY <1>3, <1>5, LenProperties
  <2>3. k = 4 /\ l = 4
    BY <1>2, <1>8, <2>2
  <2>4. /\ \A i \in 1 .. 4 : i \in 1 .. Len(count)
        /\ Len(first) + 1 = 5 /\ Len(first) + 2 = 6 /\ Len(first) + 3 = 7
        /\ Len(first) + 4 = 8 /\ Len(first) + Len(count) = 8
    BY <2>2, <2>3
  <2> QED BY <1>6, <2>1, <2>4
<1>10. /\ Len(Encode(m)) = 8 + Len(m.data)
       /\ \A i \in 1 .. 8 : Encode(m)[i] = head[i]
       /\ \A i \in 1 .. Len(m.data) : Encode(m)[8 + i] = m.data[i]
  BY <1>1, <1>6, <1>7, <1>9
<1> QED BY <1>1, <1>2, <1>7, <1>8, <1>9, <1>10 DEF HeaderSize

\* read_from finds in the bytes of a message the id and the size that write_to
\* wrote into them.
THEOREM HeaderIsRead ==
  ASSUME NEW m, Fits(m),
         NEW h, \A i \in 1 .. HeaderSize : h[i] = Encode(m)[2 + i]
  PROVE  IdOf(h) = m.id /\ SizeOf(h) = Len(m.data)
PROOF
<1>1. /\ m.id \in 0 .. Base * Base - 1
      /\ Len(m.data) \in Nat /\ Len(m.data) < Base * Base * Base * Base
  BY LenProperties DEF Fits, Messages
<1>2. /\ h[1] = Encode(m)[3] /\ h[2] = Encode(m)[4] /\ h[3] = Encode(m)[5]
      /\ h[4] = Encode(m)[6] /\ h[5] = Encode(m)[7] /\ h[6] = Encode(m)[8]
  BY DEF HeaderSize
<1> QED BY <1>1, <1>2, Encoded, IdBytesOfId, SizeBytesOfSize DEF IdOf, SizeOf

-----------------------------------------------------------------------------
(* Reports *)

\* What write_report sends: the next bytes, and zeros behind them.
LEMMA Reported ==
  ASSUME NEW bytes \in Seq(Bytes)
  PROVE  /\ ReportOf(bytes) \in Reports
         /\ ReportOf(bytes).size = PayloadSize
         /\ ReportOf(bytes).payload \in Seq(Bytes) /\ Len(ReportOf(bytes).payload) = PayloadSize
         /\ \A i \in 1 .. PayloadSize :
              ReportOf(bytes).payload[i] = IF i <= Len(bytes) THEN bytes[i] ELSE 0
PROOF
<1>1. PICK k \in Nat : k = Len(bytes)
  BY LenProperties
<1> DEFINE n == Minimum(PayloadSize, k)
           filled == [i \in 1 .. PayloadSize |-> IF i <= n THEN bytes[i] ELSE 0]
<1>2. ASSUME NEW i \in 1 .. PayloadSize
      PROVE  (i <= n <=> i <= k) /\ (IF i <= n THEN bytes[i] ELSE 0) \in Bytes
  <2>1. i <= n <=> i <= k
    BY WireAssumption DEF Minimum
  <2>2. i <= k => bytes[i] \in Bytes
    BY <1>1, ElementOfSeq
  <2> QED BY <2>1, <2>2, ByteRange
<1>3. filled \in Seq(Bytes) /\ Len(filled) = PayloadSize
  BY <1>2, WireAssumption
<1>4. ReportOf(bytes) = [size |-> PayloadSize, payload |-> filled]
  BY <1>1 DEF ReportOf
<1>5. \A i \in 1 .. PayloadSize : filled[i] = IF i <= k THEN bytes[i] ELSE 0
  BY <1>2
<1> HIDE DEF filled
<1> QED BY <1>1, <1>3, <1>4, <1>5, WireAssumption DEF Reports

\* What buffer_report takes out of a report.
LEMMA Unpacked ==
  ASSUME NEW report \in Reports
  PROVE  /\ Payload(report) \in Seq(Bytes)
         /\ Len(Payload(report)) = Minimum(report.size, Len(report.payload))
         /\ Len(Payload(report)) <= PayloadSize
         /\ \A i \in 1 .. Len(Payload(report)) : Payload(report)[i] = report.payload[i]
PROOF
<1>1. /\ report.size \in 0 .. PayloadSize /\ report.payload \in Seq(Bytes)
      /\ Len(report.payload) \in Nat
  BY LenProperties DEF Reports
<1>2. PICK n : n = Minimum(report.size, Len(report.payload))
  OBVIOUS
<1>3. n \in 0 .. Len(report.payload) /\ n <= PayloadSize
  BY <1>1, <1>2, WireAssumption DEF Minimum
<1> QED BY <1>1, <1>2, <1>3, FirstPart DEF Payload
=============================================================================
