----------------------------- MODULE HexProofs -----------------------------
(***************************************************************************)
(* What hex_encode and hex_decode do to every sequence of bytes and every  *)
(* text: each undoes the other, but for the case of the digits.            *)
(***************************************************************************)
EXTENDS Hex, SequenceTheorems, TLAPS

\* A token is a digit in one way only.
LEMMA DigitUnique ==
  ASSUME NEW c, NEW d \in 0 .. 15, NEW e \in 0 .. 15, IsDigit(c, d), IsDigit(c, e)
  PROVE  d = e
PROOF
<1>1. \/ d = 0 \/ d = 1 \/ d = 2 \/ d = 3 \/ d = 4 \/ d = 5 \/ d = 6 \/ d = 7
      \/ d = 8 \/ d = 9 \/ d = 10 \/ d = 11 \/ d = 12 \/ d = 13 \/ d = 14 \/ d = 15
  OBVIOUS
<1>2. \/ e = 0 \/ e = 1 \/ e = 2 \/ e = 3 \/ e = 4 \/ e = 5 \/ e = 6 \/ e = 7
      \/ e = 8 \/ e = 9 \/ e = 10 \/ e = 11 \/ e = 12 \/ e = 13 \/ e = 14 \/ e = 15
  OBVIOUS
<1> QED BY <1>1, <1>2, SMTT(60) DEF IsDigit, Lower, Upper

\* Digit finds it.
LEMMA DigitFound ==
  ASSUME NEW c, NEW d \in 0 .. 15, IsDigit(c, d)
  PROVE  Digit(c) = d
PROOF
<1>1. Digit(c) \in 0 .. 15 /\ IsDigit(c, Digit(c))
  BY DEF Digit
<1> QED BY <1>1, DigitUnique

\* Either digit of a byte is one, and they make up the byte.
LEMMA ByteDigits ==
  ASSUME NEW b \in 0 .. 255
  PROVE  b \div 16 \in 0 .. 15 /\ b % 16 \in 0 .. 15 /\ 16 * (b \div 16) + (b % 16) = b
PROOF
  OBVIOUS

LEMMA DigitsByte ==
  ASSUME NEW h \in 0 .. 15, NEW l \in 0 .. 15
  PROVE  16 * h + l \in 0 .. 255 /\ (16 * h + l) \div 16 = h /\ (16 * h + l) % 16 = l
PROOF
  OBVIOUS

LEMMA LowerIsDigit ==
  ASSUME NEW d \in 0 .. 15
  PROVE  IsDigit(Lower[d + 1], d)
PROOF
  BY DEF IsDigit

\* The text of n bytes: two digits for each.
LEMMA Encoded ==
  ASSUME NEW bytes \in Seq(0 .. 255)
  PROVE  /\ Len(HexEncode(bytes)) = 2 * Len(bytes)
         /\ \A i \in 1 .. Len(bytes) :
              /\ HexEncode(bytes)[2 * i - 1] = Lower[(bytes[i] \div 16) + 1]
              /\ HexEncode(bytes)[2 * i] = Lower[(bytes[i] % 16) + 1]
PROOF
<1>1. PICK n \in Nat : n = Len(bytes)
  BY LenProperties
<1>2. Len(HexEncode(bytes)) = 2 * n
  BY <1>1 DEF HexEncode
<1>3. ASSUME NEW i \in 1 .. n
      PROVE  HexEncode(bytes)[2 * i - 1] = Lower[(bytes[i] \div 16) + 1]
  <2>1. PICK k \in 1 .. 2 * n : k = 2 * i - 1
    OBVIOUS
  <2>2. k % 2 = 1 /\ (k + 1) \div 2 = i
    BY <2>1
  <2>3. HexEncode(bytes)[k] = Lower[1 + (bytes[i] \div 16)]
    BY <1>1, <2>2 DEF HexEncode
  <2>4. bytes[i] \div 16 \in 0 .. 15
    <3>1. bytes[i] \in 0 .. 255
      BY <1>1, ElementOfSeq
    <3> QED BY <3>1, ByteDigits
  <2>5. 1 + (bytes[i] \div 16) = (bytes[i] \div 16) + 1
    BY <2>4
  <2> QED BY <2>1, <2>3, <2>5
<1>4. ASSUME NEW i \in 1 .. n
      PROVE  HexEncode(bytes)[2 * i] = Lower[(bytes[i] % 16) + 1]
  <2>1. PICK k \in 1 .. 2 * n : k = 2 * i
    OBVIOUS
  <2>2. k % 2 = 0 /\ (k + 1) \div 2 = i
    BY <2>1
  <2>3. HexEncode(bytes)[k] = Lower[1 + (bytes[i] % 16)]
    BY <1>1, <2>2 DEF HexEncode
  <2>4. bytes[i] % 16 \in 0 .. 15
    <3>1. bytes[i] \in 0 .. 255
      BY <1>1, ElementOfSeq
    <3> QED BY <3>1, ByteDigits
  <2>5. 1 + (bytes[i] % 16) = (bytes[i] % 16) + 1
    BY <2>4
  <2> QED BY <2>1, <2>3, <2>5
<1> QED BY <1>1, <1>2, <1>3, <1>4

\* The text of bytes has the digits of each in place.
LEMMA EncodedDigits ==
  ASSUME NEW bytes \in Seq(0 .. 255)
  PROVE  /\ Len(HexEncode(bytes)) = 2 * Len(bytes)
         /\ \A i \in 1 .. Len(bytes) :
              /\ IsDigit(HexEncode(bytes)[2 * i - 1], bytes[i] \div 16)
              /\ IsDigit(HexEncode(bytes)[2 * i], bytes[i] % 16)
PROOF
<1>1. ASSUME NEW i \in 1 .. Len(bytes)
      PROVE  /\ IsDigit(HexEncode(bytes)[2 * i - 1], bytes[i] \div 16)
             /\ IsDigit(HexEncode(bytes)[2 * i], bytes[i] % 16)
  <2>1. bytes[i] \in 0 .. 255
    BY ElementOfSeq
  <2>2. bytes[i] \div 16 \in 0 .. 15 /\ bytes[i] % 16 \in 0 .. 15
    BY <2>1, ByteDigits
  <2>3. /\ HexEncode(bytes)[2 * i - 1] = Lower[(bytes[i] \div 16) + 1]
        /\ HexEncode(bytes)[2 * i] = Lower[(bytes[i] % 16) + 1]
    BY Encoded
  <2>4. IsDigit(Lower[(bytes[i] \div 16) + 1], bytes[i] \div 16)
    BY <2>2, LowerIsDigit, Zenon
  <2>5. IsDigit(Lower[(bytes[i] % 16) + 1], bytes[i] % 16)
    BY <2>2, LowerIsDigit, Zenon
  <2> QED BY <2>3, <2>4, <2>5, Zenon
<1> QED BY <1>1, Encoded

\* hex_decode accepts what hex_encode has made of any bytes, and gives them back.
THEOREM DecodesWhatItEncodes ==
  \A bytes \in Seq(0 .. 255) :
    IsHex(HexEncode(bytes)) /\ HexDecode(HexEncode(bytes)) = bytes
PROOF
<1> TAKE bytes \in Seq(0 .. 255)
<1> DEFINE text == HexEncode(bytes)
<1>1. PICK n \in Nat : n = Len(bytes)
  BY LenProperties
<1>2. Len(text) = 2 * n
  BY <1>1, EncodedDigits
<1>3. ASSUME NEW i \in 1 .. n
      PROVE  /\ IsDigit(text[2 * i - 1], bytes[i] \div 16)
             /\ IsDigit(text[2 * i], bytes[i] % 16)
             /\ bytes[i] \in 0 .. 255
  <2>1. bytes[i] \in 0 .. 255
    BY <1>1, ElementOfSeq
  <2> QED BY <1>1, <2>1, EncodedDigits
<1> HIDE DEF text
<1>4. IsHex(text)
  <2>1. ASSUME NEW j \in 1 .. 2 * n
        PROVE  \E d \in 0 .. 15 : IsDigit(text[j], d)
    <3>1. PICK i \in 1 .. n : j = 2 * i - 1 \/ j = 2 * i
      <4>1. (j + 1) \div 2 \in 1 .. n
        OBVIOUS
      <4>2. j = 2 * ((j + 1) \div 2) - 1 \/ j = 2 * ((j + 1) \div 2)
        OBVIOUS
      <4> QED BY <4>1, <4>2
    <3>2. bytes[i] \div 16 \in 0 .. 15 /\ bytes[i] % 16 \in 0 .. 15
      BY <1>3, ByteDigits
    <3> QED BY <1>3, <3>1, <3>2
  <2> QED BY <1>2, <2>1 DEF IsHex
<1>5. ASSUME NEW i \in 1 .. n
      PROVE  16 * Digit(text[2 * i - 1]) + Digit(text[2 * i]) = bytes[i]
  <2>1. bytes[i] \div 16 \in 0 .. 15 /\ bytes[i] % 16 \in 0 .. 15
    BY <1>3, ByteDigits
  <2>2. Digit(text[2 * i - 1]) = bytes[i] \div 16 /\ Digit(text[2 * i]) = bytes[i] % 16
    BY <1>3, <2>1, DigitFound
  <2> QED BY <1>3, <2>2, ByteDigits
<1>6. HexDecode(text) = [i \in 1 .. n |-> bytes[i]]
  BY <1>2, <1>5 DEF HexDecode
<1>7. bytes = [i \in 1 .. n |-> bytes[i]]
  BY <1>1
<1> QED BY <1>4, <1>6, <1>7 DEF text

\* What hex_decode accepts is bytes, one for two digits.
LEMMA DecodedDigits ==
  ASSUME NEW S, NEW text \in Seq(S), IsHex(text)
  PROVE  /\ HexDecode(text) \in Seq(0 .. 255)
         /\ Len(text) = 2 * Len(HexDecode(text))
         /\ \A i \in 1 .. Len(HexDecode(text)) :
              /\ IsDigit(text[2 * i - 1], HexDecode(text)[i] \div 16)
              /\ IsDigit(text[2 * i], HexDecode(text)[i] % 16)
PROOF
<1>1. PICK n \in Nat : Len(text) = 2 * n
  BY LenProperties DEF IsHex
<1>2. ASSUME NEW j \in 1 .. 2 * n
      PROVE  Digit(text[j]) \in 0 .. 15 /\ IsDigit(text[j], Digit(text[j]))
  BY <1>1, DigitFound DEF IsHex
<1> DEFINE bytes == HexDecode(text)
<1>3. bytes = [i \in 1 .. n |-> 16 * Digit(text[2 * i - 1]) + Digit(text[2 * i])]
  BY <1>1 DEF HexDecode
<1> HIDE DEF bytes
<1>4. ASSUME NEW i \in 1 .. n
      PROVE  /\ bytes[i] \in 0 .. 255
             /\ bytes[i] \div 16 = Digit(text[2 * i - 1])
             /\ bytes[i] % 16 = Digit(text[2 * i])
  <2>1. bytes[i] = 16 * Digit(text[2 * i - 1]) + Digit(text[2 * i])
    BY <1>3
  <2>2. PICK h \in 0 .. 15, l \in 0 .. 15 :
          h = Digit(text[2 * i - 1]) /\ l = Digit(text[2 * i])
    <3>1. 2 * i - 1 \in 1 .. 2 * n /\ 2 * i \in 1 .. 2 * n
      OBVIOUS
    <3>2. Digit(text[2 * i - 1]) \in 0 .. 15
      BY <1>2, <3>1
    <3>3. Digit(text[2 * i]) \in 0 .. 15
      BY <1>2, <3>1
    <3> QED BY <3>2, <3>3, Zenon
  <2>3. bytes[i] = 16 * h + l
    BY <2>1, <2>2
  <2>4. bytes[i] \in 0 .. 255 /\ bytes[i] \div 16 = h /\ bytes[i] % 16 = l
    BY <2>3, DigitsByte
  <2> QED BY <2>2, <2>4
<1>5. bytes \in Seq(0 .. 255) /\ Len(bytes) = n
  BY <1>3, <1>4
<1>6. ASSUME NEW i \in 1 .. n
      PROVE  /\ IsDigit(text[2 * i - 1], bytes[i] \div 16)
             /\ IsDigit(text[2 * i], bytes[i] % 16)
  <2>1. 2 * i - 1 \in 1 .. 2 * n /\ 2 * i \in 1 .. 2 * n
    OBVIOUS
  <2>2. /\ IsDigit(text[2 * i - 1], Digit(text[2 * i - 1]))
        /\ IsDigit(text[2 * i], Digit(text[2 * i]))
    BY <1>2, <2>1, Zenon
  <2> QED BY <1>4, <2>2, Zenon
<1> QED BY <1>1, <1>5, <1>6 DEF bytes

\* What hex_decode accepts is bytes, one for two digits, and hex_encode gives
\* back every digit of the text, in lower case.
THEOREM EncodesWhatItDecodes ==
  ASSUME NEW S, NEW text \in Seq(S), IsHex(text)
  PROVE  /\ HexDecode(text) \in Seq(0 .. 255)
         /\ Len(HexEncode(HexDecode(text))) = Len(text)
         /\ \A j \in 1 .. Len(text) : \E d \in 0 .. 15 :
              IsDigit(text[j], d) /\ HexEncode(HexDecode(text))[j] = Lower[d + 1]
PROOF
<1> DEFINE bytes == HexDecode(text)
<1>1. /\ bytes \in Seq(0 .. 255)
      /\ Len(text) = 2 * Len(bytes)
      /\ \A i \in 1 .. Len(bytes) : /\ IsDigit(text[2 * i - 1], bytes[i] \div 16)
                                   /\ IsDigit(text[2 * i], bytes[i] % 16)
  BY DecodedDigits
<1> HIDE DEF bytes
<1>2. PICK n \in Nat : n = Len(bytes)
  BY <1>1, LenProperties
<1>3. ASSUME NEW j \in 1 .. 2 * n
      PROVE  \E d \in 0 .. 15 : IsDigit(text[j], d) /\ HexEncode(bytes)[j] = Lower[d + 1]
  <2>1. PICK i \in 1 .. n : j = 2 * i - 1 \/ j = 2 * i
    <3>1. (j + 1) \div 2 \in 1 .. n
      OBVIOUS
    <3>2. j = 2 * ((j + 1) \div 2) - 1 \/ j = 2 * ((j + 1) \div 2)
      OBVIOUS
    <3> QED BY <3>1, <3>2
  <2>2. /\ HexEncode(bytes)[2 * i - 1] = Lower[(bytes[i] \div 16) + 1]
        /\ HexEncode(bytes)[2 * i] = Lower[(bytes[i] % 16) + 1]
    BY <1>1, <1>2, Encoded
  <2>3. bytes[i] \div 16 \in 0 .. 15 /\ bytes[i] % 16 \in 0 .. 15
    <3>1. bytes[i] \in 0 .. 255
      BY <1>1, <1>2, ElementOfSeq
    <3> QED BY <3>1, ByteDigits
  <2>4. IsDigit(text[2 * i - 1], bytes[i] \div 16) /\ IsDigit(text[2 * i], bytes[i] % 16)
    BY <1>1, <1>2
  <2> QED BY <2>1, <2>2, <2>3, <2>4, Zenon
<1>4. Len(HexEncode(bytes)) = 2 * n
  BY <1>1, <1>2, Encoded
<1> QED BY <1>1, <1>2, <1>3, <1>4 DEF bytes
=============================================================================
