---------------------------- MODULE CodecProofs ----------------------------
(***************************************************************************)
(* What the conversions between JSON and wire messages do, for every       *)
(* schema, width, command and answer.                                      *)
(***************************************************************************)
EXTENDS Codec, HexProofs, WellFoundedInduction

-----------------------------------------------------------------------------
(* Numbers as texts *)

\* Of any numbers, one is the least.
LEMMA LeastNumber ==
  ASSUME NEW S \in SUBSET Nat, S # {}
  PROVE  \E n \in S : \A m \in S : n <= m
PROOF
<1>1. PICK n \in S : \A m \in S : ~(<<m, n>> \in OpToRel(<, Nat))
  BY NatLessThanWellFounded, WFMin
<1>2. ASSUME NEW m \in S
      PROVE  n <= m
  <2>1. ~(m < n)
    BY <1>1 DEF OpToRel
  <2> QED BY <2>1
<1> QED BY <1>2

\* A number's text by the texts of smaller ones, which h holds.
Digits(h, n) ==
  IF n < 10 THEN <<Lower[n + 1]>> ELSE Append(h[n \div 10], Lower[(n % 10) + 1])

\* The texts of the numbers to n.
Numerals(h, n) ==
  h \in [0 .. n -> Seq(Tokens)] /\ \A i \in 0 .. n : h[i] = Digits(h, i)

\* The digits are in the alphabet of the texts.
LEMMA DigitTokens ==
  ASSUME NEW d \in 0 .. 15
  PROVE  Lower[d + 1] \in Tokens
PROOF
<1>1. d + 1 \in 1 .. 16
  OBVIOUS
<1> QED BY <1>1, JsonAssumption, Zenon

\* A number of several digits without its last one is less.
LEMMA TenthIsLess ==
  ASSUME NEW n \in Nat, ~(n < 10)
  PROVE  n \div 10 \in 0 .. n - 1 /\ n % 10 \in 0 .. 9
PROOF
  OBVIOUS

\* Texts of smaller numbers make a text.
LEMMA DigitsText ==
  ASSUME NEW n \in Nat, NEW h, n < 10 \/ h[n \div 10] \in Seq(Tokens)
  PROVE  Digits(h, n) \in Seq(Tokens)
PROOF
<1>1. CASE n < 10
  <2>1. Lower[n + 1] \in Tokens
    BY <1>1, DigitTokens
  <2> QED BY <1>1, <2>1 DEF Digits
<1>2. CASE ~(n < 10)
  <2>1. Lower[(n % 10) + 1] \in Tokens
    <3>1. n % 10 \in 0 .. 15
      BY <1>2, TenthIsLess
    <3> QED BY <3>1, DigitTokens
  <2>2. h[n \div 10] \in Seq(Tokens)
    BY <1>2
  <2>3. Append(h[n \div 10], Lower[(n % 10) + 1]) \in Seq(Tokens)
    BY <2>1, <2>2, AppendProperties
  <2> QED BY <1>2, <2>3 DEF Digits
<1> QED BY <1>1, <1>2

\* The texts of the same number are the same.
LEMMA NumeralsAgree ==
  ASSUME NEW m \in Nat, NEW n \in Nat, NEW g, NEW h, Numerals(g, m), Numerals(h, n)
  PROVE  \A i \in 0 .. m : i <= n => g[i] = h[i]
PROOF
<1> DEFINE Differ == {i \in 0 .. m : i <= n /\ g[i] # h[i]}
<1>1. SUFFICES ASSUME Differ # {} PROVE FALSE
  OBVIOUS
<1>2. PICK i \in Differ : \A j \in Differ : i <= j
  <2>1. Differ \in SUBSET Nat
    OBVIOUS
  <2> HIDE DEF Differ
  <2> QED BY <1>1, <2>1, LeastNumber
<1>3. i \in Nat /\ i <= m /\ i <= n /\ g[i] # h[i]
  OBVIOUS
<1>4. g[i] = Digits(g, i) /\ h[i] = Digits(h, i)
  BY <1>3 DEF Numerals
<1>5. Digits(g, i) = Digits(h, i)
  <2>1. CASE i < 10
    BY <2>1 DEF Digits
  <2>2. CASE ~(i < 10)
    <3>1. PICK j \in 0 .. i - 1 : j = i \div 10
      BY <1>3, <2>2, TenthIsLess
    <3>2. g[j] = h[j]
      BY <1>2, <1>3
    <3> QED BY <2>2, <3>1, <3>2 DEF Digits
  <2> QED BY <2>1, <2>2
<1> QED BY <1>3, <1>4, <1>5

\* There are texts of the numbers to any n.
LEMMA NumeralsExist ==
  \A n \in Nat : \E h : Numerals(h, n)
PROOF
<1> DEFINE Missing == {n \in Nat : ~\E h : Numerals(h, n)}
<1>1. SUFFICES ASSUME Missing # {} PROVE FALSE
  OBVIOUS
<1>2. PICK n \in Missing : \A m \in Missing : n <= m
  <2>1. Missing \in SUBSET Nat
    OBVIOUS
  <2> HIDE DEF Missing
  <2> QED BY <1>1, <2>1, LeastNumber
<1>3. n \in Nat /\ ~\E h : Numerals(h, n)
  OBVIOUS
<1>4. PICK g : \A i \in 0 .. n - 1 : g[i] \in Seq(Tokens) /\ g[i] = Digits(g, i)
  <2>1. CASE n = 0
    BY <2>1
  <2>2. CASE n # 0
    <3>1. n - 1 \in Nat /\ n - 1 \notin Missing
      BY <1>2, <1>3, <2>2
    <3>2. PICK h : Numerals(h, n - 1)
      BY <3>1
    <3>3. \A i \in 0 .. n - 1 : h[i] \in Seq(Tokens) /\ h[i] = Digits(h, i)
      BY <3>1, <3>2 DEF Numerals
    <3> QED BY <3>3, Zenon
  <2> QED BY <2>1, <2>2
<1> DEFINE h == [i \in 0 .. n |-> IF i = n THEN Digits(g, n) ELSE g[i]]
<1>5. ASSUME NEW i \in 0 .. n - 1
      PROVE  h[i] = g[i]
  BY <1>3
<1>6. ASSUME NEW i \in 0 .. n
      PROVE  Digits(h, i) = Digits(g, i)
  <2>1. CASE i < 10
    BY <2>1 DEF Digits
  <2>2. CASE ~(i < 10)
    <3>1. PICK j \in 0 .. i - 1 : j = i \div 10
      BY <1>3, <2>2, TenthIsLess
    <3>2. h[j] = g[j]
      BY <1>3, <1>5, <3>1
    <3> HIDE DEF h
    <3> QED BY <2>2, <3>1, <3>2 DEF Digits
  <2> QED BY <2>1, <2>2
<1>7. Digits(g, n) \in Seq(Tokens)
  <2>1. CASE n < 10
    BY <1>3, <2>1, DigitsText
  <2>2. CASE ~(n < 10)
    <3>1. n \div 10 \in 0 .. n - 1
      BY <1>3, <2>2, TenthIsLess
    <3> QED BY <1>3, <1>4, <3>1, DigitsText
  <2> QED BY <2>1, <2>2
<1>8. ASSUME NEW i \in 0 .. n
      PROVE  h[i] \in Seq(Tokens) /\ h[i] = Digits(h, i)
  <2>1. CASE i = n
    <3>1. h[n] = Digits(g, n)
      BY <1>3
    <3> HIDE DEF h
    <3> QED BY <1>6, <1>7, <2>1, <3>1
  <2>2. CASE i # n
    <3>1. i \in 0 .. n - 1
      BY <1>3, <2>2
    <3>2. h[i] = g[i]
      BY <1>5, <3>1
    <3> HIDE DEF h
    <3> QED BY <1>4, <1>6, <3>1, <3>2
  <2> QED BY <2>1, <2>2
<1>9. Numerals(h, n)
  <2>1. h = [i \in 0 .. n |-> h[i]]
    OBVIOUS
  <2> HIDE DEF h
  <2> QED BY <1>8, <2>1 DEF Numerals
<1> QED BY <1>3, <1>9

\* The text of a number is one.
LEMMA NumeralText ==
  \A n \in Nat : Numeral[n] \in Seq(Tokens)
PROOF
<1> DEFINE H(n) == CHOOSE h : Numerals(h, n)
           g == [n \in Nat |-> H(n)[n]]
<1>1. ASSUME NEW n \in Nat
      PROVE  Numerals(H(n), n)
  BY NumeralsExist
<1> HIDE DEF H
<1>2. ASSUME NEW n \in Nat
      PROVE  g[n] \in Seq(Tokens) /\ g[n] = Digits(g, n)
  <2>1. g[n] = H(n)[n]
    OBVIOUS
  <2>2. H(n)[n] \in Seq(Tokens) /\ H(n)[n] = Digits(H(n), n)
    <3>1. PICK h : h = H(n)
      OBVIOUS
    <3>2. h \in [0 .. n -> Seq(Tokens)] /\ \A i \in 0 .. n : h[i] = Digits(h, i)
      BY <1>1, <3>1, Zenon DEF Numerals
    <3>3. n \in 0 .. n
      OBVIOUS
    <3>4. h[n] \in Seq(Tokens) /\ h[n] = Digits(h, n)
      BY <3>2, <3>3, Zenon
    <3> QED BY <3>1, <3>4, Zenon
  <2>3. Digits(H(n), n) = Digits(g, n)
    <3>1. CASE n < 10
      BY <3>1 DEF Digits
    <3>2. CASE ~(n < 10)
      <4>1. PICK j \in 0 .. n - 1 : j = n \div 10
        BY <3>2, TenthIsLess
      <4>2. j \in Nat /\ j <= n
        BY <4>1
      <4>3. H(j)[j] = H(n)[j]
        <5>1. Numerals(H(j), j) /\ Numerals(H(n), n)
          BY <1>1, <4>2
        <5>2. j \in 0 .. j
          BY <4>2
        <5> QED BY <4>2, <5>1, <5>2, NumeralsAgree
      <4>4. g[j] = H(j)[j]
        BY <4>2
      <4> HIDE DEF g
      <4> QED BY <3>2, <4>1, <4>3, <4>4 DEF Digits
    <3> QED BY <3>1, <3>2
  <2> HIDE DEF g
  <2> QED BY <2>1, <2>2, <2>3
<1>3. g = [n \in Nat |-> IF n < 10 THEN <<Lower[n + 1]>>
                         ELSE Append(g[n \div 10], Lower[(n % 10) + 1])]
  <2>1. g = [n \in Nat |-> g[n]]
    OBVIOUS
  <2> HIDE DEF g
  <2> QED BY <1>2, <2>1, Zenon DEF Digits
<1> HIDE DEF g
<1>4. Numeral = [n \in Nat |-> IF n < 10 THEN <<Lower[n + 1]>>
                               ELSE Append(Numeral[n \div 10], Lower[(n % 10) + 1])]
  BY <1>3, Zenon DEF Numeral
<1>5. \A n \in Nat : Numeral[n] = Digits(Numeral, n)
  BY <1>4, Zenon DEF Digits
<1>6. ASSUME NEW n \in Nat
      PROVE  Numeral[n] \in Seq(Tokens)
  <2> DEFINE Bad == {i \in Nat : Numeral[i] \notin Seq(Tokens)}
  <2>1. SUFFICES ASSUME Bad # {} PROVE FALSE
    OBVIOUS
  <2>2. PICK i \in Bad : \A j \in Bad : i <= j
    <3>1. Bad \in SUBSET Nat
      OBVIOUS
    <3> HIDE DEF Bad
    <3> QED BY <2>1, <3>1, LeastNumber
  <2>3. i < 10 \/ Numeral[i \div 10] \in Seq(Tokens)
    <3>1. CASE ~(i < 10)
      <4>1. PICK j \in 0 .. i - 1 : j = i \div 10
        BY <3>1, TenthIsLess
      <4> QED BY <2>2, <4>1
    <3> QED BY <3>1
  <2>4. Digits(Numeral, i) \in Seq(Tokens)
    BY <2>3, DigitsText
  <2>5. i \in Nat /\ Numeral[i] \notin Seq(Tokens)
    OBVIOUS
  <2> QED BY <1>5, <2>4, <2>5
<1> QED BY <1>6

\* A number's text with its sign is one.
LEMMA SignedText ==
  ASSUME NEW b \in BOOLEAN, NEW n \in Nat
  PROVE  Signed(b, n) \in Seq(Tokens)
PROOF
<1>1. Numeral[n] \in Seq(Tokens)
  BY NumeralText
<1>2. (IF b THEN <<"-">> ELSE <<>>) \in Seq(Tokens)
  BY JsonAssumption
<1> QED BY <1>1, <1>2, ConcatProperties DEF Signed

\* How a value that is no text is written is a text.
LEMMA LiteralIsText ==
  ASSUME NEW v \in Json
  PROVE  Literal(v) \in Seq(Tokens)
PROOF
<1>1. {"-", ".0", ".5", "true", "false"} \subseteq Tokens
  BY JsonAssumption
<1>2. CASE v.kind = "number"
  <2>1. v.n \in Int
    BY <1>2, JsonAssumption
  <2>2. Magnitude(v.n) \in Nat /\ (v.n < 0) \in BOOLEAN
    BY <2>1 DEF Magnitude
  <2> QED BY <1>2, <2>2, SignedText DEF Literal
<1>3. CASE v.kind = "real"
  <2>1. v.floor \in Int /\ v.whole \in BOOLEAN
    BY <1>3, JsonAssumption
  <2>2. Truncated(v) \in Int
    BY <2>1 DEF Truncated
  <2>3. Magnitude(Truncated(v)) \in Nat /\ (v.floor < 0) \in BOOLEAN
    BY <2>1, <2>2 DEF Magnitude
  <2> DEFINE before == Signed(v.floor < 0, Magnitude(Truncated(v)))
             after  == IF v.whole THEN ".0" ELSE ".5"
  <2>4. before \in Seq(Tokens)
    BY <2>3, SignedText
  <2>5. after \in Tokens
    BY <1>1
  <2>6. Literal(v) = Append(before, after)
    BY <1>3 DEF Literal
  <2> HIDE DEF before, after
  <2> QED BY <2>4, <2>5, <2>6, AppendProperties
<1>4. CASE v.kind = "bool"
  BY <1>1, <1>4 DEF Literal
<1>5. CASE v.kind \notin {"number", "real", "bool"}
  BY <1>5 DEF Literal
<1> QED BY <1>2, <1>3, <1>4, <1>5

\* What asString returns is a text, the one that is written.
LEMMA AsTextIsText ==
  ASSUME NEW v \in Json
  PROVE  AsText(v) \in Seq(Tokens)
PROOF
  BY LiteralIsText, JsonAssumption DEF AsText

LEMMA AsTextIsWritten ==
  ASSUME NEW v
  PROVE  AsText(v) = Written(v)
PROOF
  BY DEF AsText, Written

\* asBool returns FALSE for what says no, and TRUE for all else.
LEMMA AsBoolIsSaid ==
  ASSUME NEW v \in Json
  PROVE  AsBool(v) \in BOOLEAN /\ AsBool(v) = ~SaysNo(v)
PROOF
<1>1. /\ v.kind \in {"null", "bool", "number", "real", "string", "array", "object"}
      /\ v.kind = "bool" => v.b \in BOOLEAN
      /\ v.kind = "real" => v.whole \in BOOLEAN
  BY JsonAssumption
<1>2. CASE v.kind = "null"
  BY <1>2 DEF AsBool, SaysNo, Items, Members, NoMembers
<1>3. CASE v.kind = "bool"
  BY <1>1, <1>3 DEF AsBool, SaysNo
<1>4. CASE v.kind = "number"
  BY <1>4 DEF AsBool, SaysNo
<1>5. CASE v.kind = "real"
  BY <1>1, <1>5 DEF AsBool, SaysNo
<1>6. CASE v.kind = "string"
  BY <1>6 DEF AsBool, SaysNo
<1>7. CASE v.kind \in {"array", "object"}
  BY <1>7 DEF AsBool, SaysNo
<1> QED BY <1>1, <1>2, <1>3, <1>4, <1>5, <1>6, <1>7

\* The bounds of the integral types are integers.
LEMMA BoundsAreIntegers ==
  ASSUME NEW type \in Integral
  PROVE  /\ Least(type) \in Int /\ Least(type) <= 0
         /\ Greatest(type) \in Int /\ Greatest(type) >= 0
PROOF
<1>1. Half(type) \in Nat \ {0}
  BY WidthAssumption DEF Half
<1> QED BY <1>1 DEF Least, Greatest

\* What asInt and the others do not throw at becomes a number of the type, and the
\* one the JSON says.
LEMMA AsNumberIsSaid ==
  ASSUME NEW type \in Integral, NEW v \in Json, AcceptsNumber(type, v)
  PROVE  /\ InRange(type, AsNumber(type, v))
         /\ SaysNumber(v, AsNumber(type, v)) \/ PastEnd(type, v)
PROOF
<1>1. v.kind \in {"null", "bool", "number", "real"}
  BY DEF AcceptsNumber, IsNumber
<1>2. CASE v.kind = "number"
  BY <1>2 DEF AcceptsNumber, AsNumber, SaysNumber
<1>3. CASE v.kind = "bool"
  BY <1>3 DEF AcceptsNumber, AsNumber, SaysNumber
<1>4. CASE v.kind = "null"
  BY <1>4 DEF AcceptsNumber, AsNumber, SaysNumber
<1>5. CASE v.kind = "real"
  <2>1. v.floor \in Int /\ v.whole \in BOOLEAN
    BY <1>5, JsonAssumption
  <2>2. RealInRange(type, v)
    BY <1>5 DEF AcceptsNumber
  <2>3. /\ Least(type) \in Int /\ Least(type) <= 0
        /\ Greatest(type) \in Int /\ Greatest(type) >= 0
    BY BoundsAreIntegers
  <2>4. CASE PastEnd(type, v)
    <3>1. type \in Integers64
      BY <2>4 DEF PastEnd
    <3>2. AsNumber(type, v) = PastMax[type]
      BY <1>5, <2>4 DEF AsNumber
    <3> QED BY <2>4, <3>1, <3>2, CastAssumption
  <2>5. CASE ~PastEnd(type, v)
    <3>1. AsNumber(type, v) = Truncated(v)
      BY <1>5, <2>5 DEF AsNumber
    <3>2. v.floor <= Greatest(type)
      BY <1>5, <2>1, <2>2, <2>3, <2>5 DEF PastEnd, RealInRange, LastReal
    <3>3. v.floor < 0 => v.floor + 1 <= Greatest(type)
      BY <2>1, <2>3
    <3>4. InRange(type, Truncated(v))
      BY <2>1, <2>2, <2>3, <3>2, <3>3 DEF InRange, RealInRange, Truncated
    <3>5. SaysNumber(v, Truncated(v))
      BY <1>5, <2>1 DEF SaysNumber, Truncated
    <3> QED BY <3>1, <3>4, <3>5
  <2> QED BY <2>4, <2>5
<1> QED BY <1>1, <1>2, <1>3, <1>4, <1>5

-----------------------------------------------------------------------------
(* Lists, members and items *)

\* A list is a function of the places up to its length.
LEMMA ListsAreFunctions ==
  ASSUME NEW q, IsList(q)
  PROVE  Len(q) \in Nat /\ q = [i \in 1 .. Len(q) |-> q[i]]
PROOF
  BY LenProperties DEF IsList

\* A function of the places up to a number is a list.
LEMMA FunctionsAreLists ==
  ASSUME NEW n \in Nat, NEW q, q = [i \in 1 .. n |-> q[i]]
  PROVE  IsList(q) /\ Len(q) = n
PROOF
<1>1. q \in Seq({q[i] : i \in 1 .. n}) /\ Len(q) = n
  OBVIOUS
<1> QED BY <1>1 DEF IsList

\* The empty list is one.
LEMMA EmptyIsList ==
  IsList(<<>>) /\ Len(<<>>) = 0
PROOF
  BY DEF IsList

\* What a JSON value has within it is JSON.
LEMMA PartsAreJson ==
  ASSUME NEW v \in Json
  PROVE  /\ \A f \in DOMAIN Members(v) : Members(v)[f] \in Json
         /\ \A f : Get(v, f) \in Json
         /\ IsList(Items(v))
         /\ \A i \in 1 .. Len(Items(v)) : Items(v)[i] \in Json
PROOF
<1>1. Parts(v) \subseteq Json
  BY JsonAssumption
<1>2. ASSUME NEW f \in DOMAIN Members(v)
      PROVE  Members(v)[f] \in Json
  <2>1. CASE v.kind = "object"
    <3>1. Members(v) = v.members
      BY <2>1 DEF Members
    <3>2. v.members[f] \in Parts(v)
      BY <2>1, <3>1 DEF Parts
    <3> QED BY <1>1, <3>1, <3>2
  <2>2. CASE v.kind # "object"
    BY <2>2 DEF Members, NoMembers
  <2> QED BY <2>1, <2>2
<1>3. ASSUME NEW f
      PROVE  Get(v, f) \in Json
  BY <1>2, JsonAssumption DEF Get
<1>4. CASE v.kind = "array"
  <2>1. Items(v) = v.items /\ IsList(v.items)
    BY <1>4, JsonAssumption DEF Items
  <2>2. ASSUME NEW i \in 1 .. Len(v.items)
        PROVE  v.items[i] \in Json
    <3>1. v.items[i] \in Parts(v)
      BY <1>4 DEF Parts
    <3> QED BY <1>1, <3>1
  <2> QED BY <1>2, <1>3, <2>1, <2>2
<1>5. CASE v.kind # "array"
  <2>1. Items(v) = <<>>
    BY <1>5 DEF Items
  <2> QED BY <1>2, <1>3, <2>1, EmptyIsList
<1> QED BY <1>4, <1>5

-----------------------------------------------------------------------------
(* Induction over the message types *)

\* What is true of a type whenever it is of all those within it is true of all.
LEMMA TypeInduction ==
  ASSUME NEW Good,
         \A type \in DOMAIN Schema :
           (\A f \in DOMAIN Schema[type] :
              Schema[type][f].type = "message" => Schema[type][f].of \in Good) => type \in Good
  PROVE  DOMAIN Schema \subseteq Good
PROOF
<1> DEFINE Bad == DOMAIN Schema \ Good
<1>1. SUFFICES ASSUME Bad # {} PROVE FALSE
  OBVIOUS
<1>2. PICK type \in Bad : \A f \in DOMAIN Schema[type] :
        Schema[type][f].type = "message" => Schema[type][f].of \notin Bad
  <2>1. Bad \in SUBSET DOMAIN Schema
    OBVIOUS
  <2> HIDE DEF Bad
  <2> QED BY <1>1, <2>1, SchemaAssumption, Zenon
<1>3. ASSUME NEW f \in DOMAIN Schema[type], Schema[type][f].type = "message"
      PROVE  Schema[type][f].of \in Good
  BY <1>2, <1>3, SchemaAssumption, Zenon
<1> QED BY <1>3, Zenon

-----------------------------------------------------------------------------
(* One value of a field *)

\* The types of the fields that can be set.
FieldTypes == Integral \union {"bool", "string", "bytes", "enum", "message"}

\* What json_to_value, by the type of the field, does not throw at.
LEMMA AcceptsByType ==
  ASSUME NEW s, NEW fd, NEW v
  PROVE  /\ fd.type \in Integral =>
              (AcceptsValue(s, fd, v) <=> AcceptsNumber(fd.type, v))
         /\ fd.type = "bool" => (AcceptsValue(s, fd, v) <=> IsBool(s, v))
         /\ fd.type = "string" => (AcceptsValue(s, fd, v) <=> IsText(s, v))
         /\ fd.type = "bytes" =>
              (AcceptsValue(s, fd, v) <=> IsText(s, v) /\ IsHex(AsText(v)))
         /\ fd.type = "enum" =>
              (AcceptsValue(s, fd, v) <=> IsText(s, v) /\ AsText(v) \in fd.of)
         /\ fd.type = "message" => (AcceptsValue(s, fd, v) <=> Accepts(s, v, fd.of))
         /\ fd.type \notin FieldTypes => ~AcceptsValue(s, fd, v)
PROOF
  BY DEF FieldTypes, AcceptsValue, Integral, Integers32, Integers64

\* What json_to_value, by the type of the field, sets.
LEMMA ValueByType ==
  ASSUME NEW fd, NEW v
  PROVE  /\ fd.type \in Integral => ToValue(fd, v) = AsNumber(fd.type, v)
         /\ fd.type = "bool" => ToValue(fd, v) = AsBool(v)
         /\ fd.type = "bytes" => ToValue(fd, v) = HexDecode(AsText(v))
         /\ fd.type = "message" => ToValue(fd, v) = ToMessage(v, fd.of)
         /\ fd.type \in {"string", "enum"} => ToValue(fd, v) = AsText(v)
PROOF
  BY DEF ToValue, Integral, Integers32, Integers64

\* What value_to_json, by the type of the field, returns.
LEMMA JsonByType ==
  ASSUME NEW fd, NEW x
  PROVE  /\ fd.type \in Integral => ToJson(fd, x) = Number(x)
         /\ fd.type = "bool" => ToJson(fd, x) = Bool(x)
         /\ fd.type = "bytes" => ToJson(fd, x) = Text(HexEncode(x))
         /\ fd.type = "message" => ToJson(fd, x) = ToObject(x, fd.of)
         /\ fd.type \in {"string", "enum"} => ToJson(fd, x) = Text(x)
PROOF
  BY DEF ToJson, Integral, Integers32, Integers64

\* What a field has room for, by its type.
LEMMA HasValueByType ==
  ASSUME NEW fd, NEW x
  PROVE  /\ fd.type \in Integral =>
              (HasValue(fd, x) <=> InRange(fd.type, x))
         /\ fd.type = "bool" => (HasValue(fd, x) <=> x \in BOOLEAN)
         /\ fd.type = "bytes" => (HasValue(fd, x) <=> x \in Seq(0 .. 255))
         /\ fd.type = "enum" => (HasValue(fd, x) <=> x \in fd.of)
         /\ fd.type = "message" => (HasValue(fd, x) <=> HasType(x, fd.of))
         /\ fd.type = "string" => (HasValue(fd, x) <=> x \in Seq(Tokens))
         /\ fd.type \notin FieldTypes => ~HasValue(fd, x)
PROOF
  BY DEF FieldTypes, HasValue, Integral, Integers32,
         Integers64

\* When JSON and a value say the same, by the type of the field.
LEMMA MeansByType ==
  ASSUME NEW fd, NEW v, NEW x
  PROVE  /\ fd.type \in Integral =>
              (Means(fd, v, x) <=> SaysNumber(v, x) \/ PastEnd(fd.type, v))
         /\ fd.type = "bool" => (Means(fd, v, x) <=> x = ~SaysNo(v))
         /\ fd.type = "bytes" =>
              (Means(fd, v, x) <=>
                 /\ Len(AsText(v)) = 2 * Len(x)
                 /\ \A i \in 1 .. Len(x) :
                      /\ IsDigit(AsText(v)[2 * i - 1], x[i] \div 16)
                      /\ IsDigit(AsText(v)[2 * i], x[i] % 16))
         /\ fd.type = "message" => (Means(fd, v, x) <=> Says(v, x, fd.of))
         /\ fd.type \in {"string", "enum"} => (Means(fd, v, x) <=> x = AsText(v))
PROOF
<1>1. Written(v) = AsText(v)
  BY AsTextIsWritten
<1> QED BY <1>1 DEF Means, Integral, Integers32, Integers64

\* What is taken of a JSON value is one the field has room for, and says what
\* the JSON says, given this of the messages within.
LEMMA TakenValue ==
  ASSUME NEW s \in BOOLEAN, NEW fd, NEW v \in Json, AcceptsValue(s, fd, v),
         fd.type = "message" /\ Accepts(s, v, fd.of) =>
           HasType(ToMessage(v, fd.of), fd.of) /\ Says(v, ToMessage(v, fd.of), fd.of)
  PROVE  HasValue(fd, ToValue(fd, v)) /\ Means(fd, v, ToValue(fd, v))
PROOF
<1>1. CASE fd.type \in Integral
  <2>1. ToValue(fd, v) = AsNumber(fd.type, v) /\ AcceptsNumber(fd.type, v)
    BY <1>1, AcceptsByType, ValueByType, Zenon
  <2>2. HasValue(fd, AsNumber(fd.type, v))
    BY <1>1, <2>1, AsNumberIsSaid, HasValueByType, Zenon
  <2>3. Means(fd, v, AsNumber(fd.type, v))
    BY <1>1, <2>1, AsNumberIsSaid, MeansByType, Zenon
  <2> QED BY <2>1, <2>2, <2>3, Zenon
<1>2. CASE fd.type = "bool"
  <2>1. ToValue(fd, v) = AsBool(v)
    BY <1>2, ValueByType, Zenon
  <2>2. AsBool(v) \in BOOLEAN /\ AsBool(v) = ~SaysNo(v)
    BY AsBoolIsSaid
  <2>3. HasValue(fd, AsBool(v))
    BY <1>2, <2>2, HasValueByType, Zenon
  <2>4. Means(fd, v, AsBool(v))
    BY <1>2, <2>2, MeansByType, Zenon
  <2> QED BY <2>1, <2>3, <2>4, Zenon
<1>3. CASE fd.type = "string"
  <2>1. ToValue(fd, v) = AsText(v)
    BY <1>3, ValueByType
  <2> QED BY <1>3, <2>1, AsTextIsText, HasValueByType, MeansByType
<1>4. CASE fd.type = "bytes"
  <2>1. ToValue(fd, v) = HexDecode(AsText(v)) /\ IsHex(AsText(v))
    BY <1>4, AcceptsByType, ValueByType, Zenon
  <2>2. AsText(v) \in Seq(Tokens)
    BY AsTextIsText
  <2> DEFINE text == AsText(v)
             bytes == HexDecode(text)
  <2>3. /\ bytes \in Seq(0 .. 255)
        /\ Len(text) = 2 * Len(bytes)
        /\ \A i \in 1 .. Len(bytes) : /\ IsDigit(text[2 * i - 1], bytes[i] \div 16)
                                     /\ IsDigit(text[2 * i], bytes[i] % 16)
    BY <2>1, <2>2, DecodedDigits, Zenon
  <2> HIDE DEF bytes, text
  <2>4. HasValue(fd, bytes)
    BY <1>4, <2>3, HasValueByType, Zenon
  <2>5. Means(fd, v, bytes)
    BY <1>4, <2>3, MeansByType, Zenon DEF text
  <2> QED BY <2>1, <2>4, <2>5, Zenon DEF bytes, text
<1>5. CASE fd.type = "enum"
  <2>1. ToValue(fd, v) = AsText(v) /\ AsText(v) \in fd.of
    BY <1>5, AcceptsByType, ValueByType
  <2> QED BY <1>5, <2>1, HasValueByType, MeansByType
<1>6. CASE fd.type = "message"
  <2>1. ToValue(fd, v) = ToMessage(v, fd.of) /\ Accepts(s, v, fd.of)
    BY <1>6, AcceptsByType, ValueByType, Zenon
  <2> DEFINE m == ToMessage(v, fd.of)
  <2>2. HasType(m, fd.of) /\ Says(v, m, fd.of)
    BY <1>6, <2>1
  <2> HIDE DEF m
  <2>3. HasValue(fd, m)
    BY <1>6, <2>2, HasValueByType, Zenon
  <2>4. Means(fd, v, m)
    BY <1>6, <2>2, MeansByType, Zenon
  <2> QED BY <2>1, <2>3, <2>4, Zenon DEF m
<1>7. CASE fd.type \notin FieldTypes
  BY <1>7, AcceptsByType, Zenon
<1> QED BY <1>1, <1>2, <1>3, <1>4, <1>5, <1>6, <1>7 DEF FieldTypes

\* What is shown of a value says it, is accepted in its place and taken for the
\* same value, given this of the messages within.
LEMMA ShownValue ==
  ASSUME NEW s \in BOOLEAN, NEW fd, NEW x, HasValue(fd, x),
         fd.type = "message" /\ HasType(x, fd.of) =>
           /\ Says(ToObject(x, fd.of), x, fd.of)
           /\ Accepts(s, ToObject(x, fd.of), fd.of)
           /\ ToMessage(ToObject(x, fd.of), fd.of) = x
  PROVE  /\ Means(fd, ToJson(fd, x), x)
         /\ AcceptsValue(s, fd, ToJson(fd, x))
         /\ ToValue(fd, ToJson(fd, x)) = x
PROOF
<1>1. CASE fd.type \in Integral
  <2>1. ToJson(fd, x) = Number(x) /\ InRange(fd.type, x)
    BY <1>1, HasValueByType, JsonByType, Zenon
  <2>2. /\ AsNumber(fd.type, Number(x)) = x /\ IsNumber(Number(x))
        /\ SaysNumber(Number(x), x) /\ Number(x).kind # "real"
    BY DEF AsNumber, IsNumber, SaysNumber, Number
  <2>3. AcceptsNumber(fd.type, Number(x))
    BY <2>1, <2>2, Zenon DEF AcceptsNumber
  <2> QED BY <1>1, <2>1, <2>2, <2>3, AcceptsByType, MeansByType, ValueByType, Zenon
<1>2. CASE fd.type = "bool"
  <2>1. ToJson(fd, x) = Bool(x) /\ x \in BOOLEAN
    BY <1>2, HasValueByType, JsonByType, Zenon
  <2>2. AsBool(Bool(x)) = x /\ IsBool(s, Bool(x))
    BY DEF AsBool, IsBool, IsNumber, Bool
  <2>3. x = ~SaysNo(Bool(x))
    BY <2>1 DEF SaysNo, Bool
  <2>4. Means(fd, Bool(x), x) /\ ToValue(fd, Bool(x)) = x
    BY <1>2, <2>2, <2>3, MeansByType, ValueByType, Zenon
  <2>5. AcceptsValue(s, fd, Bool(x))
    BY <1>2, <2>2, AcceptsByType, Zenon
  <2> QED BY <2>1, <2>4, <2>5, Zenon
<1>3. CASE fd.type \in {"string", "enum"}
  <2>1. ToJson(fd, x) = Text(x)
    BY <1>3, JsonByType, Zenon
  <2>2. AsText(Text(x)) = x /\ IsText(s, Text(x))
    BY DEF AsText, IsText, Text
  <2>3. ToValue(fd, Text(x)) = x /\ Means(fd, Text(x), x)
    BY <1>3, <2>2, MeansByType, ValueByType, Zenon
  <2>4. AcceptsValue(s, fd, Text(x))
    BY <1>3, <2>2, AcceptsByType, HasValueByType
  <2> QED BY <2>1, <2>3, <2>4, Zenon
<1>4. CASE fd.type = "bytes"
  <2>1. ToJson(fd, x) = Text(HexEncode(x)) /\ x \in Seq(0 .. 255)
    BY <1>4, HasValueByType, JsonByType, Zenon
  <2> DEFINE text == HexEncode(x)
  <2>2. AsText(Text(text)) = text /\ IsText(s, Text(text))
    BY DEF AsText, IsText, Text
  <2>3. IsHex(text) /\ HexDecode(text) = x
    BY <2>1, DecodesWhatItEncodes, Zenon
  <2>4. /\ Len(text) = 2 * Len(x)
        /\ \A i \in 1 .. Len(x) : /\ IsDigit(text[2 * i - 1], x[i] \div 16)
                                 /\ IsDigit(text[2 * i], x[i] % 16)
    BY <2>1, EncodedDigits, Zenon
  <2> HIDE DEF text
  <2>5. Means(fd, Text(text), x)
    BY <1>4, <2>2, <2>4, MeansByType, Zenon
  <2>6. AcceptsValue(s, fd, Text(text)) /\ ToValue(fd, Text(text)) = x
    BY <1>4, <2>2, <2>3, AcceptsByType, ValueByType, Zenon
  <2> QED BY <2>1, <2>5, <2>6, Zenon DEF text
<1>5. CASE fd.type = "message"
  <2>1. ToJson(fd, x) = ToObject(x, fd.of) /\ HasType(x, fd.of)
    BY <1>5, HasValueByType, JsonByType, Zenon
  <2> QED BY <1>5, <2>1, AcceptsByType, MeansByType, ValueByType, Zenon
<1>6. CASE fd.type \notin FieldTypes
  BY <1>6, HasValueByType, Zenon
<1> QED BY <1>1, <1>2, <1>3, <1>4, <1>5, <1>6 DEF FieldTypes

-----------------------------------------------------------------------------
(* A message *)

\* One call: what is taken of JSON that is accepted is a message of the type, and
\* the JSON says just what is in it, given this of the calls within.
LEMMA TakenFields ==
  ASSUME Recursion, NEW type \in DOMAIN Schema, NEW s \in BOOLEAN,
         NEW v \in Json, Accepts(s, v, type),
         \A f \in DOMAIN Schema[type], w \in Json :
           Schema[type][f].type = "message" /\ Accepts(s, w, Schema[type][f].of) =>
             /\ HasType(ToMessage(w, Schema[type][f].of), Schema[type][f].of)
             /\ Says(w, ToMessage(w, Schema[type][f].of), Schema[type][f].of)
  PROVE  HasType(ToMessage(v, type), type) /\ Says(v, ToMessage(v, type), type)
PROOF
<1> DEFINE fields == Schema[type]
           m == ToMessage(v, type)
           given == DOMAIN fields \intersect DOMAIN Members(v)
<1>1. \A f \in given :
        IF fields[f].repeated
          THEN \A i \in 1 .. Len(Items(Members(v)[f])) :
                 AcceptsValue(s, fields[f], Items(Members(v)[f])[i])
          ELSE AcceptsValue(s, fields[f], Members(v)[f])
  <2>1. AcceptsObject(s, v, type)
    BY Zenon DEF Recursion
  <2> QED BY <2>1 DEF AcceptsObject
<1>2. m = [f \in {f \in DOMAIN fields : fields[f].repeated} \union given |->
             IF f \notin given THEN <<>>
             ELSE IF ~fields[f].repeated THEN ToValue(fields[f], Members(v)[f])
             ELSE [i \in 1 .. Len(Items(Members(v)[f])) |->
                     ToValue(fields[f], Items(Members(v)[f])[i])]]
  BY Zenon DEF Recursion, MessageOf
<1>3. ASSUME NEW f \in DOMAIN fields, NEW w \in Json, AcceptsValue(s, fields[f], w)
      PROVE  /\ HasValue(fields[f], ToValue(fields[f], w))
             /\ Means(fields[f], w, ToValue(fields[f], w))
  BY <1>3, TakenValue, Zenon
<1> HIDE DEF m
<1>4. ASSUME NEW f \in given, ~fields[f].repeated
      PROVE  /\ f \in DOMAIN m
             /\ HasValue(fields[f], m[f]) /\ Means(fields[f], Members(v)[f], m[f])
  <2>1. f \in DOMAIN m /\ m[f] = ToValue(fields[f], Members(v)[f])
    BY <1>2, <1>4, Zenon
  <2>2. Members(v)[f] \in Json
    BY PartsAreJson
  <2> QED BY <1>1, <1>3, <1>4, <2>1, <2>2, Zenon
<1>5. ASSUME NEW f \in DOMAIN fields, fields[f].repeated
      PROVE  /\ f \in DOMAIN m
             /\ IsList(m[f]) /\ Len(m[f]) = Len(Items(Get(v, f)))
             /\ \A i \in 1 .. Len(m[f]) : /\ HasValue(fields[f], m[f][i])
                                         /\ Means(fields[f], Items(Get(v, f))[i], m[f][i])
  <2>1. f \in DOMAIN m
    BY <1>2, <1>5, Zenon
  <2>2. CASE f \in given
    <3> DEFINE items == Items(Members(v)[f])
    <3>1. m[f] = [i \in 1 .. Len(items) |-> ToValue(fields[f], items[i])]
      BY <1>2, <1>5, <2>2, Zenon
    <3>2. Get(v, f) = Members(v)[f] /\ Members(v)[f] \in Json
      BY <2>2, PartsAreJson DEF Get
    <3>3. IsList(items) /\ \A i \in 1 .. Len(items) : items[i] \in Json
      BY <3>2, PartsAreJson
    <3>4. \A i \in 1 .. Len(items) : AcceptsValue(s, fields[f], items[i])
      BY <1>1, <1>5, <2>2, Zenon
    <3> HIDE DEF items
    <3>5. PICK n \in Nat : n = Len(items)
      BY <3>3, ListsAreFunctions
    <3>6. m[f] = [i \in 1 .. n |-> m[f][i]]
      BY <3>1, <3>5
    <3>7. IsList(m[f]) /\ Len(m[f]) = n
      BY <3>6, FunctionsAreLists
    <3>8. ASSUME NEW i \in 1 .. n
          PROVE  HasValue(fields[f], m[f][i]) /\ Means(fields[f], items[i], m[f][i])
      <4>1. m[f][i] = ToValue(fields[f], items[i])
        BY <3>1, <3>5
      <4> QED BY <1>3, <3>3, <3>4, <3>5, <4>1, Zenon
    <3> QED BY <2>1, <3>2, <3>5, <3>7, <3>8, Zenon DEF items
  <2>3. CASE f \notin given
    <3>1. m[f] = <<>>
      BY <1>2, <1>5, <2>3, Zenon
    <3>2. Items(Get(v, f)) = <<>>
      BY <2>3 DEF Get, Items, Null
    <3> QED BY <2>1, <3>1, <3>2, EmptyIsList
  <2> QED BY <2>2, <2>3
<1>6. HasType(m, type)
  <2>1. DOMAIN m \subseteq DOMAIN fields /\ m = [f \in DOMAIN m |-> m[f]]
    BY <1>2
  <2>2. ASSUME NEW f \in DOMAIN fields, ~fields[f].repeated, f \in DOMAIN m
        PROVE  HasValue(fields[f], m[f])
    <3>1. f \in given
      BY <1>2, <2>2, Zenon
    <3> QED BY <1>4, <2>2, <3>1, Zenon
  <2>3. HasFields(m, type)
    BY <1>5, <2>1, <2>2, Zenon DEF HasFields
  <2> QED BY <2>3, Zenon DEF Recursion
<1>7. Says(v, m, type)
  <2>1. ASSUME NEW f \in DOMAIN fields, ~fields[f].repeated
        PROVE  /\ f \in DOMAIN m <=> f \in DOMAIN Members(v)
               /\ f \in DOMAIN m => Means(fields[f], Members(v)[f], m[f])
    <3>1. f \in DOMAIN m <=> f \in given
      BY <1>2, <2>1, Zenon
    <3> QED BY <1>4, <2>1, <3>1, Zenon
  <2>2. ASSUME NEW f \in DOMAIN fields, fields[f].repeated
        PROVE  /\ Len(Items(Get(v, f))) = Len(m[f])
               /\ \A i \in 1 .. Len(Items(Get(v, f))) :
                    Means(fields[f], Items(Get(v, f))[i], m[f][i])
    BY <1>5, <2>2, Zenon
  <2>3. SaysMembers(v, m, type)
    BY <2>1, <2>2, Zenon DEF SaysMembers
  <2> QED BY <2>3, Zenon DEF Recursion
<1> QED BY <1>6, <1>7 DEF m

\* What a message of the type holds.
LEMMA FieldsOf ==
  ASSUME Recursion, NEW type \in DOMAIN Schema, NEW m, HasType(m, type)
  PROVE  /\ m = [f \in DOMAIN m |-> m[f]]
         /\ DOMAIN m \subseteq DOMAIN Schema[type]
         /\ \A f \in DOMAIN m : ~Schema[type][f].repeated => HasValue(Schema[type][f], m[f])
         /\ \A f \in DOMAIN Schema[type] : Schema[type][f].repeated =>
              /\ f \in DOMAIN m /\ IsList(m[f])
              /\ \A i \in 1 .. Len(m[f]) : HasValue(Schema[type][f], m[f][i])
PROOF
<1>1. HasFields(m, type)
  BY Zenon DEF Recursion
<1> QED BY <1>1, Zenon DEF HasFields

\* One call: what is shown of a message says what is in it, is accepted and taken
\* for the same message, given this of the calls within.
LEMMA ShownFields ==
  ASSUME Recursion, NEW type \in DOMAIN Schema, NEW s \in BOOLEAN, NEW m, HasType(m, type),
         \A f \in DOMAIN Schema[type] : \A x :
           Schema[type][f].type = "message" /\ HasType(x, Schema[type][f].of) =>
             /\ Says(ToObject(x, Schema[type][f].of), x, Schema[type][f].of)
             /\ Accepts(s, ToObject(x, Schema[type][f].of), Schema[type][f].of)
             /\ ToMessage(ToObject(x, Schema[type][f].of), Schema[type][f].of) = x
  PROVE  /\ Says(ToObject(m, type), m, type)
         /\ Accepts(s, ToObject(m, type), type)
         /\ ToMessage(ToObject(m, type), type) = m
PROOF
<1> DEFINE fields == Schema[type]
           v == ToObject(m, type)
           shown == {f \in DOMAIN m : fields[f].repeated => m[f] # <<>>}
           members == [f \in shown |->
                         IF fields[f].repeated
                           THEN Array([i \in 1 .. Len(m[f]) |-> ToJson(fields[f], m[f][i])])
                           ELSE ToJson(fields[f], m[f])]
<1>1. v = Object(members)
  BY Zenon DEF Recursion, ObjectOf
<1>2. v.kind = "object" /\ Members(v) = members
  BY <1>1 DEF Object, Members
<1> HIDE DEF v
<1>3. ASSUME NEW f \in DOMAIN fields, NEW x, HasValue(fields[f], x)
      PROVE  /\ Means(fields[f], ToJson(fields[f], x), x)
             /\ AcceptsValue(s, fields[f], ToJson(fields[f], x))
             /\ ToValue(fields[f], ToJson(fields[f], x)) = x
  BY <1>3, ShownValue, Zenon
<1>4. DOMAIN m \subseteq DOMAIN fields
  BY FieldsOf
<1>5. ASSUME NEW f \in DOMAIN m, ~fields[f].repeated
      PROVE  /\ f \in DOMAIN Members(v)
             /\ Means(fields[f], Members(v)[f], m[f])
             /\ AcceptsValue(s, fields[f], Members(v)[f])
             /\ ToValue(fields[f], Members(v)[f]) = m[f]
  <2>1. f \in DOMAIN Members(v) /\ Members(v)[f] = ToJson(fields[f], m[f])
    BY <1>2, <1>5, Zenon
  <2>2. HasValue(fields[f], m[f])
    BY <1>5, FieldsOf, Zenon
  <2> QED BY <1>3, <1>4, <2>1, <2>2
<1>6. ASSUME NEW f \in DOMAIN fields, fields[f].repeated, f \in DOMAIN Members(v)
      PROVE  /\ IsArray(s, Members(v)[f])
             /\ Len(Items(Members(v)[f])) = Len(m[f])
             /\ \A i \in 1 .. Len(m[f]) :
                  /\ Means(fields[f], Items(Members(v)[f])[i], m[f][i])
                  /\ AcceptsValue(s, fields[f], Items(Members(v)[f])[i])
                  /\ ToValue(fields[f], Items(Members(v)[f])[i]) = m[f][i]
  <2>1. f \in shown
    BY <1>2, <1>6, Zenon
  <2> DEFINE items == [i \in 1 .. Len(m[f]) |-> ToJson(fields[f], m[f][i])]
  <2>2. Members(v)[f] = Array(items)
    BY <1>2, <1>6, <2>1, Zenon
  <2>3. Items(Members(v)[f]) = items /\ IsArray(s, Members(v)[f])
    BY <2>2 DEF Array, Items, IsArray
  <2>4. IsList(m[f]) /\ \A i \in 1 .. Len(m[f]) : HasValue(fields[f], m[f][i])
    BY <1>6, FieldsOf, Zenon
  <2>5. PICK n \in Nat : n = Len(m[f])
    BY <2>4, ListsAreFunctions
  <2>6. items = [i \in 1 .. n |-> items[i]] /\ Len(items) = n
    BY <2>5
  <2>7. ASSUME NEW i \in 1 .. n
        PROVE  /\ Means(fields[f], items[i], m[f][i])
               /\ AcceptsValue(s, fields[f], items[i])
               /\ ToValue(fields[f], items[i]) = m[f][i]
    <3>1. items[i] = ToJson(fields[f], m[f][i])
      BY <2>5
    <3> HIDE DEF items
    <3> QED BY <1>3, <2>4, <2>5, <3>1, Zenon
  <2> HIDE DEF items
  <2> QED BY <2>3, <2>5, <2>6, <2>7, Zenon
<1>7. ASSUME NEW f \in DOMAIN fields, fields[f].repeated, f \notin DOMAIN Members(v)
      PROVE  f \in DOMAIN m /\ m[f] = <<>> /\ Items(Get(v, f)) = <<>>
  <2>1. f \in DOMAIN m
    BY <1>7, FieldsOf, Zenon
  <2>2. m[f] = <<>>
    BY <1>2, <1>7, <2>1, Zenon
  <2>3. Items(Get(v, f)) = <<>>
    BY <1>7 DEF Get, Items, Null
  <2> QED BY <2>1, <2>2, <2>3
<1>8. DOMAIN Members(v) \subseteq DOMAIN m
  BY <1>2
<1>9. Says(v, m, type)
  <2>1. ASSUME NEW f \in DOMAIN fields, fields[f].repeated
        PROVE  /\ Len(Items(Get(v, f))) = Len(m[f])
               /\ \A i \in 1 .. Len(Items(Get(v, f))) :
                    Means(fields[f], Items(Get(v, f))[i], m[f][i])
    <3>1. CASE f \in DOMAIN Members(v)
      <4>1. Get(v, f) = Members(v)[f]
        BY <3>1 DEF Get
      <4> QED BY <1>6, <2>1, <3>1, <4>1, Zenon
    <3>2. CASE f \notin DOMAIN Members(v)
      BY <1>7, <2>1, <3>2
    <3> QED BY <3>1, <3>2
  <2>2. ASSUME NEW f \in DOMAIN fields, ~fields[f].repeated
        PROVE  /\ f \in DOMAIN m <=> f \in DOMAIN Members(v)
               /\ f \in DOMAIN m => Means(fields[f], Members(v)[f], m[f])
    BY <1>5, <1>8, <2>2, Zenon
  <2>3. SaysMembers(v, m, type)
    BY <2>1, <2>2, Zenon DEF SaysMembers
  <2> QED BY <2>3, Zenon DEF Recursion
<1>10. Accepts(s, v, type)
  <2>1. IsObject(s, v)
    BY <1>2 DEF IsObject
  <2>2. ASSUME NEW f \in DOMAIN fields, fields[f].repeated, f \in DOMAIN Members(v)
        PROVE  /\ IsArray(s, Members(v)[f])
               /\ \A i \in 1 .. Len(Items(Members(v)[f])) :
                    AcceptsValue(s, fields[f], Items(Members(v)[f])[i])
    BY <1>6, <2>2, Zenon
  <2>3. ASSUME NEW f \in DOMAIN Members(v), ~fields[f].repeated
        PROVE  AcceptsValue(s, fields[f], Members(v)[f])
    BY <1>5, <1>8, <2>3, Zenon
  <2>4. AcceptsObject(s, v, type)
    BY <2>1, <2>2, <2>3, Zenon DEF AcceptsObject
  <2> QED BY <2>4, Zenon DEF Recursion
<1>11. ToMessage(v, type) = m
  <2> DEFINE given == DOMAIN fields \intersect DOMAIN Members(v)
             held == {f \in DOMAIN fields : fields[f].repeated} \union given
             value(f) == IF f \notin given THEN <<>>
                         ELSE IF ~fields[f].repeated THEN ToValue(fields[f], Members(v)[f])
                         ELSE [i \in 1 .. Len(Items(Members(v)[f])) |->
                                 ToValue(fields[f], Items(Members(v)[f])[i])]
  <2>1. ToMessage(v, type) = [f \in held |-> value(f)]
    BY Zenon DEF Recursion, MessageOf
  <2>2. held = DOMAIN m
    <3>1. ASSUME NEW f \in held PROVE f \in DOMAIN m
      BY <1>8, FieldsOf, Zenon
    <3>2. ASSUME NEW f \in DOMAIN m PROVE f \in held
      BY <1>4, <1>5, Zenon
    <3> QED BY <3>1, <3>2, Zenon
  <2>3. ASSUME NEW f \in DOMAIN m
        PROVE  value(f) = m[f]
    <3>1. CASE ~fields[f].repeated
      BY <1>4, <1>5, <3>1, Zenon
    <3>2. CASE fields[f].repeated /\ f \notin DOMAIN Members(v)
      BY <1>4, <1>7, <3>2, Zenon
    <3>3. CASE fields[f].repeated /\ f \in DOMAIN Members(v)
      <4>1. value(f) = [i \in 1 .. Len(Items(Members(v)[f])) |->
                          ToValue(fields[f], Items(Members(v)[f])[i])]
        BY <1>4, <3>3, Zenon
      <4>2. value(f) = [i \in 1 .. Len(m[f]) |-> m[f][i]]
        BY <1>4, <1>6, <3>3, <4>1, Zenon
      <4>3. m[f] = [i \in 1 .. Len(m[f]) |-> m[f][i]]
        BY <1>4, <3>3, FieldsOf, ListsAreFunctions
      <4> QED BY <4>2, <4>3, Zenon
    <3> QED BY <3>1, <3>2, <3>3
  <2>4. m = [f \in DOMAIN m |-> m[f]]
    BY FieldsOf, Zenon
  <2> HIDE DEF held, value
  <2> QED BY <2>1, <2>2, <2>3, <2>4
<1> QED BY <1>9, <1>10, <1>11 DEF v

\* What a field may hold.
HoldsField(fd, x) ==
  IF fd.repeated THEN IsList(x) /\ \A i \in 1 .. Len(x) : HasValue(fd, x[i])
  ELSE HasValue(fd, x)

\* A message stays one when a field is set in it.
LEMMA WithField ==
  ASSUME Recursion, NEW type \in DOMAIN Schema, NEW m, HasType(m, type),
         NEW c \in DOMAIN Schema[type], NEW x, HoldsField(Schema[type][c], x)
  PROVE  HasType(With(m, c, x), type)
PROOF
<1> DEFINE fields == Schema[type]
           w == With(m, c, x)
<1>1. w = [g \in DOMAIN m \union {c} |-> IF g = c THEN x ELSE m[g]]
  BY DEF With
<1> HIDE DEF w
<1>2. w = [f \in DOMAIN w |-> w[f]] /\ DOMAIN w = DOMAIN m \union {c}
  BY <1>1
<1>3. w[c] = x /\ \A f \in DOMAIN m : f # c => w[f] = m[f]
  BY <1>1
<1>4. DOMAIN w \subseteq DOMAIN fields
  BY <1>2, FieldsOf
<1>5. ASSUME NEW f \in DOMAIN fields, ~fields[f].repeated, f \in DOMAIN w
      PROVE  HasValue(fields[f], w[f])
  <2>1. CASE f = c
    BY <1>3, <1>5, <2>1, Zenon DEF HoldsField
  <2>2. CASE f # c
    BY <1>2, <1>3, <1>5, <2>2, FieldsOf
  <2> QED BY <2>1, <2>2
<1>6. ASSUME NEW f \in DOMAIN fields, fields[f].repeated
      PROVE  /\ f \in DOMAIN w /\ IsList(w[f])
             /\ \A i \in 1 .. Len(w[f]) : HasValue(fields[f], w[f][i])
  <2>1. CASE f = c
    BY <1>2, <1>3, <1>6, <2>1, Zenon DEF HoldsField
  <2>2. CASE f # c
    <3>1. f \in DOMAIN m
      BY <1>6, FieldsOf, Zenon
    <3>2. w[f] = m[f] /\ f \in DOMAIN w
      BY <1>2, <1>3, <2>2, <3>1
    <3> QED BY <1>6, <3>2, FieldsOf, Zenon
  <2> QED BY <2>1, <2>2
<1>7. HasFields(w, type)
  BY <1>2, <1>4, <1>5, <1>6, Zenon DEF HasFields
<1> QED BY <1>7, Zenon DEF Recursion, w

\* So does what it holds below a number.
LEMMA BelowNumber ==
  ASSUME Recursion, NEW type \in DOMAIN Schema, NEW m, HasType(m, type), NEW n
  PROVE  HasType(Below(m, type, n), type)
PROOF
<1> DEFINE fields == Schema[type]
           w == Below(m, type, n)
           held == {g \in DOMAIN m : fields[g].number < n \/ fields[g].repeated}
<1>1. w = [f \in held |-> IF fields[f].number < n THEN m[f] ELSE <<>>]
  BY Zenon DEF Below
<1> HIDE DEF w
<1>2. w = [f \in DOMAIN w |-> w[f]] /\ DOMAIN w = held
  BY <1>1, Zenon
<1>3. DOMAIN w \subseteq DOMAIN m
  BY <1>2, Zenon
<1>4. DOMAIN w \subseteq DOMAIN fields
  BY <1>3, FieldsOf
<1>5. \A f \in held : w[f] = m[f] \/ (fields[f].repeated /\ w[f] = <<>>)
  BY <1>1, Zenon
<1>6. ASSUME NEW f \in DOMAIN fields, ~fields[f].repeated, f \in DOMAIN w
      PROVE  HasValue(fields[f], w[f])
  <2>1. w[f] = m[f]
    BY <1>2, <1>5, <1>6, Zenon
  <2> QED BY <1>3, <1>6, <2>1, FieldsOf
<1>7. ASSUME NEW f \in DOMAIN fields, fields[f].repeated
      PROVE  /\ f \in DOMAIN w /\ IsList(w[f])
             /\ \A i \in 1 .. Len(w[f]) : HasValue(fields[f], w[f][i])
  <2>1. f \in DOMAIN m
    BY <1>7, FieldsOf, Zenon
  <2>2. f \in held
    BY <1>7, <2>1, Zenon
  <2>3. f \in DOMAIN w
    BY <1>2, <2>2, Zenon
  <2>4. CASE w[f] = m[f]
    BY <1>7, <2>3, <2>4, FieldsOf, Zenon
  <2>5. CASE w[f] = <<>>
    BY <2>3, <2>5, EmptyIsList
  <2> QED BY <1>5, <2>2, <2>4, <2>5, Zenon
<1>8. HasFields(w, type)
  BY <1>2, <1>4, <1>6, <1>7, Zenon DEF HasFields
<1> QED BY <1>8, Zenon DEF Recursion, w

\* The first items of a list, and one more.
LEMMA FirstItems ==
  ASSUME NEW q, IsList(q), NEW k \in 1 .. Len(q)
  PROVE  /\ IsList(SubSeq(q, 1, k - 1)) /\ Len(SubSeq(q, 1, k - 1)) = k - 1
         /\ \A i \in 1 .. k - 1 : SubSeq(q, 1, k - 1)[i] = q[i]
         /\ \A x : /\ IsList(Append(SubSeq(q, 1, k - 1), x))
                  /\ Len(Append(SubSeq(q, 1, k - 1), x)) = k
                  /\ Append(SubSeq(q, 1, k - 1), x)[k] = x
                  /\ \A i \in 1 .. k - 1 : Append(SubSeq(q, 1, k - 1), x)[i] = q[i]
PROOF
<1> DEFINE S == {q[i] : i \in 1 .. Len(q)}
           first == SubSeq(q, 1, k - 1)
<1>1. Len(q) \in Nat /\ k \in Nat
  BY ListsAreFunctions
<1>2. \A i \in 1 .. k - 1 : q[i] \in S
  BY <1>1
<1> HIDE DEF S
<1>3. /\ first \in Seq(S)
      /\ Len(first) = k - 1
      /\ \A i \in 1 .. k - 1 : first[i] = q[i]
  <2>1. k - 1 \in Int /\ k - 1 - 1 + 1 = k - 1
    BY <1>1
  <2>2. /\ first \in Seq(S)
        /\ Len(first) = IF 1 <= k - 1 THEN k - 1 - 1 + 1 ELSE 0
        /\ \A i \in 1 .. k - 1 - 1 + 1 : first[i] = q[1 + i - 1]
    BY <1>2, <2>1, SubSeqProperties
  <2> HIDE DEF first
  <2>3. Len(first) = k - 1
    BY <1>1, <2>2
  <2>4. \A i \in 1 .. k - 1 : first[i] = q[i]
    BY <1>1, <2>2
  <2> QED BY <2>2, <2>3, <2>4
<1> HIDE DEF first
<1>4. first = [i \in 1 .. k - 1 |-> first[i]] /\ k - 1 \in Nat
  BY <1>1, <1>3, LenProperties
<1>5. IsList(first)
  BY <1>4, FunctionsAreLists
<1>6. ASSUME NEW x
      PROVE  /\ IsList(Append(first, x)) /\ Len(Append(first, x)) = k
             /\ Append(first, x)[k] = x
             /\ \A i \in 1 .. k - 1 : Append(first, x)[i] = q[i]
  <2> DEFINE longer == Append(first, x)
  <2>1. first \in Seq(S \union {x}) /\ x \in S \union {x}
    BY <1>3, SeqMonotonic
  <2>2. /\ longer \in Seq(S \union {x})
        /\ Len(longer) = k
        /\ longer[k] = x
        /\ \A i \in 1 .. k - 1 : longer[i] = first[i]
    BY <1>1, <1>3, <2>1, AppendProperties
  <2> HIDE DEF longer
  <2>3. longer = [i \in 1 .. k |-> longer[i]]
    BY <2>2, LenProperties
  <2>4. IsList(longer)
    BY <1>1, <2>3, FunctionsAreLists
  <2> QED BY <1>3, <2>2, <2>4 DEF longer
<1> QED BY <1>3, <1>5, <1>6 DEF first

\* One call: what is left of a message that was cut short is a message of the type,
\* given this of the calls within.
LEMMA CutFields ==
  ASSUME Recursion, NEW type \in DOMAIN Schema, NEW m, HasType(m, type),
         \A f \in DOMAIN Schema[type] : \A x :
           Schema[type][f].type = "message" /\ HasType(x, Schema[type][f].of) =>
             \A y \in Cuts(x, Schema[type][f].of) : HasType(y, Schema[type][f].of)
  PROVE  \A y \in Cuts(m, type) : HasType(y, type)
PROOF
<1> TAKE y \in Cuts(m, type)
<1>1. Cuts(m, type) = CutsOf(m, type)
  BY Zenon DEF Recursion
<1> DEFINE part(fd, x) == IF fd.type = "message" THEN Cuts(x, fd.of) ELSE {}
<1>2. PICK c \in DOMAIN m :
        LET fd     == Schema[type][c]
            before == Below(m, type, fd.number)
        IN  IF fd.repeated
              THEN \E k \in 1 .. Len(m[c]) :
                     \/ y = With(before, c, SubSeq(m[c], 1, k - 1))
                     \/ \E x \in part(fd, m[c][k]) :
                          y = With(before, c, Append(SubSeq(m[c], 1, k - 1), x))
              ELSE y = before \/ \E x \in part(fd, m[c]) : y = With(before, c, x)
  BY <1>1 DEF CutsOf
<1> DEFINE fd == Schema[type][c]
           before == Below(m, type, fd.number)
<1>3. c \in DOMAIN Schema[type]
  BY FieldsOf
<1>4. HasType(before, type)
  BY BelowNumber, Zenon
<1>5. ASSUME NEW x, HasValue(fd, x), NEW z \in part(fd, x)
      PROVE  HasValue(fd, z)
  <2>1. fd.type = "message" /\ z \in Cuts(x, fd.of)
    OBVIOUS
  <2>2. HasType(x, fd.of)
    BY <1>5, <2>1, HasValueByType, Zenon
  <2>3. HasType(z, fd.of)
    BY <1>3, <2>1, <2>2, Zenon
  <2> QED BY <2>1, <2>3, HasValueByType, Zenon
<1>6. CASE ~fd.repeated
  <2>1. HasValue(fd, m[c])
    BY <1>6, FieldsOf, Zenon
  <2>2. CASE y = before
    BY <1>4, <2>2, Zenon
  <2>3. ASSUME NEW x \in part(fd, m[c]), y = With(before, c, x)
        PROVE  HasType(y, type)
    <3>1. HasValue(fd, x)
      BY <1>5, <2>1, Zenon
    <3>2. HoldsField(fd, x)
      BY <1>6, <3>1, Zenon DEF HoldsField
    <3> QED BY <1>3, <1>4, <2>3, <3>2, WithField, Zenon
  <2> QED BY <1>2, <1>6, <2>2, <2>3, Zenon
<1>7. CASE fd.repeated
  <2>1. IsList(m[c]) /\ \A i \in 1 .. Len(m[c]) : HasValue(fd, m[c][i])
    BY <1>3, <1>7, FieldsOf, Zenon
  <2>2. PICK k \in 1 .. Len(m[c]) :
          \/ y = With(before, c, SubSeq(m[c], 1, k - 1))
          \/ \E x \in part(fd, m[c][k]) :
               y = With(before, c, Append(SubSeq(m[c], 1, k - 1), x))
    BY <1>2, <1>7, Zenon
  <2>3. k \in Nat /\ Len(m[c]) \in Nat
    BY <2>1, ListsAreFunctions
  <2> DEFINE first == SubSeq(m[c], 1, k - 1)
  <2>4. /\ IsList(first) /\ Len(first) = k - 1
        /\ \A i \in 1 .. k - 1 : first[i] = m[c][i]
        /\ \A x : /\ IsList(Append(first, x)) /\ Len(Append(first, x)) = k
                 /\ Append(first, x)[k] = x
                 /\ \A i \in 1 .. k - 1 : Append(first, x)[i] = m[c][i]
    BY <2>1, FirstItems, Zenon
  <2> HIDE DEF first
  <2>5. \A i \in 1 .. k - 1 : HasValue(fd, m[c][i])
    BY <2>1, <2>3
  <2>6. CASE y = With(before, c, first)
    <3>1. \A i \in 1 .. Len(first) : HasValue(fd, first[i])
      BY <2>4, <2>5, Zenon
    <3>2. HoldsField(fd, first)
      BY <1>7, <2>4, <3>1, Zenon DEF HoldsField
    <3> QED BY <1>3, <1>4, <2>6, <3>2, WithField, Zenon
  <2>7. ASSUME NEW x \in part(fd, m[c][k]), y = With(before, c, Append(first, x))
        PROVE  HasType(y, type)
    <3>1. HasValue(fd, x)
      BY <1>5, <2>1, Zenon
    <3>2. PICK q : q = Append(first, x)
      OBVIOUS
    <3>3. IsList(q) /\ Len(q) = k /\ q[k] = x /\ \A i \in 1 .. k - 1 : q[i] = m[c][i]
      BY <2>4, <3>2, Zenon
    <3>4. ASSUME NEW i \in 1 .. k
          PROVE  HasValue(fd, q[i])
      <4>1. CASE i = k
        BY <3>1, <3>3, <4>1, Zenon
      <4>2. CASE i # k
        <5>1. i \in 1 .. k - 1
          BY <2>3, <4>2
        <5>2. q[i] = m[c][i] /\ HasValue(fd, m[c][i])
          BY <2>5, <3>3, <5>1, Zenon
        <5> QED BY <5>2, Zenon
      <4> QED BY <4>1, <4>2
    <3>5. HoldsField(fd, q)
      BY <1>7, <3>3, <3>4, Zenon DEF HoldsField
    <3> QED BY <1>3, <1>4, <2>7, <3>2, <3>5, WithField, Zenon
  <2> QED BY <2>2, <2>6, <2>7, Zenon DEF first
<1> QED BY <1>6, <1>7

-----------------------------------------------------------------------------
(* Messages of every type *)

\* What json_to_protobuf makes of any JSON that it does not throw at is a message
\* of the type, every value of which its field has room for, and the JSON says
\* just what is in it: no member or element is lost or added, whole numbers, texts,
\* names and bytes are the JSON's, and of a number with a fraction it is the next
\* integer toward 0 that is taken.  (Of PastEnd nothing is said.)
THEOREM TakenIsSaid ==
  ASSUME Recursion
  PROVE  \A type \in DOMAIN Schema, s \in BOOLEAN, v \in Json :
           Accepts(s, v, type) =>
             HasType(ToMessage(v, type), type) /\ Says(v, ToMessage(v, type), type)
PROOF
<1> DEFINE Good == {type \in DOMAIN Schema : \A s \in BOOLEAN, v \in Json :
                      Accepts(s, v, type) =>
                        /\ HasType(ToMessage(v, type), type)
                        /\ Says(v, ToMessage(v, type), type)}
<1>1. ASSUME NEW type \in DOMAIN Schema,
             \A f \in DOMAIN Schema[type] :
               Schema[type][f].type = "message" => Schema[type][f].of \in Good
      PROVE  type \in Good
  <2>1. ASSUME NEW s \in BOOLEAN, NEW v \in Json, Accepts(s, v, type)
        PROVE  HasType(ToMessage(v, type), type) /\ Says(v, ToMessage(v, type), type)
    <3>1. ASSUME NEW f \in DOMAIN Schema[type], NEW w \in Json,
                 Schema[type][f].type = "message", Accepts(s, w, Schema[type][f].of)
          PROVE  /\ HasType(ToMessage(w, Schema[type][f].of), Schema[type][f].of)
                 /\ Says(w, ToMessage(w, Schema[type][f].of), Schema[type][f].of)
      BY <1>1, <3>1, Zenon
    <3> QED BY <2>1, <3>1, TakenFields, Zenon
  <2> QED BY <2>1, Zenon
<1>2. DOMAIN Schema \subseteq Good
  <2> HIDE DEF Good
  <2> QED BY <1>1, TypeInduction, Zenon
<1> QED BY <1>2, Zenon

\* What protobuf_to_json makes of any message says just what is in it, is accepted
\* by json_to_protobuf and read back as the very same message.
THEOREM ShownIsRead ==
  ASSUME Recursion
  PROVE  \A type \in DOMAIN Schema, s \in BOOLEAN : \A m :
           HasType(m, type) =>
             /\ Says(ToObject(m, type), m, type)
             /\ Accepts(s, ToObject(m, type), type)
             /\ ToMessage(ToObject(m, type), type) = m
PROOF
<1> DEFINE Good == {type \in DOMAIN Schema : \A s \in BOOLEAN : \A m :
                      HasType(m, type) =>
                        /\ Says(ToObject(m, type), m, type)
                        /\ Accepts(s, ToObject(m, type), type)
                        /\ ToMessage(ToObject(m, type), type) = m}
<1>1. ASSUME NEW type \in DOMAIN Schema,
             \A f \in DOMAIN Schema[type] :
               Schema[type][f].type = "message" => Schema[type][f].of \in Good
      PROVE  type \in Good
  <2>1. ASSUME NEW s \in BOOLEAN, NEW m, HasType(m, type)
        PROVE  /\ Says(ToObject(m, type), m, type)
               /\ Accepts(s, ToObject(m, type), type)
               /\ ToMessage(ToObject(m, type), type) = m
    <3>1. \A f \in DOMAIN Schema[type] : \A x :
            Schema[type][f].type = "message" /\ HasType(x, Schema[type][f].of) =>
              /\ Says(ToObject(x, Schema[type][f].of), x, Schema[type][f].of)
              /\ Accepts(s, ToObject(x, Schema[type][f].of), Schema[type][f].of)
              /\ ToMessage(ToObject(x, Schema[type][f].of), Schema[type][f].of) = x
      BY <1>1, Zenon
    <3> HIDE DEF Good
    <3> QED BY <2>1, <3>1, ShownFields, Zenon
  <2> QED BY <2>1, Zenon
<1>2. DOMAIN Schema \subseteq Good
  <2> HIDE DEF Good
  <2> QED BY <1>1, TypeInduction, Zenon
<1> QED BY <1>2, Zenon

\* What ParseFromArray leaves of a message whose bytes end too soon is a message of
\* the type.
THEOREM CutIsMessage ==
  ASSUME Recursion
  PROVE  \A type \in DOMAIN Schema : \A m :
           HasType(m, type) => \A y \in Cuts(m, type) : HasType(y, type)
PROOF
<1> DEFINE Good == {type \in DOMAIN Schema : \A m :
                      HasType(m, type) => \A y \in Cuts(m, type) : HasType(y, type)}
<1>1. ASSUME NEW type \in DOMAIN Schema,
             \A f \in DOMAIN Schema[type] :
               Schema[type][f].type = "message" => Schema[type][f].of \in Good
      PROVE  type \in Good
  <2>1. ASSUME NEW m, HasType(m, type)
        PROVE  \A y \in Cuts(m, type) : HasType(y, type)
    <3>1. ASSUME NEW f \in DOMAIN Schema[type], NEW x,
                 Schema[type][f].type = "message", HasType(x, Schema[type][f].of)
          PROVE  \A y \in Cuts(x, Schema[type][f].of) : HasType(y, Schema[type][f].of)
      BY <1>1, <3>1, Zenon
    <3> QED BY <2>1, <3>1, CutFields, Zenon
  <2> QED BY <2>1, Zenon
<1>2. DOMAIN Schema \subseteq Good
  <2> HIDE DEF Good
  <2> QED BY <1>1, TypeInduction, Zenon
<1> QED BY <1>2, Zenon

-----------------------------------------------------------------------------
(* The conversions of the kernel *)

\* What the JSON says of the message, once there is one.
Converted ==
  stage \in {"protobuf_to_wire", "sent", "printed"} =>
    /\ pbuf.type \in DOMAIN Schema
    /\ HasType(pbuf.fields, pbuf.type)
    /\ Get(json, "type") = Name(pbuf.type)
    /\ Says(Get(json, "message"), pbuf.fields, pbuf.type)

\* What is on the wire of it: all, unless an answer was cut short.
OnTheWire ==
  stage \in {"sent", "printed"} =>
    /\ wire.id \in DOMAIN descriptor_index
    /\ descriptor_index[wire.id] = pbuf.type
    /\ ~wire.cut => wire.data = pbuf.fields

\* The inductive invariant.
IInv ==
  /\ TypeOK
  /\ stage = "json_to_wire" => json \in Json
  /\ stage \in {"json_to_wire", "wire_to_json"} => pbuf = Nothing
  /\ Converted
  /\ OnTheWire

\* An id of the index is of a message of the schema.
LEMMA IndexedTypes ==
  ASSUME NEW id \in DOMAIN descriptor_index
  PROVE  descriptor_index[id] \in DOMAIN Schema
PROOF
  BY CodecAssumption DEF descriptor_index

\* No message has the id that stands for none.
LEMMA NoWireIsNoMessage ==
  NoWire.id \notin DOMAIN descriptor_index
PROOF
  BY CodecAssumption DEF NoWire, descriptor_index

LEMMA InitIInv ==
  Init => IInv
PROOF
<1> SUFFICES ASSUME Init PROVE IInv
  OBVIOUS
<1>1. strict \in BOOLEAN /\ pbuf = Nothing
  BY DEF Init
<1>2. CASE stage = "json_to_wire" /\ json \in Commands /\ wire = NoWire
  BY <1>1, <1>2, CodecAssumption, NoWireIsNoMessage DEF IInv, TypeOK, Converted, OnTheWire
<1>3. CASE stage = "wire_to_json" /\ json = Null /\ wire \in Answers
  BY <1>1, <1>3, AnswersAssumption DEF IInv, TypeOK, Converted, OnTheWire
<1> QED BY <1>2, <1>3 DEF Init

LEMMA NextIInv ==
  ASSUME Recursion, IInv, [Next]_vars
  PROVE  IInv'
PROOF
<1>1. strict \in BOOLEAN
  BY DEF IInv, TypeOK
<1>2. CASE TypedJsonToProtobuf
  <2> DEFINE type == TypeOf(json)
             said == Get(json, "message")
  <2>1. type \in DOMAIN Schema /\ Get(json, "type") = Name(type)
    BY <1>2, Zenon DEF TypedJsonToProtobuf, TypeOf
  <2>2. said \in Json
    BY <1>2, PartsAreJson DEF TypedJsonToProtobuf, IInv
  <2>3. Accepts(strict, said, type)
    BY <1>2, Zenon DEF TypedJsonToProtobuf
  <2> HIDE DEF type, said
  <2>4. HasType(ToMessage(said, type), type) /\ Says(said, ToMessage(said, type), type)
    BY <1>1, <2>1, <2>2, <2>3, TakenIsSaid, Zenon
  <2>5. /\ pbuf'.type = type /\ pbuf'.fields = ToMessage(said, type)
        /\ stage' = "protobuf_to_wire" /\ UNCHANGED <<strict, json, wire>>
    BY <1>2 DEF TypedJsonToProtobuf, type, said
  <2>6. Converted'
    BY <2>1, <2>4, <2>5 DEF Converted, said
  <2> QED BY <2>4, <2>5, <2>6 DEF IInv, TypeOK, OnTheWire
<1>3. CASE TypedJsonThrows
  BY <1>3 DEF TypedJsonThrows, IInv, TypeOK, Converted, OnTheWire
<1>4. CASE ProtobufToWire
  <2>1. PICK id \in DOMAIN descriptor_index :
          /\ descriptor_index[id] = pbuf.type
          /\ wire' = [id |-> id, data |-> pbuf.fields, cut |-> FALSE]
    BY <1>4 DEF ProtobufToWire
  <2>2. wire'.id = id /\ wire'.data = pbuf.fields
    BY <2>1
  <2>3. stage = "protobuf_to_wire" /\ stage' = "sent" /\ UNCHANGED <<strict, json, pbuf>>
    BY <1>4 DEF ProtobufToWire
  <2>4. Converted'
    BY <2>3 DEF IInv, Converted
  <2>5. OnTheWire'
    BY <2>1, <2>2, <2>3 DEF OnTheWire
  <2>6. TypeOK'
    BY <2>1, <2>2, <2>3 DEF IInv, TypeOK, Converted
  <2> QED BY <2>3, <2>4, <2>5, <2>6 DEF IInv
<1>5. CASE NoWireId
  BY <1>5 DEF NoWireId, IInv, TypeOK, Converted, OnTheWire
<1>6. CASE WireToJson
  <2> DEFINE type == descriptor_index[wire.id]
  <2>1. PICK m \in Parsed(wire) : pbuf' = [type |-> type, fields |-> m]
    BY <1>6 DEF WireToJson
  <2>2. /\ wire.id \in DOMAIN descriptor_index
        /\ stage' = "printed" /\ UNCHANGED <<strict, wire>>
        /\ json' = Object([f \in {"type", "message"} |->
                      IF f = "type" THEN Name(pbuf'.type)
                      ELSE ToObject(pbuf'.fields, pbuf'.type)])
    BY <1>6 DEF WireToJson
  <2>3. type \in DOMAIN Schema
    BY <2>2, IndexedTypes
  <2>4. HasType(wire.data, type)
    BY <2>2 DEF IInv, TypeOK
  <2>5. /\ m \in Parsed(wire)
        /\ Parsed(wire) = IF wire.cut THEN Cuts(wire.data, type) ELSE {wire.data}
    BY DEF Parsed
  <2>6. pbuf'.type = type /\ pbuf'.fields = m
    BY <2>1
  <2> HIDE DEF type
  <2>7. HasType(m, type)
    <3>1. CASE wire.cut
      BY <2>3, <2>4, <2>5, <3>1, CutIsMessage, Zenon
    <3>2. CASE ~wire.cut
      BY <2>4, <2>5, <3>2
    <3> QED BY <3>1, <3>2
  <2>8. Says(ToObject(m, type), m, type)
    BY <1>1, <2>3, <2>7, ShownIsRead, Zenon
  <2>9. Get(json', "type") = Name(type) /\ Get(json', "message") = ToObject(m, type)
    BY <2>2, <2>6 DEF Get, Members, Object
  <2>10. Converted'
    BY <2>3, <2>6, <2>7, <2>8, <2>9 DEF Converted
  <2>11. OnTheWire'
    BY <2>2, <2>5, <2>6 DEF OnTheWire, type
  <2>12. TypeOK'
    BY <1>1, <2>2, <2>4, <2>6, <2>7 DEF TypeOK, type
  <2> QED BY <2>2, <2>10, <2>11, <2>12 DEF IInv
<1>7. CASE UnknownId
  BY <1>7 DEF UnknownId, IInv, TypeOK, Converted, OnTheWire
<1>8. CASE UNCHANGED vars
  BY <1>8 DEF vars, IInv, TypeOK, Converted, OnTheWire
<1>9. CASE Finished
  BY <1>8, <1>9 DEF Finished
<1> QED BY <1>2, <1>3, <1>4, <1>5, <1>6, <1>7, <1>8, <1>9 DEF Next

\* The inductive invariant implies the properties the run checks.
LEMMA IInvImplies ==
  ASSUME Recursion, IInv
  PROVE  TypeOK /\ NothingLost /\ PrintedIsReadable
PROOF
<1>1. NothingLost
  BY Zenon DEF IInv, Converted, OnTheWire, NothingLost
<1>2. PrintedIsReadable
  <2>1. SUFFICES ASSUME stage \in {"sent", "printed"}
        PROVE  LET shown == ToObject(pbuf.fields, pbuf.type)
               IN  /\ Accepts(strict, shown, pbuf.type)
                   /\ ToMessage(shown, pbuf.type) = pbuf.fields
    BY Zenon DEF PrintedIsReadable
  <2>2. strict \in BOOLEAN
    BY DEF IInv, TypeOK
  <2>3. pbuf.type \in DOMAIN Schema /\ HasType(pbuf.fields, pbuf.type)
    BY <2>1 DEF IInv, Converted
  <2> QED BY <2>2, <2>3, ShownIsRead, Zenon
<1> QED BY <1>1, <1>2 DEF IInv

\* The inductive invariant holds in every state.
LEMMA Inductive ==
  ASSUME Recursion
  PROVE  Spec => []IInv
PROOF
<1>1. Init => IInv
  BY InitIInv
<1>2. IInv /\ [Next]_vars => IInv'
  BY NextIInv, Zenon
<1> QED BY <1>1, <1>2, PTL DEF Spec

\* Type correctness (json_to_value, ParseFromArray): no message holds a value that
\* its field has no room for.
THEOREM TypeCorrect ==
  ASSUME Recursion
  PROVE  Spec => []TypeOK
PROOF
<1>1. IInv => TypeOK
  BY DEF IInv
<1> QED BY <1>1, Inductive, PTL

\* A conversion of a whole message, either way, adds nothing, and loses nothing but
\* the fraction of a number; PastEnd excepted (kernel::json_to_wire, wire_to_json).
THEOREM ConversionLosesNothing ==
  ASSUME Recursion
  PROVE  Spec => []NothingLost
PROOF
<1>1. IInv => NothingLost
  BY IInvImplies, Zenon
<1> QED BY <1>1, Inductive, PTL

\* What is printed of any answer, even one cut short, is accepted as a command and
\* sends the very same message (wire_to_json, then json_to_wire).
THEOREM PrintedIsCommand ==
  ASSUME Recursion
  PROVE  Spec => []PrintedIsReadable
PROOF
<1>1. IInv => PrintedIsReadable
  BY IInvImplies, Zenon
<1> QED BY <1>1, Inductive, PTL
=============================================================================
