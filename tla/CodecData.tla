----------------------------- MODULE CodecData -----------------------------
(***************************************************************************)
(* json_codec (json_codec.hpp): how JSON is made a protobuf message, and   *)
(* a message JSON.                                                         *)
(*                                                                         *)
(* A protobuf message is a function from the fields it holds -- every      *)
(* repeated one and the others that are set -- to their values; its bytes  *)
(* on the wire are libprotobuf's, and stand for just this function.        *)
(*                                                                         *)
(* A conversion calls itself for a message within a message.  What one     *)
(* call does is a definition here (AcceptsObject, MessageOf and so on);    *)
(* what a call within it returns is a constant (Accepts, ToMessage and so  *)
(* on).  Codec, where both are in sight, says that they are the same.      *)
(***************************************************************************)
EXTENDS JsonData

CONSTANTS
  Schema,    (* For each message type, its fields: number, type, of (the   *)
             (* type's parameter) and repeated.                            *)
  Half32,    (* 2^31: how many numbers of a signed 32 bit type are         *)
             (* negative, and of any 32 bit type half of all.              *)
  Half64,    (* The same of the 64 bit types, 2^63.                        *)
  PastMax,   (* What the build's cast of the double just past the greatest *)
             (* 64 bit integer gives, for either 64 bit type.              *)
  Tokens     (* What texts are made of.                                    *)

CONSTANTS    (* The conversion of a message within a message.              *)
  Accepts(_, _, _), ToMessage(_, _), ToObject(_, _), Cuts(_, _),
  HasType(_, _), Says(_, _, _)

-----------------------------------------------------------------------------
(* json_codec *)

Integers32 == {"int32", "uint32"}
Integers64 == {"int64", "uint64"}
Integral   == Integers32 \union Integers64

Half(type) == IF type \in Integers32 THEN Half32 ELSE Half64

Least(type)    == IF type \in {"int32", "int64"} THEN -Half(type) ELSE 0
Greatest(type) == IF type \in {"int32", "int64"} THEN Half(type) - 1 ELSE 2 * Half(type) - 1

InRange(type, n) == Least(type) <= n /\ n <= Greatest(type)

\* jsoncpp compares a real with the bounds as doubles, and of those the greatest
\* 64 bit integer is none: it is rounded up by one.
LastReal(type) == IF type \in Integers64 THEN Greatest(type) + 1 ELSE Greatest(type)

RealInRange(type, v) ==
  /\ Least(type) <= v.floor
  /\ v.floor < LastReal(type) \/ (v.whole /\ v.floor = LastReal(type))

\* The real that is in range for jsoncpp, and that the type has no room for.
PastEnd(type, v) ==
  type \in Integers64 /\ v.kind = "real" /\ v.floor > Greatest(type)

\* asInt, asUInt, asInt64 and asUInt64
AsNumber(type, v) ==
  CASE v.kind = "number" -> v.n
    [] v.kind = "real"   -> IF PastEnd(type, v) THEN PastMax[type] ELSE Truncated(v)
    [] v.kind = "bool"   -> IF v.b THEN 1 ELSE 0
    [] OTHER             -> 0

\* Mutant: integers are taken as they come.
AcceptsNumberUnranged(type, v) == IsNumber(v)

AcceptsNumber(type, v) ==
  /\ IsNumber(v)
  /\ IF v.kind = "real" THEN RealInRange(type, v) ELSE InRange(type, AsNumber(type, v))

\* parse_single_field and parse_repeated_field_item do not throw.
AcceptsValue(s, fd, v) ==
  CASE fd.type \in Integral            -> AcceptsNumber(fd.type, v)
    [] fd.type = "bool"                -> IsBool(s, v)
    [] fd.type = "string"              -> IsText(s, v)
    [] fd.type = "bytes"               -> IsText(s, v) /\ IsHex(AsText(v))
    [] fd.type = "enum"                -> IsText(s, v) /\ AsText(v) \in fd.of
    [] fd.type = "message"             -> Accepts(s, v, fd.of)
    [] OTHER                           -> FALSE

\* json_to_protobuf does not throw: members that are no field are ignored.
AcceptsObject(s, v, type) ==
  /\ IsObject(s, v)
  /\ \A f \in DOMAIN Schema[type] \intersect DOMAIN Members(v) :
       LET fd == Schema[type][f]
           member == Members(v)[f]
       IN  IF fd.repeated
             THEN /\ IsArray(s, member)
                  /\ \A i \in 1 .. Len(Items(member)) :
                       AcceptsValue(s, fd, Items(member)[i])
             ELSE AcceptsValue(s, fd, member)

\* Mutant: the 64 bit fields are set with asInt too.
ToValueNarrow(fd, v) ==
  CASE fd.type \in Integral  -> AsNumber(fd.type, v) % Half32
    [] fd.type = "bool"      -> AsBool(v)
    [] fd.type = "bytes"     -> HexDecode(AsText(v))
    [] fd.type = "message"   -> ToMessage(v, fd.of)
    [] OTHER                 -> AsText(v)

\* What parse_single_field sets and parse_repeated_field_item adds.
ToValue(fd, v) ==
  CASE fd.type \in Integral  -> AsNumber(fd.type, v)
    [] fd.type = "bool"      -> AsBool(v)
    [] fd.type = "bytes"     -> HexDecode(AsText(v))
    [] fd.type = "message"   -> ToMessage(v, fd.of)
    [] OTHER                 -> AsText(v)

\* json_to_protobuf
MessageOf(v, type) ==
  LET repeated == {f \in DOMAIN Schema[type] : Schema[type][f].repeated}
      given    == DOMAIN Schema[type] \intersect DOMAIN Members(v)
  IN  [f \in repeated \union given |->
         LET fd == Schema[type][f]
         IN  IF f \notin given THEN <<>>
             ELSE IF ~fd.repeated THEN ToValue(fd, Members(v)[f])
             ELSE [i \in 1 .. Len(Items(Members(v)[f])) |->
                     ToValue(fd, Items(Members(v)[f])[i])]]

\* serialize_single_field and serialize_repeated_field_item
ToJson(fd, x) ==
  CASE fd.type \in Integral  -> Number(x)
    [] fd.type = "bool"      -> Bool(x)
    [] fd.type = "bytes"     -> Text(HexEncode(x))
    [] fd.type = "message"   -> ToObject(x, fd.of)
    [] OTHER                 -> Text(x)

\* protobuf_to_json: an empty repeated field is removed again.
ObjectOf(m, type) ==
  LET fields == Schema[type]
      shown  == {f \in DOMAIN m : fields[f].repeated => m[f] # <<>>}
  IN  Object([f \in shown |->
        IF fields[f].repeated
          THEN Array([i \in 1 .. Len(m[f]) |-> ToJson(fields[f], m[f][i])])
          ELSE ToJson(fields[f], m[f])])

-----------------------------------------------------------------------------
(* libprotobuf *)

With(m, f, x) == [g \in DOMAIN m \union {f} |-> IF g = f THEN x ELSE m[g]]

\* The fields of m below number n.
Below(m, type, n) ==
  [f \in {g \in DOMAIN m : Schema[type][g].number < n \/ Schema[type][g].repeated} |->
     IF Schema[type][f].number < n THEN m[f] ELSE <<>>]

\* What ParseFromArray leaves in the message when the bytes of m end too soon,
\* in field c or just before it.
CutsOf(m, type) ==
  UNION {LET fd     == Schema[type][c]
             before == Below(m, type, fd.number)
             parts(x) == IF fd.type = "message" THEN Cuts(x, fd.of) ELSE {}
         IN  IF fd.repeated
               THEN {With(before, c, SubSeq(m[c], 1, k - 1)) : k \in 1 .. Len(m[c])}
                      \union UNION {{With(before, c, Append(SubSeq(m[c], 1, k - 1), x)) :
                                      x \in parts(m[c][k])} : k \in 1 .. Len(m[c])}
               ELSE {before} \union {With(before, c, x) : x \in parts(m[c])} :
         c \in DOMAIN m}

\* A value that libprotobuf could hold in the field.
HasValue(fd, x) ==
  CASE fd.type \in Integral  -> InRange(fd.type, x)
    [] fd.type = "bool"      -> x \in BOOLEAN
    [] fd.type = "bytes"     -> x \in Seq(0 .. 255)
    [] fd.type = "enum"      -> x \in fd.of
    [] fd.type = "message"   -> HasType(x, fd.of)
    [] fd.type = "string"    -> x \in Seq(Tokens)
    [] OTHER                 -> FALSE

HasFields(m, type) ==
  /\ m = [f \in DOMAIN m |-> m[f]]
  /\ DOMAIN m \subseteq DOMAIN Schema[type]
  /\ \A f \in DOMAIN Schema[type] :
       LET fd == Schema[type][f]
       IN  IF fd.repeated
             THEN /\ f \in DOMAIN m /\ IsList(m[f])
                  /\ \A i \in 1 .. Len(m[f]) : HasValue(fd, m[f][i])
             ELSE f \in DOMAIN m => HasValue(fd, m[f])

-----------------------------------------------------------------------------
(* What JSON says of a message *)

\* The JSON value v says the number x: a whole number says itself, true is 1, and
\* false and null are 0.  Of a number with a fraction, x is less than one away from
\* it and no farther from 0.
SaysNumber(v, x) ==
  \/ v.kind = "number" /\ x = v.n
  \/ v.kind = "real" /\ v.whole /\ x = v.floor
  \/ /\ v.kind = "real" /\ ~v.whole /\ x \in {v.floor, v.floor + 1}
     /\ IF v.floor >= 0 THEN x <= v.floor ELSE x > v.floor
  \/ v.kind = "bool" /\ x = (IF v.b THEN 1 ELSE 0)
  \/ v.kind = "null" /\ x = 0

\* The JSON value v says no: it is false, zero or empty.
SaysNo(v) ==
  \/ v.kind = "null"
  \/ v.kind = "bool" /\ ~v.b
  \/ v.kind = "number" /\ v.n = 0
  \/ v.kind = "real" /\ v.whole /\ v.floor = 0
  \/ v.kind = "string" /\ v.s = <<>>
  \/ v.kind \in {"array", "object"} /\ Items(v) = <<>> /\ DOMAIN Members(v) = {}

\* What v, a text or a value that is no text, reads as.
Written(v) == IF v.kind = "string" THEN v.s ELSE Literal(v)

\* The JSON value v says the value x of the field: the same number (but for what
\* SaysNumber allows), truth value, text or name, or the bytes whose digits, in
\* either case, v writes.  The build alone says what becomes of PastEnd.
Means(fd, v, x) ==
  CASE fd.type \in Integral -> SaysNumber(v, x) \/ PastEnd(fd.type, v)
    [] fd.type = "bool"     -> x = ~SaysNo(v)
    [] fd.type = "bytes"    ->
         /\ Len(Written(v)) = 2 * Len(x)
         /\ \A i \in 1 .. Len(x) : /\ IsDigit(Written(v)[2 * i - 1], x[i] \div 16)
                                   /\ IsDigit(Written(v)[2 * i], x[i] % 16)
    [] fd.type = "message"  -> Says(v, x, fd.of)
    [] OTHER                -> x = Written(v)

SaysMembers(v, m, type) ==
  \A f \in DOMAIN Schema[type] :
    LET fd == Schema[type][f]
    IN  IF fd.repeated
          THEN LET items == Items(Get(v, f))
               IN  /\ Len(items) = Len(m[f])
                   /\ \A i \in 1 .. Len(items) : Means(fd, items[i], m[f][i])
          ELSE /\ f \in DOMAIN m <=> f \in DOMAIN Members(v)
               /\ f \in DOMAIN m => Means(fd, Members(v)[f], m[f])
=============================================================================
