------------------------------ MODULE JsonData ------------------------------
(***************************************************************************)
(* JSON values, as json_codec gets them from jsoncpp and hands them to it. *)
(*                                                                         *)
(* A JSON value is a record that says its kind.  A text is a sequence of   *)
(* tokens: a hex digit is a token, and so is a name.                       *)
(*                                                                         *)
(* Conversions of a JSON value (asInt and the like) are jsoncpp's: null    *)
(* and bool are numbers and texts, and what cannot be converted, or is out *)
(* of range, throws.  The releases the tool builds with differ in whether  *)
(* null counts as an empty object or array, whether a number converts to a *)
(* text, and whether what is no number converts to a bool; `s' (strict)    *)
(* tells them apart.                                                       *)
(*                                                                         *)
(* A number written with a fraction or an exponent, or too long for an     *)
(* integer, is a real.  Of a real the model keeps the greatest integer not *)
(* above it (floor) and whether it is that integer (whole); which digits a *)
(* fraction has does not matter.                                           *)
(***************************************************************************)
EXTENDS Hex

Null       == [kind |-> "null"]
Bool(b)    == [kind |-> "bool", b |-> b]
Number(n)  == [kind |-> "number", n |-> n]
Real(floor, whole) == [kind |-> "real", floor |-> floor, whole |-> whole]
Text(s)    == [kind |-> "string", s |-> s]
Array(q)   == [kind |-> "array", items |-> q]
Object(f)  == [kind |-> "object", members |-> f]

IsList(q) == q \in Seq({q[i] : i \in 1 .. Len(q)})

\* The values that v is made of.
Parts(v) ==
  CASE v.kind = "array"  -> {v.items[i] : i \in 1 .. Len(v.items)}
    [] v.kind = "object" -> {v.members[f] : f \in DOMAIN v.members}
    [] OTHER             -> {}

NoMembers == [f \in {} |-> Null]
Members(v) == IF v.kind = "object" THEN v.members ELSE NoMembers
Items(v)   == IF v.kind = "array" THEN v.items ELSE <<>>
Get(v, f) == IF f \in DOMAIN Members(v) THEN Members(v)[f] ELSE Null

IsNumber(v)    == v.kind \in {"null", "bool", "number", "real"}
IsBool(s, v)   == IsNumber(v) \/ ~s
IsText(s, v)   == v.kind \in {"null", "bool", "string"} \/ (s /\ IsNumber(v))
IsObject(s, v) == v.kind = "object" \/ (~s /\ v.kind = "null")
IsArray(s, v)  == v.kind = "array" \/ (~s /\ v.kind = "null")

\* A real without its fraction: the cast of a double to an integer.
Truncated(v) == IF v.whole \/ 0 <= v.floor THEN v.floor ELSE v.floor + 1

Numeral[n \in Nat] ==
  IF n < 10 THEN <<Lower[n + 1]>> ELSE Append(Numeral[n \div 10], Lower[(n % 10) + 1])

Signed(negative, n) == (IF negative THEN <<"-">> ELSE <<>>) \o Numeral[n]
Magnitude(n) == IF n < 0 THEN -n ELSE n

\* How a value that is no text is written.  All digits after the point are one token.
Literal(v) ==
  CASE v.kind = "number" -> Signed(v.n < 0, Magnitude(v.n))
    [] v.kind = "real"   -> Append(Signed(v.floor < 0, Magnitude(Truncated(v))),
                                   IF v.whole THEN ".0" ELSE ".5")
    [] v.kind = "bool"   -> IF v.b THEN <<"true">> ELSE <<"false">>
    [] OTHER             -> <<>>

AsText(v) == IF v.kind = "string" THEN v.s ELSE Literal(v)

AsBool(v) == CASE v.kind = "bool"   -> v.b
               [] v.kind = "number" -> v.n # 0
               [] v.kind = "real"   -> v.floor # 0 \/ ~v.whole
               [] v.kind = "string" -> v.s # <<>>
               [] OTHER             -> Items(v) # <<>> \/ DOMAIN Members(v) # {}
=============================================================================
