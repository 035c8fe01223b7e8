------------------------------- MODULE Codec -------------------------------
(***************************************************************************)
(* json_codec and wire_proto (json_codec.hpp, wire_proto.hpp), between the *)
(* JSON of a command and wire::message: kernel::json_to_wire and           *)
(* kernel::wire_to_json.                                                   *)
(***************************************************************************)
EXTENDS JsonData

CONSTANTS
  Schema, Half32, Half64, PastMax, Tokens,
               (* As in CodecData.                                         *)
  MessageType, (* The enumeration of the wire ids, by message type.        *)
  Json,        (* JSON values: what the commands are made of.              *)
  Commands,    (* JSON the commands may hand to json_to_wire.              *)
  Answers      (* Wire messages of the wallet.                             *)

CONSTANTS    (* The functions of json_codec, that call themselves.         *)
  Accepts(_, _, _), ToMessage(_, _), ToObject(_, _), Cuts(_, _),
  HasType(_, _), Says(_, _, _)

ASSUME WidthAssumption ==
  Half32 \in Nat \ {0} /\ Half64 \in Nat \ {0} /\ Half32 <= Half64

\* What the fields of a message type hold is in the schema; and no message is
\* within itself: of any types, some type has no field of one of them
\* (messages.proto).
ASSUME SchemaAssumption ==
  /\ \A type \in DOMAIN Schema : \A f \in DOMAIN Schema[type] :
       Schema[type][f].type = "message" => Schema[type][f].of \in DOMAIN Schema
  /\ \A types \in SUBSET DOMAIN Schema : types # {} =>
       \E type \in types : \A f \in DOMAIN Schema[type] :
         Schema[type][f].type = "message" => Schema[type][f].of \notin types

ASSUME JsonAssumption ==
  /\ {Lower[i] : i \in 1 .. 16} \union {"-", ".0", ".5", "true", "false"} \subseteq Tokens
  /\ Null \in Json
  /\ UNION {Parts(v) : v \in Json} \subseteq Json
  /\ \A v \in Json :
       /\ v.kind \in {"null", "bool", "number", "real", "string", "array", "object"}
       /\ v.kind = "bool" => v.b \in BOOLEAN
       /\ v.kind = "number" => v.n \in Int
       /\ v.kind = "real" => v.floor \in Int /\ v.whole \in BOOLEAN
       /\ v.kind = "string" => v.s \in Seq(Tokens)
       /\ v.kind = "array" => IsList(v.items)

ASSUME CodecAssumption ==
  /\ DOMAIN MessageType \subseteq DOMAIN Schema
  /\ \A m \in DOMAIN MessageType : MessageType[m] \in Nat
  /\ \A m, n \in DOMAIN MessageType : MessageType[m] = MessageType[n] => m = n
  /\ Commands \subseteq Json

VARIABLES
  strict, (* null is no object, and numbers are texts (jsoncpp 1).         *)
  stage,  (* Where the conversion is.                                      *)
  json,   (* The JSON converted from or to.                                *)
  pbuf,   (* The protobuf message, with its type.                          *)
  wire    (* The wire message.                                             *)

vars == <<strict, stage, json, pbuf, wire>>

-----------------------------------------------------------------------------
(* The functions that call themselves *)

INSTANCE CodecData

\* Whatever a cast gives is of the type it is to.
ASSUME CastAssumption == \A type \in Integers64 : InRange(type, PastMax[type])

\* What each returns is what one call of it does, with its own calls in it.
Recursion ==
  \A type \in DOMAIN Schema :
    /\ \A s, v : Accepts(s, v, type) <=> AcceptsObject(s, v, type)
    /\ \A v : ToMessage(v, type) = MessageOf(v, type)
    /\ \A m : ToObject(m, type) = ObjectOf(m, type)
    /\ \A m : Cuts(m, type) = CutsOf(m, type)
    /\ \A m : HasType(m, type) <=> HasFields(m, type)
    /\ \A v, m : Says(v, m, type) <=> SaysMembers(v, m, type)

-----------------------------------------------------------------------------
(* wire_proto *)

\* load_protobuf_state
descriptor_index ==
  [id \in {MessageType[n] : n \in DOMAIN MessageType} |->
     CHOOSE n \in DOMAIN MessageType : MessageType[n] = id]

ASSUME AnswersAssumption ==
  \A w \in Answers :
    w.id \in DOMAIN descriptor_index => HasType(w.data, descriptor_index[w.id])

\* wire_to_protobuf takes what was parsed, and does not ask whether all was.
Parsed(w) ==
  LET type == descriptor_index[w.id]
  IN  IF w.cut THEN Cuts(w.data, type) ELSE {w.data}

-----------------------------------------------------------------------------
(* The two conversions of the kernel *)

Name(type) == Text(<<type>>)

TypeOf(v) == CHOOSE type \in DOMAIN Schema : Get(v, "type") = Name(type)

Nothing == [type |-> "none", fields |-> NoMembers]
NoWire  == [id |-> -1, data |-> NoMembers, cut |-> FALSE]

\* A conversion begins, of a command's JSON or of an answer of the wallet.
Init ==
  /\ strict \in BOOLEAN
  /\ pbuf = Nothing
  /\ \/ stage = "json_to_wire" /\ json \in Commands /\ wire = NoWire
     \/ stage = "wire_to_json" /\ json = Null /\ wire \in Answers

\* typed_json_to_protobuf
TypedJsonToProtobuf ==
  /\ stage = "json_to_wire"
  /\ \E type \in DOMAIN Schema : Get(json, "type") = Name(type)
  /\ Accepts(strict, Get(json, "message"), TypeOf(json))
  /\ pbuf' = [type |-> TypeOf(json), fields |-> ToMessage(Get(json, "message"), TypeOf(json))]
  /\ stage' = "protobuf_to_wire"
  /\ UNCHANGED <<strict, json, wire>>

\* No text, no such message, or a field that cannot be converted.
TypedJsonThrows ==
  /\ stage = "json_to_wire"
  /\ (\E type \in DOMAIN Schema : Get(json, "type") = Name(type))
       => ~Accepts(strict, Get(json, "message"), TypeOf(json))
  /\ stage' = "failed"
  /\ UNCHANGED <<strict, json, pbuf, wire>>

\* protobuf_to_wire
ProtobufToWire ==
  /\ stage = "protobuf_to_wire"
  /\ \E id \in DOMAIN descriptor_index :
       /\ descriptor_index[id] = pbuf.type
       /\ wire' = [id |-> id, data |-> pbuf.fields, cut |-> FALSE]
  /\ stage' = "sent"
  /\ UNCHANGED <<strict, json, pbuf>>

\* find_wire_id: a message type that is only ever part of another one.
NoWireId ==
  /\ stage = "protobuf_to_wire"
  /\ \A id \in DOMAIN descriptor_index : descriptor_index[id] # pbuf.type
  /\ stage' = "failed"
  /\ UNCHANGED <<strict, json, pbuf, wire>>

\* wire_to_protobuf, protobuf_to_typed_json
WireToJson ==
  /\ stage = "wire_to_json"
  /\ wire.id \in DOMAIN descriptor_index
  /\ \E m \in Parsed(wire) :
       pbuf' = [type |-> descriptor_index[wire.id], fields |-> m]
  /\ json' = Object([f \in {"type", "message"} |->
       IF f = "type" THEN Name(pbuf'.type) ELSE ToObject(pbuf'.fields, pbuf'.type)])
  /\ stage' = "printed"
  /\ UNCHANGED <<strict, wire>>

\* descriptor_index.at(wire.id)
UnknownId ==
  /\ stage = "wire_to_json"
  /\ wire.id \notin DOMAIN descriptor_index
  /\ stage' = "failed"
  /\ UNCHANGED <<strict, json, pbuf, wire>>

Finished == stage \in {"sent", "printed", "failed"} /\ UNCHANGED vars

Next == TypedJsonToProtobuf \/ TypedJsonThrows \/ ProtobufToWire \/ NoWireId
          \/ WireToJson \/ UnknownId \/ Finished

Spec == Init /\ [][Next]_vars

-----------------------------------------------------------------------------
(* Properties *)

\* Type invariant: no message holds a value its fields have no room for.
TypeOK ==
  /\ strict \in BOOLEAN
  /\ stage \in {"json_to_wire", "protobuf_to_wire", "wire_to_json", "sent", "printed",
               "failed"}
  /\ pbuf # Nothing => HasType(pbuf.fields, pbuf.type)
  /\ wire.id \in DOMAIN descriptor_index => HasType(wire.data, descriptor_index[wire.id])

\* A finished conversion of a whole message, in either direction, has dropped no
\* byte, element or member, added none, and set no field the JSON does not name; and
\* every number is the one the JSON holds: none is cut to a width, and only one with
\* a fraction, which asInt and the others take, is changed, to the integer before it
\* on the way to 0 (json_to_wire, wire_to_json).  Nothing is said of a real that is
\* just past the 64 bit type, where jsoncpp's range check and cast fail.
NothingLost ==
  stage \in {"sent", "printed"} /\ ~wire.cut =>
    /\ Get(json, "type") = Name(descriptor_index[wire.id])
    /\ Says(Get(json, "message"), wire.data, descriptor_index[wire.id])

\* The JSON printed for any answer, even one cut short, is accepted as a command,
\* and sends the very same message (wire_to_json, then json_to_wire).
PrintedIsReadable ==
  stage \in {"sent", "printed"} =>
    LET shown == ToObject(pbuf.fields, pbuf.type)
    IN  Accepts(strict, shown, pbuf.type) /\ ToMessage(shown, pbuf.type) = pbuf.fields
=============================================================================
