------------------------------ MODULE MCCodec ------------------------------
(***************************************************************************)
(* A small schema with a field of every type the protocol uses: single,    *)
(* repeated and nested; integers of 3 and 4 bits.                          *)
(***************************************************************************)
EXTENDS Codec

FieldOf(n, type, of, label) ==
  [number |-> n, type |-> type, of |-> of, repeated |-> label = "repeated"]
Field(n, type)          == FieldOf(n, type, "none", "optional")
Repeated(n, type)       == FieldOf(n, type, "none", "repeated")
Part(n, type, label)    == FieldOf(n, "message", type, label)
Choice(n, names, label) == FieldOf(n, "enum", names, label)

Names == {<<"PAYTOADDRESS">>, <<"PAYTOMULTISIG">>}

MCTokens == {Lower[i] : i \in 1 .. 16}
              \union {"-", ".0", ".5", "true", "false", "PAYTOADDRESS", "PAYTOMULTISIG", "alice", "1Bv",
                      "F", "g", "TxAck", "TxInput", "NoMessage"}

MCSchema ==
  [TxAck   |-> [lock_time |-> Field(1, "uint32"), amount |-> Field(2, "uint64"),
                delta |-> Field(3, "int32"), balance |-> Field(4, "int64"),
                label |-> Field(5, "string"), script |-> Field(6, "bytes"),
                show |-> Field(7, "bool"), script_type |-> Choice(8, Names, "optional"),
                input |-> Part(9, "TxInput", "optional"), group |-> Field(10, "group"),
                address_n |-> Repeated(11, "uint32"), signatures |-> Repeated(12, "bytes"),
                script_types |-> Choice(13, Names, "repeated"),
                inputs |-> Part(14, "TxInput", "repeated")],
   TxInput |-> [address_n |-> Repeated(1, "uint32"), prev_hash |-> Field(2, "bytes"),
                prev_index |-> Field(3, "uint32"), sequence |-> Field(5, "uint32")],
   Address |-> [address |-> Field(1, "string")]]

-----------------------------------------------------------------------------
(* The functions that call themselves: no message is within one that is    *)
(* within another, so that two calls are enough.                           *)

NoCall(x, type)     == {}
NoTest(x, y, type)  == FALSE
Inner == INSTANCE CodecData WITH
           Accepts <- NoTest, ToMessage <- NoCall, ToObject <- NoCall,
           Cuts <- NoCall, HasType <- NoCall, Says <- NoTest
Outer == INSTANCE CodecData WITH
           Accepts <- Inner!AcceptsObject, ToMessage <- Inner!MessageOf,
           ToObject <- Inner!ObjectOf, Cuts <- Inner!CutsOf,
           HasType <- Inner!HasFields, Says <- Inner!SaysMembers

MCAccepts(s, v, type) == Outer!AcceptsObject(s, v, type)
MCToMessage(v, type)  == Outer!MessageOf(v, type)
MCToObject(m, type)   == Outer!ObjectOf(m, type)
MCCuts(m, type)       == Outer!CutsOf(m, type)
MCHasType(m, type)    == Outer!HasFields(m, type)
MCSays(v, m, type)    == Outer!SaysMembers(v, m, type)

-----------------------------------------------------------------------------
\* As an x86-64 casts a double that is out of range.
MCPastMax == [int64 |-> -8, uint64 |-> 0]

MCMessageType == [TxAck |-> 22, Address |-> 30]

-----------------------------------------------------------------------------
(* Commands: any one member with any value, and some that are whole *)

Plain == {Null, Bool(TRUE), Bool(FALSE), Text(<<>>), Text(<<"PAYTOADDRESS">>), Text(<<"alice">>),
          Text(<<"0", "a">>), Text(<<"F", "f", "1", "0">>), Text(<<"a">>), Text(<<"0", "g">>)}
           \union {Number(n) : n \in {-9, -8, -5, -4, -1, 0, 3, 4, 7, 8, 15, 16}}
           \union {Real(n, TRUE) : n \in {-8, 0, 3, 8, 9, 16, 17}}
           \union {Real(n, FALSE) : n \in {-9, -5, -1, 0, 3, 7, 15}}

Member(f, v) == Object([g \in {f} |-> v])
Two(f, v, g, w) == Object([h \in {f, g} |-> IF h = f THEN v ELSE w])

InputObjects == {Object(NoMembers)}
  \union {Member(f, v) : f \in {"prev_index", "prev_hash", "n"}, v \in Plain}
  \union {Member("address_n", Array(<<v>>)) : v \in Plain}

Lists == {Array(<<>>)} \union {Array(<<v>>) : v \in Plain}
           \union {Array(<<v, w>>) : v \in {Number(7), Text(<<"0", "a">>)}, w \in Plain}

Values == Plain \union InputObjects \union Lists
            \union {Array(<<v, Object(NoMembers)>>) : v \in InputObjects}

Typed(type, v) == Two("type", type, "message", v)

\* What is converted to a TxAck.
TxAcks == {Member(f, v) : f \in DOMAIN MCSchema.TxAck \union {"has_tx"}, v \in Values}
            \union {Two("amount", v, "script", w) : v, w \in Plain}

TypeNames == {Name(t) : t \in {"TxAck", "TxInput", "NoMessage"}}

MCCommands ==
  {Typed(Name("TxAck"), v) : v \in TxAcks}
    \union {Typed(t, v) : t \in {Name("TxInput"), Name("NoMessage"), Null}, v \in InputObjects}
    \union {Member("type", Name("TxAck")), Object(NoMembers), Null}

MCJson == MCCommands \union TypeNames \union TxAcks \union Values

-----------------------------------------------------------------------------
(* Answers: every message of a few values in each field *)

Inputs(bytes) ==
  {[address_n |-> q, prev_hash |-> <<>>, prev_index |-> 0] : q \in {<<>>, <<7, 0>>}}
    \union {[address_n |-> <<1>>, prev_hash |-> h, prev_index |-> 5, sequence |-> 7] : h \in bytes}

Hashes == {<<>>, <<0>>, <<10, 255>>}

WithRepeated(a, s, t, i) ==
  [address_n |-> a, signatures |-> s, script_types |-> t, inputs |-> i]

Bare == {WithRepeated(a, s, t, i) :
           a \in {<<>>, <<0>>, <<7, 3>>}, s \in {<<>>, <<<<>>, <<171>>>>},
           t \in {<<>>, <<<<"PAYTOMULTISIG">>>>},
           i \in {<<>>} \union {<<x>> : x \in Inputs(Hashes)}}

Extended ==
  UNION {{With(m, "script", h) : m \in Bare, h \in Hashes},
         {With(m, "amount", n) : m \in Bare, n \in {0, 15}},
         {With(m, "balance", n) : m \in Bare, n \in {-8, 7}},
         {With(m, "show", b) : m \in Bare, b \in BOOLEAN},
         {With(m, "script_type", n) : m \in Bare, n \in Names},
         {With(m, "label", s) : m \in Bare, s \in {<<>>, <<"alice">>}},
         {With(m, "input", x) : m \in Bare, x \in Inputs(Hashes)}}

Answer(id, m, cut) == [id |-> id, data |-> m, cut |-> cut]

\* An answer to GetAddress.
AddressAnswers == {Answer(30, [address |-> <<"1Bv">>], cut) : cut \in BOOLEAN}

\* An unknown id; every message of the schema whole; and some cut short.
MCAnswers == AddressAnswers
  \union {Answer(23, m, FALSE) : m \in Bare}
  \union {Answer(22, m, FALSE) : m \in Bare \union Extended}
  \union {Answer(22, With(m, "input", x), TRUE) : m \in Bare, x \in Inputs({<<10, 255>>})}

-----------------------------------------------------------------------------
\* The functions are what Recursion asks, of every value and message here.
ASSUME MCRecursion ==
  \A type \in DOMAIN Schema :
    /\ \A s \in BOOLEAN, v \in Json :
         /\ Accepts(s, v, type) <=> AcceptsObject(s, v, type)
         /\ Accepts(s, v, type) =>
              LET x == ToMessage(v, type)
              IN  /\ x = MessageOf(v, type)
                  /\ Says(v, x, type) <=> SaysMembers(v, x, type)
    /\ \A w \in Answers :
         HasType(w.data, type) =>
           /\ HasFields(w.data, type)
           /\ ToObject(w.data, type) = ObjectOf(w.data, type)
           /\ Cuts(w.data, type) = CutsOf(w.data, type)
=============================================================================
