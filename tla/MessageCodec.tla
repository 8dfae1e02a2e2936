---------------------------- MODULE MessageCodec ----------------------------
(***************************************************************************)
(* A message that is decoded by the schema recovered from the client, has   *)
(* one field edited and is encoded again                                    *)
(* (packages/protocol/src/schema/message-codec.ts, descriptor.ts), between  *)
(* the fields of the wire (WireFormat) and the objects handlers see.        *)
(*                                                                         *)
(* A wire field is its number, the form of its payload and the payload: a   *)
(* number, a text, packed numbers, or the fields of a nested message.  A    *)
(* text is a sequence of pieces, of which a decoder minds two kinds: a byte *)
(* order mark and bytes that are not UTF-8.  The integer widths are scaled: *)
(* Word for 2^64, Half for 2^32, Exact for the 2^53 up to which a           *)
(* JavaScript number is exact.                                              *)
(*                                                                         *)
(* decodeMessage and encodeMessage call themselves for a message nested in  *)
(* the one at hand.  What they do to that one is a constant operator here,  *)
(* and NestingAssumption says that it is what they do to any message.       *)
(***************************************************************************)
EXTENDS Integers, Sequences, SequencesExt, TLC

CONSTANTS
  Word, Half, Exact,
  Schema,     \* message type |-> its field descriptors, in order
  WireFields, \* the wire fields messages are made of
  WireLimit,  \* bound: wire fields of a message
  Edits,      \* scalar fields of the message and the values they are given
  Messages,   \* the nested messages, each with its type
  Depth,      \* bound: how deep messages are nested
  DecodeInner(_, _), EncodeInner(_, _), InnerMeaning(_, _)
              \* DecodeMessage, EncodeMessage and Meaning of a nested message

ScalarTypes == {"int32", "int64", "sint32", "bool", "enum", "uint64", "string"}

\* The widths are even and the wide one is made of the narrow one.
ASSUME CodecAssumption ==
  /\ Word \in Nat /\ Half \in Nat /\ Exact \in Nat
  /\ 0 < Half /\ Half < Exact /\ Exact < Word
  /\ \E h \in 1..Half : Half = 2 * h
  /\ \E n \in 1..Word : Word = n * Half
  /\ WireLimit \in Nat /\ Depth \in Nat

\* Field numbers are positive and each is described once; what is edited is a
\* single scalar.
ASSUME SchemaAssumption ==
  /\ "Top" \in DOMAIN Schema
  /\ \A type \in DOMAIN Schema :
       /\ Schema[type] \in Seq(ToSet(Schema[type]))
       /\ \A d \in ToSet(Schema[type]) :
            /\ d.no \in Nat \ {0} /\ d.repeated \in BOOLEAN
            /\ \/ d.kind = "scalar" /\ d.type \in ScalarTypes
               \/ d.kind = "message"
               \/ /\ d.kind = "map"
                  /\ \/ d.value.kind = "message"
                     \/ d.value.kind = "scalar" /\ d.value.type \in ScalarTypes
       /\ \A i, j \in DOMAIN Schema[type] : Schema[type][i].no = Schema[type][j].no => i = j
  /\ \A e \in Edits : e.no # 0
  /\ \A e \in Edits, d \in ToSet(Schema["Top"]) : d.no = e.no => d.kind = "scalar" /\ ~d.repeated

VARIABLES
  codecStep,  \* "wire", "value" or "encoded"
  wireIn,     \* the message as it came
  value,      \* the object the handler sees
  edit,       \* what the handler set in it
  wireOut     \* the message as it goes on

codecVars == <<codecStep, wireIn, value, edit, wireOut>>

NoEdit == [no |-> 0]

Number(no, v) == [no |-> no, form |-> "number", holds |-> v]
Text(no, v) == [no |-> no, form |-> "text", holds |-> v]
Nested(no, v) == [no |-> no, form |-> "fields", holds |-> v]
Packed(no, v) == [no |-> no, form |-> "packed", holds |-> v]

-----------------------------------------------------------------------------
(* Scalars.                                                                *)

AsSigned(v, width) == LET m == v % width IN IF m >= width \div 2 THEN m - width ELSE m
ZigZagDecode(v) == IF v % 2 = 0 THEN v \div 2 ELSE -((v + 1) \div 2)
ZigZagEncode(x) == IF x < 0 THEN (-2 * x) - 1 ELSE 2 * x
TwosComplement(x) == IF x < 0 THEN x + Word ELSE x

\* A JavaScript number: above 2^53 the nearest it can hold.
Spacing == Word \div Exact
AsNumber(v) == IF v <= Exact THEN v ELSE ((v + (Spacing \div 2)) \div Spacing) * Spacing

\* The pieces of a text that a decoder minds: a byte order mark, bytes that are
\* not UTF-8, and the character U+FFFD that takes their place.
Bom == "bom"
Invalid == "invalid"
Replacement == "replacement"

\* new TextDecoder().decode: a leading byte order mark is dropped, and what is
\* not UTF-8 is replaced.
DecodeText(v) ==
  LET read == [k \in DOMAIN v |-> IF v[k] = Invalid THEN Replacement ELSE v[k]]
  IN IF v # <<>> /\ v[1] = Bom THEN Tail(read) ELSE read

DecodeScalar(type, v) ==
  CASE type = "int32" -> AsSigned(v, Half)
    [] type = "int64" -> AsSigned(v, Word)
    [] type = "sint32" -> AsSigned(ZigZagDecode(v), Half)
    [] type = "bool" -> v # 0
    [] type = "enum" -> AsNumber(v)
    [] type = "uint64" -> v
    [] type = "string" -> DecodeText(v)

EncodeScalar(type, x) ==
  CASE type = "bool" -> IF x THEN 1 ELSE 0
    [] type = "sint32" -> ZigZagEncode(x)
    [] type \in {"int32", "int64", "enum"} -> TwosComplement(x)
    [] type \in {"uint64", "string"} -> x

\* Every scalar has the wire form of its type.
WriteScalar(no, type, x) ==
  IF type = "string" THEN Text(no, EncodeScalar(type, x)) ELSE Number(no, EncodeScalar(type, x))

-----------------------------------------------------------------------------
(* Decoding.                                                               *)

Empty == [fields |-> <<>>, unknown |-> <<>>]

\* A message whose type the schema lacks keeps its fields as they are.
DecodeSingle(d, w) ==
  IF d.kind = "message"
  THEN IF d.type \in DOMAIN Schema THEN DecodeInner(d.type, w.holds)
       ELSE [Empty EXCEPT !.unknown = w.holds]
  ELSE DecodeScalar(d.type, w.holds)

\* The fields with some numbers, in their order.
OfNumbers(wires, nos) ==
  LET kept[n \in 0..Len(wires)] ==
        IF n = 0 THEN <<>>
        ELSE IF wires[n].no \in nos THEN Append(kept[n - 1], wires[n]) ELSE kept[n - 1]
  IN kept[Len(wires)]
Numbered(wires, no) == OfNumbers(wires, {no})
LatestOf(wires, no, otherwise) ==
  IF Numbered(wires, no) = <<>> THEN otherwise ELSE Last(Numbered(wires, no))

\* A map entry is a message of a key and a value; an absent one is a default.
Unset(d) ==
  IF d.kind = "message" THEN Nested(2, <<>>) ELSE IF d.type = "string" THEN Text(2, <<>>) ELSE Number(2, 0)
EntryKey(w) == LatestOf(w.holds, 1, Text(1, <<>>)).holds
EntryValue(d, w) == LatestOf(w.holds, 2, Unset(d.value))
DecodeMapEntry(d, w) ==
  [key |-> DecodeText(EntryKey(w)), value |-> DecodeSingle(d.value, EntryValue(d, w))]

Before(fields, no, otherwise) == IF no \in DOMAIN fields THEN fields[no] ELSE otherwise
Assign(f, key, x) == [k \in DOMAIN f \cup {key} |-> IF k = key THEN x ELSE f[k]]

\* One wire field into the object: map entries by key, repeated fields one
\* after the other whether packed or not, a single field over the one before.
\* The enums of a packed field are read as numbers of 32 bits.
Unpacked(d) == IF d.type = "enum" THEN "int32" ELSE d.type
ApplyDecoded(fields, d, w) ==
  CASE d.kind = "map" ->
         LET entry == DecodeMapEntry(d, w)
         IN Assign(fields, d.no, Assign(Before(fields, d.no, <<>>), entry.key, entry.value))
    [] d.kind # "map" /\ d.repeated ->
         LET got == IF w.form = "packed"
                    THEN [k \in 1..Len(w.holds) |-> DecodeScalar(Unpacked(d), w.holds[k])]
                    ELSE <<DecodeSingle(d, w)>>
         IN Assign(fields, d.no, Before(fields, d.no, <<>>) \o got)
    [] OTHER -> Assign(fields, d.no, DecodeSingle(d, w))

Numbers(type) == {d.no : d \in ToSet(Schema[type])}
DescriptorOf(type, no) == CHOOSE d \in ToSet(Schema[type]) : d.no = no

TakeField(type, message, w) ==
  IF w.no \in Numbers(type)
  THEN [message EXCEPT !.fields = ApplyDecoded(@, DescriptorOf(type, w.no), w)]
  ELSE [message EXCEPT !.unknown = Append(@, w)]

DecodeMessage(type, wires) ==
  LET after[k \in 0..Len(wires)] ==
        IF k = 0 THEN Empty ELSE TakeField(type, after[k - 1], wires[k])
  IN after[Len(wires)]

-----------------------------------------------------------------------------
(* Encoding.                                                               *)

\* Faulty: a message the schema lacks goes on without its fields.
EncodeNestedKnown(d, no, message) ==
  Nested(no, IF d.type \in DOMAIN Schema THEN EncodeInner(d.type, message) ELSE <<>>)

EncodeNested(d, no, message) ==
  Nested(no, IF d.type \in DOMAIN Schema THEN EncodeInner(d.type, message) ELSE message.unknown)

\* A map's value without a scalar type is written as a text, an enum included.
WriteMapValue(d, x) ==
  IF d.kind = "message" THEN EncodeNested(d, 2, x)
  ELSE IF d.type = "enum" THEN Text(2, ToString(x))
  ELSE WriteScalar(2, d.type, x)

\* Strings and messages are not packed; no numbers make no field.
EncodeField(d, x) ==
  CASE d.kind = "map" ->
         LET keys == SetToSeq(DOMAIN x)
         IN [k \in 1..Len(keys) |-> Nested(d.no, <<Text(1, keys[k]), WriteMapValue(d.value, x[keys[k]])>>)]
    [] d.kind = "message" /\ d.repeated -> [k \in 1..Len(x) |-> EncodeNested(d, d.no, x[k])]
    [] d.kind = "message" /\ ~d.repeated -> <<EncodeNested(d, d.no, x)>>
    [] d.kind = "scalar" /\ d.repeated /\ d.type = "string" ->
         [k \in 1..Len(x) |-> WriteScalar(d.no, d.type, x[k])]
    [] d.kind = "scalar" /\ d.repeated /\ d.type # "string" ->
         IF x = <<>> THEN <<>>
         ELSE <<Packed(d.no, [k \in 1..Len(x) |-> EncodeScalar(d.type, x[k])])>>
    [] OTHER -> <<WriteScalar(d.no, d.type, x)>>

\* The described fields in the schema's order, then what the schema lacks.
EncodeMessage(type, message) ==
  FlattenSeq([k \in 1..Len(Schema[type]) |->
      LET d == Schema[type][k]
      IN IF d.no \in DOMAIN message.fields THEN EncodeField(d, message.fields[d.no]) ELSE <<>>])
  \o message.unknown

-----------------------------------------------------------------------------
CodecInit ==
  /\ codecStep = "wire"
  /\ wireIn \in BoundedSeq(WireFields, WireLimit)
  /\ value = Empty
  /\ edit = NoEdit
  /\ wireOut = <<>>

Decode ==
  /\ codecStep = "wire"
  /\ value' = DecodeMessage("Top", wireIn)
  /\ codecStep' = "value"
  /\ UNCHANGED <<wireIn, edit, wireOut>>

EditField ==
  /\ codecStep = "value"
  /\ edit = NoEdit
  /\ edit' \in Edits
  /\ value' = [value EXCEPT !.fields = Assign(@, edit'.no, edit'.to)]
  /\ UNCHANGED <<codecStep, wireIn, wireOut>>

Encode ==
  /\ codecStep = "value"
  /\ wireOut' = EncodeMessage("Top", value)
  /\ codecStep' = "encoded"
  /\ UNCHANGED <<wireIn, value, edit>>

CodecNext == Decode \/ EditField \/ Encode

CodecSpec == CodecInit /\ [][CodecNext]_codecVars

-----------------------------------------------------------------------------
(* What a message says to a reader that knows the schema, by the rules of  *)
(* protobuf and not by this codec.                                         *)

\* 32-bit types are read from the low half of the word.
ScalarMeaning(type, w) ==
  CASE type \in {"int32", "enum", "sint32"} -> IF w.form = "number" THEN w.holds % Half ELSE 0
    [] type \in {"int64", "uint64"} -> w.holds % Word
    [] type = "bool" -> w.holds # 0
    [] type = "string" -> w.holds

OneMeaning(d, w) ==
  IF d.kind # "message" THEN ScalarMeaning(d.type, w)
  ELSE IF d.type \in DOMAIN Schema THEN InnerMeaning(d.type, w.holds) ELSE w.holds

\* Of two entries with one key the later counts.
MapMeaning(d, wires) ==
  [key \in {EntryKey(wires[k]) : k \in DOMAIN wires} |->
     OneMeaning(d.value, EntryValue(d, wires[Max({k \in DOMAIN wires : EntryKey(wires[k]) = key})]))]

ListMeaning(d, wires) ==
  FlattenSeq([k \in 1..Len(wires) |->
    IF wires[k].form = "packed"
    THEN [j \in 1..Len(wires[k].holds) |-> ScalarMeaning(d.type, Number(d.no, wires[k].holds[j]))]
    ELSE <<OneMeaning(d, wires[k])>>])

FieldMeaning(d, wires) ==
  IF d.kind = "map" THEN MapMeaning(d, wires)
  ELSE IF d.repeated THEN ListMeaning(d, wires)
  ELSE OneMeaning(d, Last(wires))

\* The fields a message says something about: a list without elements does not.
Says(type, wires) ==
  {d \in ToSet(Schema[type]) :
     /\ Numbered(wires, d.no) # <<>>
     /\ d.kind # "map" /\ d.repeated => FieldMeaning(d, Numbered(wires, d.no)) # <<>>}
Lacking(type, wires) == OfNumbers(wires, {w.no : w \in ToSet(wires)} \ Numbers(type))
Meaning(type, wires) ==
  [fields |-> [no \in {d.no : d \in Says(type, wires)} |->
                 FieldMeaning(DescriptorOf(type, no), Numbered(wires, no))],
   unknown |-> Lacking(type, wires)]

-----------------------------------------------------------------------------
(* The messages that come.                                                  *)

\* A wire field in the form its descriptor gives it, as a sender with the same
\* schema writes it.
ProperScalar(type, v) ==
  IF type = "sint32" THEN v \in 0..(Half - 1) ELSE type # "string" /\ v \in 0..(Word - 1)
ProperOne(d, w) ==
  IF d.kind = "message" THEN w.form = "fields"
  ELSE IF d.type = "string" THEN w.form = "text" /\ w.holds \in Seq(ToSet(w.holds))
  ELSE w.form = "number" /\ ProperScalar(d.type, w.holds)
Proper(d, w) ==
  CASE d.kind = "map" ->
         /\ w.form = "fields" /\ w.holds \in Seq(ToSet(w.holds))
         /\ \A k \in DOMAIN w.holds :
              /\ w.holds[k].no = 1 => w.holds[k].holds \in Seq(ToSet(w.holds[k].holds))
              /\ w.holds[k].no = 2 => ProperOne(d.value, w.holds[k])
    [] d.kind = "scalar" /\ d.repeated /\ w.form = "packed" ->
         w.holds \in Seq(0..(Word - 1)) /\ \A k \in DOMAIN w.holds : ProperScalar(d.type, w.holds[k])
    [] OTHER -> ProperOne(d, w)

\* The messages directly inside of one.
InField(d, w) ==
  CASE d.kind = "message" -> {<<d.type, w.holds>>}
    [] d.kind = "map" /\ d.value.kind = "message" -> {<<d.value.type, EntryValue(d, w).holds>>}
    [] OTHER -> {}
Described(type, wires) == {k \in DOMAIN wires : wires[k].no \in Numbers(type)}
Inside(type, wires) ==
  {m \in UNION {InField(DescriptorOf(type, wires[k].no), wires[k]) : k \in Described(type, wires)} :
     m[1] \in DOMAIN Schema}

Sendable(type, wires) ==
  /\ type \in DOMAIN Schema /\ wires \in Seq(ToSet(wires))
  /\ \A k \in Described(type, wires) : Proper(DescriptorOf(type, wires[k].no), wires[k])
  /\ Inside(type, wires) \subseteq Messages

ASSUME MessagesAssumption ==
  /\ \A m \in Messages : Sendable(m[1], m[2])
  /\ \A w \in WireFields : Sendable("Top", <<w>>)

\* A nested message is decoded, encoded and understood as any message is.
ASSUME NestingAssumption ==
  \A m \in Messages :
    LET object == DecodeMessage(m[1], m[2])
        again == EncodeMessage(m[1], object)
    IN /\ DecodeInner(m[1], m[2]) = object
       /\ EncodeInner(m[1], object) = again
       /\ InnerMeaning(m[1], m[2]) = Meaning(m[1], m[2])
       /\ InnerMeaning(m[1], again) = Meaning(m[1], again)

\* A text that is UTF-8 and does not begin with a byte order mark.
Clean(v) == (\A k \in DOMAIN v : v[k] # Invalid) /\ (v # <<>> => v[1] # Bom)

\* The texts of a field, the key and the value of a map's entry.
TextsOf(d, w) ==
  IF d.kind = "map"
  THEN {EntryKey(w)} \cup
       IF d.value.kind = "scalar" /\ d.value.type = "string" THEN {EntryValue(d, w).holds} ELSE {}
  ELSE IF d.kind = "scalar" /\ d.type = "string" THEN {w.holds} ELSE {}

\* The messages the codec is known to change: a text that is not UTF-8 or begins
\* with a byte order mark, as a key too; an enum that goes through a JavaScript
\* number that cannot hold it (a negative one); an enum in a map, which is written
\* as a text; a nested message sent in parts, which is not merged; and what else an
\* entry of a map has than its key and its value.
Changed(type, wires) ==
  \E d \in ToSet(Schema[type]) : LET mine == Numbered(wires, d.no) IN
    \/ \E k \in DOMAIN mine : \E v \in TextsOf(d, mine[k]) : ~Clean(v)
    \/ d.kind = "scalar" /\ d.type = "enum" /\ \E k \in DOMAIN mine : mine[k].form = "number" /\ mine[k].holds > Exact
    \/ d.kind = "map" /\ d.value.kind = "scalar" /\ d.value.type = "enum" /\ mine # <<>>
    \/ d.kind = "message" /\ ~d.repeated /\ Len(mine) > 1
    \/ d.kind = "map" /\ \E k \in DOMAIN mine : \E w \in ToSet(mine[k].holds) : w.no \notin {1, 2}

\* Those it keeps, n messages deep.
Kept[n \in Nat] ==
  {m \in Messages : ~Changed(m[1], m[2]) /\ Inside(m[1], m[2]) \subseteq IF n = 0 THEN {} ELSE Kept[n - 1]}

\* "Decoding a request, editing one field and re-encoding it does not silently
\* drop everything else" (message-codec.ts:11): of a message that is none of the
\* above, at any depth, what goes on says what came, but for the field that was
\* set; fields the schema lacks are all there and in order.
RoundTrip ==
  codecStep = "encoded" /\ ~Changed("Top", wireIn) /\ Inside("Top", wireIn) \subseteq Kept[Depth] =>
    LET was == Meaning("Top", wireIn)
        is == Meaning("Top", wireOut)
    IN /\ is.unknown = was.unknown
       /\ \A no \in DOMAIN was.fields : no # edit.no => no \in DOMAIN is.fields /\ is.fields[no] = was.fields[no]
       /\ DOMAIN is.fields \subseteq DOMAIN was.fields \cup {edit.no}
=============================================================================
