----------------------------- MODULE WireFormat -----------------------------
(***************************************************************************)
(* The protobuf wire format: fields written to bytes                        *)
(* (packages/protocol/src/wire/writer.ts) and read back one after the other *)
(* (reader.ts), of a message that may be cut short.                         *)
(*                                                                         *)
(* Scaled down: a byte holds a group of Group values and the bit that says  *)
(* another byte follows, the 64-bit word has WordSize values, a fixed32     *)
(* takes two bytes and a fixed64 three.                                     *)
(***************************************************************************)
EXTENDS Integers, Sequences, SequencesExt

CONSTANTS
  Group,       \* values of the seven bits a varint byte carries
  WordSize,    \* values of 64 bits
  MostGroups,  \* bytes of a varint the reader follows, one more than a word needs
  Fields,      \* the fields messages are made of
  FieldLimit   \* bound: fields of a message

VARIABLES
  fieldsWritten,  \* the fields of the message, as given to the writer
  buffer,    \* the bytes there are of it
  offset,    \* where the reader is
  fieldsRead,
  reading    \* "reading", "end" or "thrown"

wireVars == <<fieldsWritten, buffer, offset, fieldsRead, reading>>

Varint == 0
Fixed64 == 1
LengthDelimited == 2
Fixed32 == 5

ByteValues == 2 * Group
Width(type) == IF type = Fixed64 THEN 3 ELSE 2

-----------------------------------------------------------------------------
(* Numbers as digits, the low one first.                                   *)

\* What a digit stands for, by its place; and what is left of a number when so
\* many digits were taken off it.
Place(base) == LET place[k \in Nat] == IF k = 0 THEN 1 ELSE place[k - 1] * base IN place
Left(value, base) ==
  LET left[k \in Nat] == IF k = 0 THEN value ELSE left[k - 1] \div base IN left

\* A varint the reader follows to its end.
Fits(value) == value \in Nat /\ value < Place(Group)[MostGroups]

WellFormed(f) ==
  /\ f.no \in Nat \ {0} /\ f.type \in {Varint, Fixed64, LengthDelimited, Fixed32}
  /\ Fits(f.no * 8 + f.type)
  /\ f.type = Varint => f.value \in Int /\ -WordSize <= f.value /\ f.value < WordSize
  /\ f.type \in {Fixed64, Fixed32} => f.value \in Nat /\ f.value < Place(ByteValues)[Width(f.type)]
  /\ f.type = LengthDelimited => f.bytes \in Seq(0..(ByteValues - 1)) /\ Fits(Len(f.bytes))

ASSUME WireAssumption ==
  /\ Group \in Nat \ {0, 1}
  /\ WordSize \in Nat \ {0}
  /\ MostGroups \in Nat \ {0} /\ WordSize <= Place(Group)[MostGroups]
  /\ FieldLimit \in Nat
  /\ \A f \in Fields : WellFormed(f)

-----------------------------------------------------------------------------
(* The writer.                                                             *)

\* Groups are taken off until none is left; every byte but the last says that
\* more follow.
Groups(value) ==
  LET left == Left(value, Group)
      turns == CHOOSE k \in 1..(value + 1) : left[k] = 0 /\ \A j \in 1..(k - 1) : left[j] > 0
  IN [k \in 1..turns |-> (left[k - 1] % Group) + (IF left[k] > 0 THEN Group ELSE 0)]

\* A negative number is written as its two's complement.
Word64(value) == IF value < 0 THEN value + WordSize ELSE value
WriteVarint(value) == Groups(Word64(value))
WriteTag(no, type) == WriteVarint(no * 8 + type)

LittleEndian(value, width) == [k \in 1..width |-> Left(value, ByteValues)[k - 1] % ByteValues]

WritePayload(f) ==
  CASE f.type = Varint -> WriteVarint(f.value)
    [] f.type \in {Fixed32, Fixed64} -> LittleEndian(f.value, Width(f.type))
    [] f.type = LengthDelimited -> WriteVarint(Len(f.bytes)) \o f.bytes
WriteField(f) == WriteTag(f.no, f.type) \o WritePayload(f)

EncodeFields(fs) == FlattenSeq([k \in 1..Len(fs) |-> WriteField(fs[k])])
Encoded == EncodeFields(fieldsWritten)

-----------------------------------------------------------------------------
(* The reader.  An error has no place to go on from.                       *)

Thrown == [ok |-> FALSE]
Result(value, next) == [ok |-> TRUE, value |-> value, next |-> next]

\* The digits behind a place in the buffer, put together.
Joined(at, digits, base) ==
  LET joined[k \in 0..digits] ==
        IF k = 0 THEN 0 ELSE joined[k - 1] + (buffer[at + k] % base) * Place(base)[k - 1]
  IN joined[digits]

ReadVarint(at) ==
  LET last == {k \in (at + 1)..Len(buffer) : buffer[k] < Group}
  IN IF last = {} THEN Thrown
     ELSE LET upTo == CHOOSE k \in last : \A j \in last : k <= j
          IN IF upTo - at > MostGroups THEN Thrown ELSE Result(Joined(at, upTo - at, Group), upTo)

ReadFixed(at, width) ==
  IF at + width > Len(buffer) THEN Thrown
  ELSE Result(Joined(at, width, ByteValues), at + width)

\* Faulty: bytes that are not all there are taken as far as they go.
ReadBytesShort(at) ==
  LET length == ReadVarint(at)
      upTo == IF length.next + length.value > Len(buffer) THEN Len(buffer) ELSE length.next + length.value
  IN IF ~length.ok THEN Thrown ELSE Result(SubSeq(buffer, length.next + 1, upTo), upTo)

ReadBytes(at) ==
  LET length == ReadVarint(at)
  IN IF ~length.ok THEN Thrown
     ELSE IF length.next + length.value > Len(buffer) THEN Thrown
          ELSE Result(SubSeq(buffer, length.next + 1, length.next + length.value),
                      length.next + length.value)

ReadPayload(type, at) ==
  CASE type = Varint -> ReadVarint(at)
    [] type \in {Fixed32, Fixed64} -> ReadFixed(at, Width(type))
    [] type = LengthDelimited -> ReadBytes(at)
    [] OTHER -> Thrown

-----------------------------------------------------------------------------
WireInit ==
  /\ fieldsWritten \in BoundedSeq(Fields, FieldLimit)
  /\ \E there \in 0..Len(Encoded) : buffer = SubSeq(Encoded, 1, there)
  /\ offset = 0
  /\ fieldsRead = <<>>
  /\ reading = "reading"

ReadFails ==
  /\ reading' = "thrown"
  /\ UNCHANGED <<fieldsWritten, buffer, offset, fieldsRead>>

ReadField ==
  /\ reading = "reading"
  /\ offset < Len(buffer)
  /\ LET tag == ReadVarint(offset)
     IN IF ~tag.ok \/ (tag.ok /\ tag.value < 8) THEN ReadFails
        ELSE LET type == tag.value % 8
                 payload == ReadPayload(type, tag.next)
             IN IF ~payload.ok THEN ReadFails
                ELSE /\ fieldsRead' = Append(fieldsRead,
                          [no |-> tag.value \div 8, type |-> type, got |-> payload.value])
                     /\ offset' = payload.next
                     /\ UNCHANGED <<fieldsWritten, buffer, reading>>

ReadEnd ==
  /\ reading = "reading"
  /\ offset = Len(buffer)
  /\ reading' = "end"
  /\ UNCHANGED <<fieldsWritten, buffer, offset, fieldsRead>>

WireNext == ReadField \/ ReadEnd

WireSpec == WireInit /\ [][WireNext]_wireVars

-----------------------------------------------------------------------------
\* A field as a reader must find it: a number as the word that was written.
Value(f) ==
  CASE f.type = Varint -> (f.value + WordSize) % WordSize
    [] f.type \in {Fixed32, Fixed64} -> f.value
    [] f.type = LengthDelimited -> f.bytes
AsRead(f) == [no |-> f.no, type |-> f.type, got |-> Value(f)]

\* What is read is what was written, field by field; and of a message that was
\* cut short, either the fields that are whole or an error, never a field with
\* another value, and never all of it.
WireFaithful ==
  /\ IsPrefix(fieldsRead, [k \in 1..Len(fieldsWritten) |-> AsRead(fieldsWritten[k])])
  /\ reading = "end" /\ buffer = Encoded => Len(fieldsRead) = Len(fieldsWritten)
  /\ reading = "end" => buffer = EncodeFields(SubSeq(fieldsWritten, 1, Len(fieldsRead)))
  /\ reading = "thrown" => Len(buffer) < Len(Encoded)
=============================================================================
