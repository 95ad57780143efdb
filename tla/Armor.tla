------------------------------- MODULE Armor -------------------------------
(***************************************************************************)
(* The line a key file holds: a label, and the material in Base64.         *)
(*                                                                         *)
(* A symbol of the alphabet is its value, and what trim leaves of a file   *)
(* is the label and the body; a body is a sequence of symbols, of padding  *)
(* and of characters that are neither.                                     *)
(***************************************************************************)
EXTENDS Integers, Sequences

PAD == 64
Foreign == 65       \* any character outside the alphabet
Malformed == <<>>   \* decode never returns it for material

Line(label, body) == [label |-> label, body |-> body]

\* Three bytes and four symbols share the 24 bits of a group; what each of them
\* is worth.
GROUP_BYTES == 3
GROUP_SYMBOLS == 4
ByteWeight == <<256 * 256, 256, 1>>
SymbolWeight == <<64 * 64 * 64, 64 * 64, 64, 1>>

Group(place, size) == (place - 1) \div size
Slot(place, size) == ((place - 1) % size) + 1

ByteOf(packed, slot) == (packed \div ByteWeight[slot]) % 256
SymbolOf(packed, slot) == (packed \div SymbolWeight[slot]) % 64
OfBytes(b1, b2, b3) == (b1 * 256 + b2) * 256 + b3
OfSymbols(s1, s2, s3, s4) == ((s1 * 64 + s2) * 64 + s3) * 64 + s4

\* A group packed from bytes, absent ones as zero, and from symbols, padding
\* likewise.
PackedBytes(bytes, group) ==
    LET byte(slot) == IF 3 * group + slot <= Len(bytes) THEN bytes[3 * group + slot] ELSE 0
    IN  OfBytes(byte(1), byte(2), byte(3))

PackedSymbols(body, group) ==
    LET value(slot) == IF body[4 * group + slot] = PAD THEN 0 ELSE body[4 * group + slot]
    IN  OfSymbols(value(1), value(2), value(3), value(4))

encode(bytes) ==
    [i \in 1 .. GROUP_SYMBOLS * ((Len(bytes) + GROUP_BYTES - 1) \div GROUP_BYTES) |->
        LET group == Group(i, GROUP_SYMBOLS)
            slot == Slot(i, GROUP_SYMBOLS)
        IN  IF slot <= Len(bytes) - GROUP_BYTES * group + 1
            THEN SymbolOf(PackedBytes(bytes, group), slot) ELSE PAD]

\* How many of the last characters are padding.
Padding(body) ==
    CHOOSE n \in 0 .. Len(body) :
        /\ \A i \in Len(body) - n + 1 .. Len(body) : body[i] = PAD
        /\ n < Len(body) => body[Len(body) - n] # PAD

Decoded(body) ==
    [i \in 1 .. GROUP_BYTES * (Len(body) \div GROUP_SYMBOLS) - Padding(body) |->
        ByteOf(PackedSymbols(body, Group(i, GROUP_BYTES)), Slot(i, GROUP_BYTES))]

\* Mutant of decode: padding is a symbol like any other.
decodePadding(body) ==
    IF \/ body = <<>> \/ Len(body) % GROUP_SYMBOLS # 0 \/ Padding(body) > 2
       \/ \E i \in DOMAIN body : body[i] = Foreign
    THEN Malformed
    ELSE Decoded(body)

\* Whole groups of the alphabet, with padding in one or two last places only.
decode(body) ==
    IF \/ body = <<>> \/ Len(body) % GROUP_SYMBOLS # 0 \/ Padding(body) > 2
       \/ \E i \in 1 .. Len(body) - Padding(body) : body[i] = PAD
       \/ \E i \in DOMAIN body : body[i] = Foreign
    THEN Malformed
    ELSE Decoded(body)

encode_labelled(label, bytes) == Line(label, encode(bytes))

\* The label first, so that a mix-up is not taken for damage.
decode_labelled(label, line) ==
    IF line.label # label THEN [kind |-> "wrong_label", material |-> Malformed]
    ELSE IF decode(line.body) = Malformed THEN [kind |-> "damaged", material |-> Malformed]
    ELSE [kind |-> "read", material |-> decode(line.body)]
=============================================================================
