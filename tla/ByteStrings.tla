---------------------------- MODULE ByteStrings ----------------------------
(***************************************************************************)
(* Strings of bytes and the records laid out in them.  A layout is the     *)
(* sequence of fields a serializer pushes, or a reader takes, one after    *)
(* the other.  Positions count from 0, as in the code; a float is the      *)
(* 32-bit word memcpy takes it for, and a word is a pair of halves (its    *)
(* value would not fit an integer of TLC).                                 *)
(***************************************************************************)
EXTENDS Integers, SequencesExt

Byte == 0..255
Half == {v \in Nat : v < 65536}
Word == Half \X Half      \* <<high, low>>

At(buf, i) == buf[i + 1]
Slice(buf, from, to) == SubSeq(buf, from + 1, to)      \* [from, to)

\* One byte after the other goes through step, from 0 on.
Accumulated(step, bytes) ==
  LET cs[k \in 0..Len(bytes)] == IF k = 0 THEN 0 ELSE step[cs[k - 1]][bytes[k]]
  IN  cs[Len(bytes)]

plus == [x \in Byte |-> [y \in Byte |-> (x + y) % 256]]
xor ==
  [x \in Byte |-> [y \in Byte |->
     LET at(b) == b * ((x \div b + y \div b) % 2)
     IN  at(1) + at(2) + at(4) + at(8) + at(16) + at(32) + at(64) + at(128)]]

\* The sum and the exclusive or of a string.
compute_checksum(bytes) == Accumulated(plus, bytes)
Xor(bytes) == Accumulated(xor, bytes)

---------------------------------------------------------------------------
(* Little-endian conversions.                                              *)

write_le_uint16(v) == <<v % 256, v \div 256>>
write_le_uint32(v) == write_le_uint16(v[2]) \o write_le_uint16(v[1])

read_le_uint16(b) == b[1] + 256 * b[2]
read_le_uint32(b) == <<read_le_uint16(SubSeq(b, 3, 4)), read_le_uint16(SubSeq(b, 1, 2))>>

\* An int16_t goes out as the uint16_t with its bits, and comes back.
as_uint16(v) == v % 65536
as_int16(v) == IF v < 32768 THEN v ELSE v - 65536

---------------------------------------------------------------------------
(* Layouts.                                                                *)

\* Fields of one kind, in order.
Each(kind, names) == [k \in DOMAIN names |-> [name |-> names[k], kind |-> kind]]

Width(kind) ==
  CASE kind = "u8" -> 1
    [] kind \in {"u16", "i16"} -> 2
    [] kind = "u32" -> 4
    [] kind = "u8x13" -> 13
    [] kind = "u8x33" -> 33

Encode(kind, v) ==
  CASE kind = "u8" -> <<v>>
    [] kind = "u16" -> write_le_uint16(v)
    [] kind = "i16" -> write_le_uint16(as_uint16(v))
    [] kind = "u32" -> write_le_uint32(v)
    [] kind \in {"u8x13", "u8x33"} -> v

Decode(kind, b) ==
  CASE kind = "u8" -> b[1]
    [] kind = "u16" -> read_le_uint16(b)
    [] kind = "i16" -> as_int16(read_le_uint16(b))
    [] kind = "u32" -> read_le_uint32(b)
    [] kind \in {"u8x13", "u8x33"} -> b

\* The string a record is written as.
Put(layout, r) ==
  LET out[k \in 0..Len(layout)] ==
        IF k = 0 THEN <<>> ELSE out[k - 1] \o Encode(layout[k].kind, r[layout[k].name])
  IN  out[Len(layout)]

\* Where the k-th field of a layout starts: behind the fields before it.
Offset(layout, k) ==
  LET at[j \in 0..Len(layout)] == IF j = 0 THEN 0 ELSE at[j - 1] + Width(layout[j].kind)
  IN  at[k - 1]

\* The record read from a string, its first field at position from.
Get(layout, buf, from) ==
  [name \in {layout[k].name : k \in DOMAIN layout} |->
     LET k == CHOOSE j \in DOMAIN layout : layout[j].name = name
         at == from + Offset(layout, k)
     IN  Decode(layout[k].kind, Slice(buf, at, at + Width(layout[k].kind)))]

\* buf with the bytes of s from position at on.
Patch(buf, at, s) == Slice(buf, 0, at) \o s \o Slice(buf, at + Len(s), Len(buf))
============================================================================
