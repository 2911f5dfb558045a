------------------------------- MODULE Fields -------------------------------
(***************************************************************************)
(* The field types of packet/types.go: what WriteTo puts on the wire, and  *)
(* what ReadFrom makes of a byte sequence (the value, and the bytes that   *)
(* remain).  Numbers are sets of bit positions, as in module VarInt; a     *)
(* float is its bit pattern.                                               *)
(***************************************************************************)
EXTENDS VarInt

CONSTANT MaxString   \* longest string a reader accepts (math.MaxInt16 in the code)

ASSUME StringAssumption == MaxString \in Nat

\* binary.BigEndian: the n bytes of u, most significant first, and back.
PutUint(u, n) == [i \in 1..n |-> ToByte(Shr(u, 8 * (n - i)))]
Uint(s) == UNION {Shl(s[i], 8 * (Len(s) - i)) : i \in 1..Len(s)}

\* ByteReader.ReadByte, and io.ReadFull over ByteReader.Read.
ReadByte(s) == IF s = <<>> THEN Fail("eof", <<>>) ELSE Ok(Head(s), Tail(s))
ReadFull(s, n) ==
  IF Len(s) < n THEN Fail("eof", <<>>) ELSE Ok(SubSeq(s, 1, n), Drop(s, n))
\* Decode with F what reader result r has read; errors pass through.
Then(r, F(_)) == IF r.err = "ok" THEN Ok(F(r.val), r.rest) ELSE r

VarIntWriteTo(u) == PutVarInt(u)
VarIntReadFrom(s) == ReadVarInt(s)
VarLongWriteTo(u) == PutVarLong(u)
VarLongReadFrom(s) == ReadVarLong(s)

ByteWriteTo(u) == <<ToByte(u)>>
ByteReadFrom(s) == ReadByte(s)
UnsignedByteWriteTo(u) == <<ToByte(u)>>
UnsignedByteReadFrom(s) == ReadByte(s)
AngleWriteTo(u) == <<ToByte(u)>>
AngleReadFrom(s) == ReadByte(s)

ShortWriteTo(u) == PutUint(u, 2)
ShortReadFrom(s) == Then(ReadFull(s, 2), Uint)
UnsignedShortWriteTo(u) == PutUint(u, 2)
UnsignedShortReadFrom(s) == Then(ReadFull(s, 2), Uint)
IntWriteTo(u) == PutUint(u, 4)
IntReadFrom(s) == Then(ReadFull(s, 4), Uint)
FloatWriteTo(u) == PutUint(u, 4)
FloatReadFrom(s) == Then(ReadFull(s, 4), Uint)
LongWriteTo(u) == PutUint(u, 8)
LongReadFrom(s) == Then(ReadFull(s, 8), Uint)
DoubleWriteTo(u) == PutUint(u, 8)
DoubleReadFrom(s) == Then(ReadFull(s, 8), Uint)

BooleanWriteTo(b) == IF b THEN <<{0}>> ELSE <<{}>>
BooleanReadFrom(s) == Then(ReadByte(s), LAMBDA b : b # {})

\* A UUID is an array of bytes; two 64-bit halves convert to one and back.
UUIDWriteTo(u) == u
UUIDReadFrom(s) == ReadFull(s, 16)
IntsToUUID(hi, lo) == PutUint(hi, 8) \o PutUint(lo, 8)
UuidToInts(u) == <<Uint(SubSeq(u, 1, 8)), Uint(SubSeq(u, 9, 16))>>

ByteArrayWriteTo(ba) == ba
ByteArrayReadFrom(s, length) == ReadFull(s, length)

StringWriteTo(data) == VarIntWriteTo(Bits(Len(data))) \o data
StringReadFrom(s) ==
  LET length == VarIntReadFrom(s) IN
  IF length.err # "ok" THEN length
  ELSE IF 31 \in length.val \/ Num(length.val) > MaxString THEN Fail("large", length.rest)
  ELSE ReadFull(length.rest, Num(length.val))

\* x and z take 26 bits, y 12; the reader extends their signs.
PositionWriteTo(p) ==
  PutUint(Shl(p.x \cap Word(26), 38) \cup Shl(p.z \cap Word(26), 12)
            \cup (p.y \cap Word(12)), 8)
Signed(u, w) == IF w - 1 \in u THEN u \cup (w..63) ELSE u
PositionUnsigned(s) ==  \* mutant of PositionReadFrom: y keeps its sign bit
  Then(ReadFull(s, 8), LAMBDA b :
    [x |-> Signed(Shr(Uint(b), 38), 26), y |-> Uint(b) \cap Word(12),
     z |-> Signed(Shr(Uint(b), 12) \cap Word(26), 26)])
PositionReadFrom(s) ==
  Then(ReadFull(s, 8), LAMBDA b :
    [x |-> Signed(Shr(Uint(b), 38), 26), y |-> Signed(Uint(b) \cap Word(12), 12),
     z |-> Signed(Shr(Uint(b), 12) \cap Word(26), 26)])

\* NBT is raw: the reader stops at the first two zero bytes in a row.
NBTWriteTo(data) == data
NBTReadFrom(s) ==
  LET E == {i \in 2..Len(s) : s[i] = {} /\ s[i - 1] = {}}
  IN  IF E = {} THEN Fail("eof", <<>>) ELSE ReadFull(s, Min(E))

\* A Slot that is not present has no item; its other fields are left alone.
SlotWriteTo(sl) ==
  IF ~sl.present THEN BooleanWriteTo(FALSE)
  ELSE BooleanWriteTo(TRUE) \o VarIntWriteTo(sl.id) \o ByteWriteTo(sl.count)
         \o NBTWriteTo(sl.nbt)
EmptySlot == [present |-> FALSE, id |-> {}, count |-> {}, nbt |-> <<>>]
SlotReadFrom(s) ==
  LET present == BooleanReadFrom(s)
      id == VarIntReadFrom(present.rest)
      count == ByteReadFrom(id.rest)
      nbt == NBTReadFrom(count.rest)
  IN  IF present.err # "ok" THEN present
      ELSE IF ~present.val THEN Ok(EmptySlot, present.rest)
      ELSE IF id.err # "ok" THEN id
      ELSE IF count.err # "ok" THEN count
      ELSE Then(nbt, LAMBDA d : [present |-> TRUE, id |-> id.val, count |-> count.val,
                                 nbt |-> d])

BitSetWriteTo(bs) ==
  VarIntWriteTo(Bits(Len(bs)))
    \o [i \in 1..(8 * Len(bs)) |-> PutUint(bs[(i + 7) \div 8], 8)[((i - 1) % 8) + 1]]
BitSetReadFrom(s) ==
  LET length == VarIntReadFrom(s) IN
  IF length.err # "ok" THEN length
  ELSE Then(ReadFull(length.rest, 8 * Num(length.val)), LAMBDA b :
         [i \in 1..Num(length.val) |-> Uint(SubSeq(b, 8 * i - 7, 8 * i))])
=============================================================================
