------------------------------- MODULE VarInt -------------------------------
(***************************************************************************)
(* The variable-length integers of packet/varint.go, and the other loops   *)
(* of the library that decode them.  An integer is the set of its bit      *)
(* positions (two's complement), a byte a subset of 0..7: a shift moves    *)
(* the positions, | is union, & and the width of a type are intersection.  *)
(***************************************************************************)
EXTENDS Integers, Sequences, FiniteSetsExt

Byte == SUBSET (0..7)
More == 7                \* the continuation bit 0x80
Word(w) == 0..(w - 1)    \* the bit positions of a w-bit integer

Shr(u, k) == {b - k : b \in {c \in u : c >= k}}
Shl(u, k) == {b + k : b \in u}
ToByte(u) == u \cap Word(8)

\* The bits of a natural number below 2^31, and back.
Bits(n) == {k \in 0..30 : (n \div 2^k) % 2 = 1}
Num(u) == MapThenSumSet(LAMBDA k : 2^k, u)

Drop(s, n) == SubSeq(s, n + 1, Len(s))
Ok(v, rest) == [err |-> "ok", val |-> v, rest |-> rest]
Fail(e, rest) == [err |-> e, val |-> {}, rest |-> rest]

\* The switch on u < 1 << 7k: the first k that leaves no bit out.
Groups(u, max) == Min({k \in 1..max : u \subseteq Word(7 * k)} \cup {max})
VarIntLen(u) == Groups(u, 5)
VarLongLen(u) == Groups(u, 10)

\* All bytes but the last carry the continuation bit.
PutVarInt(u) ==
  [i \in 1..VarIntLen(u) |->
     ToByte(Shr(u, 7 * (i - 1))) \cup IF i < VarIntLen(u) THEN {More} ELSE {}]
PutVarLong(u) ==
  [i \in 1..VarLongLen(u) |->
     ToByte(Shr(u, 7 * (i - 1))) \cup IF i < VarLongLen(u) THEN {More} ELSE {}]

\* Where the first byte without continuation bit stands among the first max
\* bytes (0: nowhere), and the bits of n bytes put together in width w.
Terminator(s, max) ==
  LET T == {i \in 1..max : i <= Len(s) /\ More \notin s[i]}
  IN  IF T = {} THEN 0 ELSE Min(T)
Join(s, n, w) == UNION {Shl(s[i] \ {More}, 7 * (i - 1)) : i \in 1..n} \cap Word(w)

DiscardVarInt(s) ==
  LET t == Terminator(s, 10) IN Drop(s, IF t > 0 THEN t ELSE Min({10, Len(s)}))

\* ReadVarInt and ReadVarLong give up after 5 or 10 continued bytes, and then
\* skip what looks like the rest of the number.
ReadVarInt(s) ==
  LET t == Terminator(s, 5) IN
  IF t > 0 THEN Ok(Join(s, t, 32), Drop(s, t))
  ELSE IF Len(s) < 5 THEN Fail("eof", <<>>)
  ELSE Fail("malformed", DiscardVarInt(Drop(s, 5)))
ReadVarLong(s) ==
  LET t == Terminator(s, 10) IN
  IF t > 0 THEN Ok(Join(s, t, 64), Drop(s, t))
  ELSE IF Len(s) < 10 THEN Fail("eof", <<>>)
  ELSE Fail("malformed", DiscardVarInt(Drop(s, 10)))

\* Reads exactly n bytes, and may stop decoding before the last of them.
ReadVarIntN(s, n) ==
  LET t == Terminator(s, n) IN
  IF Len(s) < n THEN Fail("eof", <<>>)
  ELSE Ok(Join(s, IF t > 0 THEN t ELSE n, 32), Drop(s, n))

\* On a slice: nothing is discarded, and the end of the slice is an error of
\* its own.
ReadVarIntFromBytes(s) ==
  LET t == Terminator(s, 5) IN
  IF t > 0 THEN Ok(Join(s, t, 32), Drop(s, t))
  ELSE Fail(IF Len(s) < 5 THEN "short" ELSE "malformed", <<>>)

\* PacketReader.readVarInt on the connection.
readVarIntWide(s) ==  \* mutant of readVarInt: one byte more than the format has
  LET t == Terminator(s, 6) IN
  IF t > 0 THEN Ok(Join(s, t, 32), Drop(s, t))
  ELSE IF Len(s) < 6 THEN Fail("eof", <<>>)
  ELSE Fail("malformed", Drop(s, 6))
readVarInt(s) ==
  LET t == Terminator(s, 5) IN
  IF t > 0 THEN Ok(Join(s, t, 32), Drop(s, t))
  ELSE IF Len(s) < 5 THEN Fail("eof", <<>>)
  ELSE Fail("malformed", Drop(s, 5))

\* PacketReader.readUntilVarInt: only the number of bytes.
readUntilVarInt(s) ==
  LET t == Terminator(s, 5) IN
  IF t > 0 THEN Ok(t, Drop(s, t))
  ELSE IF Len(s) < 5 THEN Fail("eof", <<>>)
  ELSE Fail("malformed", Drop(s, 5))
=============================================================================
