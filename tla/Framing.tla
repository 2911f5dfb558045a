------------------------------- MODULE Framing ------------------------------
(***************************************************************************)
(* Packets as packet/packet.go writes and reads them, with and without     *)
(* compression (threshold < 0: none), and the compression decision of      *)
(* package compress.  A packet is [id, data]; id is a 32-bit VarInt.       *)
(***************************************************************************)
EXTENDS Fields

CONSTANT MaxPacketSize   \* internal.MaxPacketSize and MaxCompressedSize (0x200000)

ASSUME SizeAssumption == MaxPacketSize \in Nat

\* bytes written into a pooled buffer obtained with this size: what does not
\* fit shows what an earlier user left there.
Stale == Word(8)
InBuffer(size, bytes) == [i \in 1..Len(bytes) |-> IF i <= size THEN bytes[i] ELSE Stale]

PutLen(n) == PutVarInt(Bits(n))
LenLen(n) == VarIntLen(Bits(n))

\* zlib as the library uses it: a magic byte and the data behind its length.
\* Inflating stops with an error where the stream is not one, or is cut.
Magic == {3, 4, 5, 6}
Deflate(data) == <<Magic>> \o PutLen(Len(data)) \o data
Inflate(z) ==
  IF z = <<>> \/ Head(z) # Magic THEN Fail("zlib", <<>>)
  ELSE LET n == ReadVarIntFromBytes(Tail(z)) IN
       IF n.err # "ok" \/ Len(n.rest) < Num(n.val) THEN Fail("zlib", <<>>)
       ELSE Ok(SubSeq(n.rest, 1, Num(n.val)), <<>>)

Compress(data) == Deflate(data)
\* CopyN takes at most maxSize bytes; a shorter stream is no error.
Decompress(z, maxSize) ==
  Then(Inflate(z), LAMBDA d : SubSeq(d, 1, Min({maxSize, Len(d)})))

ShouldCompress(threshold, dataLength) == threshold >= 0 /\ dataLength >= threshold

writeShort(p, idLen, totalLen, threshold) ==  \* mutant: the buffer has no room for the ID
  LET compressed == Compress(InBuffer(Len(p.data), PutVarInt(p.id) \o p.data)) IN
  IF totalLen < threshold
  THEN PutLen(1 + totalLen) \o PutLen(0) \o PutVarInt(p.id) \o p.data
  ELSE PutLen(LenLen(totalLen) + Len(compressed)) \o PutLen(totalLen) \o compressed
writeCompressed(p, idLen, totalLen, threshold) ==
  IF totalLen < threshold
  THEN LET pktLen == 1 + idLen + Len(p.data) IN
       InBuffer(LenLen(pktLen) + pktLen,
                PutLen(pktLen) \o PutLen(0) \o PutVarInt(p.id) \o p.data)
  ELSE LET compressed == Compress(InBuffer(totalLen, PutVarInt(p.id) \o p.data))
           bodyLen == LenLen(totalLen) + Len(compressed)
       IN  InBuffer(LenLen(bodyLen) + bodyLen,
                    PutLen(bodyLen) \o PutLen(totalLen) \o compressed)

WritePacketCounts(p, threshold) ==  \* mutant of WritePacket: the length counts itself
  LET totalLen == VarIntLen(p.id) + Len(p.data) IN
  IF threshold >= 0 THEN writeCompressed(p, VarIntLen(p.id), totalLen, threshold)
  ELSE PutLen(LenLen(totalLen) + totalLen) \o PutVarInt(p.id) \o p.data
WritePacket(p, threshold) ==
  LET idLen == VarIntLen(p.id)
      totalLen == idLen + Len(p.data)
  IN  IF threshold >= 0 THEN writeCompressed(p, idLen, totalLen, threshold)
      ELSE InBuffer(LenLen(totalLen) + totalLen,
                    PutLen(totalLen) \o PutVarInt(p.id) \o p.data)

\* The ID and the data of an uncompressed body.
Packet(body) ==
  LET id == ReadVarIntFromBytes(body) IN
  IF id.err # "ok" THEN id ELSE Ok([id |-> id.val, data |-> id.rest], <<>>)

\* Copies the result over the buffer and clears what it does not reach.
decompressPayload(src, n) ==
  Then(Decompress(src, n), LAMBDA d : [i \in 1..n |-> IF i <= Len(d) THEN d[i] ELSE {}])

readCompressed(body) ==
  LET dataLen == ReadVarIntFromBytes(body) IN
  IF dataLen.err # "ok" THEN dataLen
  ELSE IF dataLen.val = {} THEN Packet(dataLen.rest)
  ELSE IF 31 \in dataLen.val THEN Fail("panic", <<>>)   \* GetBuffer of a negative size
  ELSE IF Num(dataLen.val) > MaxPacketSize THEN Fail("large", <<>>)
  ELSE LET d == decompressPayload(dataLen.rest, Num(dataLen.val))
       IN  IF d.err # "ok" THEN d ELSE Packet(d.val)

TooLarge(u) == 31 \in u \/ Num(u) > MaxPacketSize

ReadPacket(s, threshold) ==
  LET packetLen == readVarInt(s)
      body == ReadFull(packetLen.rest, Num(packetLen.val))
  IN  IF packetLen.err # "ok" THEN packetLen
      ELSE IF TooLarge(packetLen.val) THEN Fail("large", packetLen.rest)
      ELSE IF body.err # "ok" THEN body
      ELSE [(IF threshold >= 0 THEN readCompressed(body.val) ELSE Packet(body.val))
              EXCEPT !.rest = body.rest]

\* The whole frame, length included, in one buffer.
ReadRawPacket(s) ==
  LET n == readUntilVarInt(s)
      packetLen == Join(s, n.val, 32)
  IN  IF n.err # "ok" THEN n
      ELSE IF TooLarge(packetLen) THEN Fail("large", n.rest)
      ELSE ReadFull(s, n.val + Num(packetLen))

PacketID(buf) ==
  LET afterLen == ReadVarIntFromBytes(buf)
  IN  IF afterLen.err # "ok" THEN afterLen ELSE ReadVarIntFromBytes(afterLen.rest)
=============================================================================
