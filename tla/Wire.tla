-------------------------------- MODULE Wire --------------------------------
(***************************************************************************)
(* A writer and a reader joined by a connection that may be cut after any  *)
(* byte.  The writer sends the items of a plan, the reader decodes them in *)
(* the same order, knowing of each item only its kind and the parameter n  *)
(* (a length, a threshold, a key): what the two programs agreed on.        *)
(***************************************************************************)
EXTENDS Secure

CONSTANT Plans   \* sequences of items [kind, n, val]

VARIABLES
  plan,    \* the items to be sent (chosen at the start)
  sent,    \* how many of them were written
  wire,    \* bytes written and not yet consumed
  cut,     \* the connection is lost
  got,     \* what the reader has decoded
  failed   \* the reader has met an error

WireVars == <<plan, sent, wire, cut, got, failed>>

Handshake(v) == BuildHandshake(v.ver, v.host, v.port, v.next)

\* Relay.relay takes the first byte of the frame for the ID of the packet.
Reframe(buf) == [id |-> Head(buf), data |-> Tail(buf)]

Encode(it) ==
  LET v == it.val IN
  CASE it.kind = "VarInt" -> VarIntWriteTo(v)
    [] it.kind = "VarLong" -> VarLongWriteTo(v)
    [] it.kind = "Byte" -> ByteWriteTo(v)
    [] it.kind = "UnsignedByte" -> UnsignedByteWriteTo(v)
    [] it.kind = "Angle" -> AngleWriteTo(v)
    [] it.kind = "Short" -> ShortWriteTo(v)
    [] it.kind = "UnsignedShort" -> UnsignedShortWriteTo(v)
    [] it.kind = "Int" -> IntWriteTo(v)
    [] it.kind = "Float" -> FloatWriteTo(v)
    [] it.kind = "Long" -> LongWriteTo(v)
    [] it.kind = "Double" -> DoubleWriteTo(v)
    [] it.kind = "Boolean" -> BooleanWriteTo(v)
    [] it.kind = "UUID" -> UUIDWriteTo(v)
    [] it.kind = "UuidInts" -> UUIDWriteTo(IntsToUUID(v[1], v[2]))
    [] it.kind = "ByteArray" -> ByteArrayWriteTo(v)
    [] it.kind = "String" -> StringWriteTo(v)
    [] it.kind = "Position" -> PositionWriteTo(v)
    [] it.kind = "NBT" -> NBTWriteTo(v)
    [] it.kind = "Slot" -> SlotWriteTo(v)
    [] it.kind = "BitSet" -> BitSetWriteTo(v)
    [] it.kind \in {"packet", "raw"} -> WritePacket(v, it.n)
    [] it.kind = "relayed" -> WritePacket(Reframe(ReadRawPacket(WritePacket(v, -1)).val), -1)
    [] it.kind = "handshake" -> WritePacket(Handshake(v), -1)
    [] it.kind = "redirect" -> WritePacket(ModifyHandshakeHost(Handshake(v), v.new).val, -1)
    [] it.kind = "modern" ->
         WritePacket(AppendModernForwarding([id |-> {1}, data |-> v.login], v), -1)
    [] it.kind = "velocity" ->
         WritePacket(IF it.n = v.secret THEN CreateVelocityForwardingPacket(v)
                     ELSE AppendVelocityForwarding([id |-> Zero, data |-> <<>>], v), -1)
    [] it.kind = "cipher" -> Crypt(FALSE, it.n.key, v, it.n.lengths)
    [] it.kind = "hash" -> ServerHash(v)

\* The server that looks a hash up reads the text as a signed number.
SignedHex(text) ==
  LET digits == IF Head(text) = Minus THEN Tail(text) ELSE text
      size == Num(UNION {Shl(digits[i], 4 * (Len(digits) - i)) : i \in 1..Len(digits)})
  IN  IF Head(text) = Minus THEN -size ELSE size

\* A packet read and its body parsed with F.
Parsed(s, F(_)) ==
  LET p == ReadPacket(s, -1) IN
  IF p.err # "ok" THEN p ELSE [F(p.val) EXCEPT !.rest = p.rest]
WithVersion(pkt) ==
  Then(ParseHandshake(pkt), LAMBDA h :
    [ver |-> ReadVarIntFromBytes(pkt.data).val, host |-> h.host, port |-> h.port,
     next |-> h.next])

Decode(kind, n, s) ==
  CASE kind = "VarInt" -> VarIntReadFrom(s)
    [] kind = "VarLong" -> VarLongReadFrom(s)
    [] kind = "Byte" -> ByteReadFrom(s)
    [] kind = "UnsignedByte" -> UnsignedByteReadFrom(s)
    [] kind = "Angle" -> AngleReadFrom(s)
    [] kind = "Short" -> ShortReadFrom(s)
    [] kind = "UnsignedShort" -> UnsignedShortReadFrom(s)
    [] kind = "Int" -> IntReadFrom(s)
    [] kind = "Float" -> FloatReadFrom(s)
    [] kind = "Long" -> LongReadFrom(s)
    [] kind = "Double" -> DoubleReadFrom(s)
    [] kind = "Boolean" -> BooleanReadFrom(s)
    [] kind = "UUID" -> UUIDReadFrom(s)
    [] kind = "UuidInts" -> Then(UUIDReadFrom(s), UuidToInts)
    [] kind = "ByteArray" -> ByteArrayReadFrom(s, n)
    [] kind = "String" -> StringReadFrom(s)
    [] kind = "Position" -> PositionReadFrom(s)
    [] kind = "NBT" -> NBTReadFrom(s)
    [] kind = "Slot" -> SlotReadFrom(s)
    [] kind = "BitSet" -> BitSetReadFrom(s)
    [] kind \in {"packet", "relayed"} -> ReadPacket(s, n)
    [] kind = "raw" -> Then(ReadRawPacket(s), LAMBDA buf :
         [id |-> PacketID(buf).val, data |-> ReadPacket(buf, n).val.data])
    [] kind \in {"handshake", "redirect"} -> Parsed(s, WithVersion)
    [] kind = "modern" -> Parsed(s, LAMBDA p : ParseModernForwarding(Drop(p.data, n)))
    [] kind = "velocity" -> Parsed(s, LAMBDA p :
         ValidateVelocityForwarding(Prefixed(p.data).rest, n))
    [] kind = "cipher" -> Then(ReadFull(s, n.total), LAMBDA b : Crypt(TRUE, n.key, b, n.lengths))
    [] kind = "hash" ->
         IF cut THEN Fail("eof", <<>>) ELSE Ok(SignedHex(s), <<>>)

WireInit ==
  /\ plan \in Plans
  /\ sent = 0 /\ wire = <<>> /\ cut = FALSE /\ got = <<>> /\ failed = FALSE

Send ==
  /\ ~cut /\ sent < Len(plan)
  /\ wire' = wire \o Encode(plan[sent + 1])
  /\ sent' = sent + 1
  /\ UNCHANGED <<plan, cut, got, failed>>

\* The connection is lost with any part of what is under way.
Cut ==
  /\ ~cut /\ ~failed /\ Len(got) < Len(plan)
  /\ \E k \in 0..Len(wire) : wire' = SubSeq(wire, 1, k)
  /\ cut' = TRUE
  /\ UNCHANGED <<plan, sent, got, failed>>

\* A reader that needs more bytes waits for them, unless the connection is lost.
Receive ==
  /\ ~failed /\ Len(got) < Len(plan)
  /\ Len(got) < sent \/ cut
  /\ LET it == plan[Len(got) + 1] IN
     \E r \in {Decode(it.kind, it.n, wire)} :
       /\ r.err = "eof" => cut
       /\ wire' = r.rest
       /\ got' = IF r.err = "ok" THEN Append(got, r.val) ELSE got
       /\ failed' = (r.err # "ok")
  /\ UNCHANGED <<plan, sent, cut>>

WireNext == Send \/ Cut \/ Receive

WireSpec == WireInit /\ [][WireNext]_WireVars
-----------------------------------------------------------------------------
\* What a reader must make of an item, and the items it must refuse.
Expected(it) ==
  LET v == it.val IN
  CASE it.kind = "handshake" -> v
    [] it.kind = "redirect" ->
         [ver |-> v.ver, host |-> v.new, port |-> v.port, next |-> v.next]
    [] it.kind = "modern" -> [uuid |-> v.uuid, ip |-> v.ip]
    [] it.kind = "velocity" -> buildVelocityPlaintext(v)
    [] it.kind = "hash" -> Num(Uint(v)) - IF 7 \in v[1] THEN 2^(8 * Len(v)) ELSE 0
    [] OTHER -> v
Refused(it) ==
  \/ it.kind = "String" /\ Len(it.val) > MaxString
  \/ it.kind = "velocity" /\ it.val.secret # it.n

Faithful(k) == ~Refused(plan[k]) /\ got[k] = Expected(plan[k])

\* What is written is read back, one item behind another and wherever the
\* connection is cut: every field type (types.go, varint.go); packets, compressed
\* or not, from pooled buffers of any history, parsed or raw (packet.go);
\* handshakes, also with another host, and forwarded player data, accepted with
\* the secret it was signed with and no other (handshake.go, auth.go); what is
\* encrypted, with the boundaries used to encrypt (cfb8.go); and the signed number
\* that the text of a server hash stands for (keyexchange.go:82-113).
ItemsKept == \A k \in 1..Len(got) : plan[k].kind # "relayed" => Faithful(k)

\* A packet that a relay forwards arrives as it was sent (tunnel/relay.go:72-78).
RelayKept == \A k \in 1..Len(got) : plan[k].kind = "relayed" => Faithful(k)

\* The reader fails only on what it must refuse, or when the connection is lost
\* (packet.go:58-222).
NoFalseError == failed => cut \/ Refused(plan[Len(got) + 1])

\* Where the code has one thing several times, all of them agree: the decoders of
\* a VarInt on any bytes, in value, length and error (varint.go:224, 272, 310,
\* packet.go:190, 212), and the writer with ThresholdManager on what is compressed
\* (packet.go:256, threshold.go:27).
SameVarInt(a, b) ==
  /\ a.err = b.err \/ {a.err, b.err} = {"eof", "short"}
  /\ a.err = "ok" => a = b
DecodersAgree ==
  LET r == ReadVarInt(wire)
      n == readUntilVarInt(wire)
  IN  /\ SameVarInt(r, readVarInt(wire)) /\ SameVarInt(r, ReadVarIntFromBytes(wire))
      /\ r.err = n.err
      /\ r.err = "ok" => r = ReadVarIntN(wire, n.val)
ThresholdsAgree ==
  \A k \in 1..Len(plan) : plan[k].kind = "packet" /\ plan[k].n >= 0 =>
    LET p == plan[k].val
        body == readVarInt(Encode(plan[k])).rest
    IN  (readVarInt(body).val # Zero) <=>
          ShouldCompress(plan[k].n, VarIntLen(p.id) + Len(p.data))
TwinsAgree == DecodersAgree /\ ThresholdsAgree

\* A reader does not wait for bytes that the writer has not sent: an item that is
\* complete on the wire is read (or refused) without more bytes (packet.go:58-88).
NoStall ==
  ~cut /\ ~failed /\ Len(got) < sent =>
    Decode(plan[Len(got) + 1].kind, plan[Len(got) + 1].n, wire).err # "eof"
=============================================================================
