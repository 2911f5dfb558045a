-------------------------------- MODULE Login -------------------------------
(***************************************************************************)
(* The handshake packet and the forwarding of player data: the functions   *)
(* of proxy/handshake.go and proxy/auth.go on bytes.                       *)
(***************************************************************************)
EXTENDS Framing

CONSTANT MacLen   \* bytes of an HMAC (32 in the code)

ASSUME MacAssumption == MacLen \in Nat \ {0}

Zero == {}   \* the VarInt 0, and the byte 0

BuildHandshake(protocolVersion, host, port, nextState) ==
  [id |-> Zero,
   data |-> PutVarInt(protocolVersion) \o PutLen(Len(host)) \o host
              \o <<ToByte(Shr(port, 8)), ToByte(port)>> \o PutVarInt(nextState)]

\* A length VarInt and that many bytes of a slice.
Prefixed(s) ==
  LET strLen == ReadVarIntFromBytes(s) IN
  IF strLen.err # "ok" THEN strLen
  ELSE IF 31 \in strLen.val \/ Num(strLen.val) > Len(strLen.rest) THEN Fail("short", <<>>)
  ELSE ReadFull(strLen.rest, Num(strLen.val))

ParseHandshake(pkt) ==
  LET protoVer == ReadVarIntFromBytes(pkt.data)
      host == Prefixed(protoVer.rest)
      ns == ReadVarIntFromBytes(Drop(host.rest, 2))
  IN  IF Len(pkt.data) < 2 THEN Fail("short", <<>>)
      ELSE IF protoVer.err # "ok" THEN protoVer
      ELSE IF host.err # "ok" THEN host
      ELSE IF Len(host.rest) < 2 THEN Fail("short", <<>>)
      ELSE IF ns.err # "ok" THEN ns
      ELSE Ok([host |-> host.val, port |-> Uint(SubSeq(host.rest, 1, 2)),
               next |-> ns.val], <<>>)

ModifyHandshakeHost(pkt, newHost) ==
  LET protoVer == ReadVarIntFromBytes(pkt.data)
      protoLen == Len(pkt.data) - Len(protoVer.rest)
      old == Prefixed(protoVer.rest)
  IN  IF ParseHandshake(pkt).err # "ok" THEN ParseHandshake(pkt)
      ELSE Ok([id |-> pkt.id,
               data |-> SubSeq(pkt.data, 1, protoLen) \o PutLen(Len(newHost)) \o newHost
                          \o old.rest], <<>>)

\* net.IP.String and net.ParseIP: texts of different lengths.
IPs == {1, 2}
IPText(ip) == [i \in 1..(4 * ip) |-> {ip, i % 8}]
ParseIP(text) == CHOOSE ip \in IPs : IPText(ip) = text

\* The legacy form puts the address behind the host, between zero bytes.
AppendLegacyForwarding(host, ip) == host \o <<Zero>> \o IPText(ip) \o <<Zero>>

AppendModernForwarding(pkt, data) ==
  [pkt EXCEPT !.data = @ \o data.uuid \o PutLen(Len(IPText(data.ip))) \o IPText(data.ip)
                         \o PutLen(0)]
ParseModernForwarding(extra) ==
  LET ip == Prefixed(Drop(extra, 16)) IN
  IF Len(extra) < 16 THEN Fail("short", <<>>)
  ELSE Then(ip, LAMBDA t : [uuid |-> SubSeq(extra, 1, 16), ip |-> ParseIP(t)])

buildVelocityPlaintext(data) ==
  data.uuid \o data.name \o <<Zero>> \o PutLen(Len(IPText(data.ip))) \o IPText(data.ip)
    \o PutUint(Zero, 4)

\* HMAC: some MacLen bytes that depend on every byte of text and secret.
Odd(S) == Cardinality(S) % 2 = 1
Hmac(text, secret) ==
  LET all == secret \o text IN
  [i \in 1..MacLen |-> {b \in Word(8) : Odd({j \in 1..Len(all) :
                                              j % MacLen = i % MacLen /\ b \in all[j]})}]
signVelocityPayload(text, secret) == Hmac(text, secret) \o text

VelocityChannel == <<{5}, {6}>>   \* the channel name
CreateVelocityForwardingPacket(data) ==
  [id |-> Zero, data |-> PutLen(Len(VelocityChannel)) \o VelocityChannel
                           \o signVelocityPayload(buildVelocityPlaintext(data), data.secret)]
\* The packet it is given is not used.
AppendVelocityForwarding(pkt, data) ==
  [id |-> Zero, data |-> PutLen(Len(VelocityChannel)) \o VelocityChannel
                           \o signVelocityPayload(buildVelocityPlaintext(data), data.secret)]

ValidateVelocityForwarding(data, secret) ==
  IF Len(data) < MacLen THEN Fail("rejected", <<>>)
  ELSE IF SubSeq(data, 1, MacLen) # Hmac(Drop(data, MacLen), secret)
  THEN Fail("rejected", <<>>)
  ELSE Ok(Drop(data, MacLen), <<>>)
=============================================================================
