------------------------------- MODULE MCWire -------------------------------
(* Model-checking module of Wire: values at the edges of every encoding. *)
EXTENDS Wire

Item(kind, n, vals) == {[kind |-> kind, n |-> n, val |-> v] : v \in vals}
Edges(w) == {{}} \cup {{k} : k \in Word(w)} \cup {0..k : k \in Word(w)}
Ends(w) == {{}, {0}, {7}, {w - 1}, Word(w), Word(w) \ {8}}
Text(n) == [i \in 1..n |-> {i % 7, 6}]
Coordinate(w) == {{}, {0, 3}, 0..(w - 2), (w - 1)..63, 0..63}   \* sign-extended
Nbts == {<<{1, 3}, {}, {}>>, <<{1, 3}, {}, {4}, {7}, {}, {}>>, <<{}, {}>>}
Uuid == [i \in 1..16 |-> {i % 8}]

IntItems ==
  Item("VarInt", 0, Edges(32)) \cup Item("VarLong", 0, Edges(64))
    \cup UNION {Item(k, 0, Ends(8)) : k \in {"Byte", "UnsignedByte", "Angle"}}
    \cup UNION {Item(k, 0, Ends(16)) : k \in {"Short", "UnsignedShort"}}
    \cup UNION {Item(k, 0, Ends(32)) : k \in {"Int", "Float"}}
    \cup UNION {Item(k, 0, Ends(64)) : k \in {"Long", "Double"}}
FieldItems ==
  Item("Boolean", 0, BOOLEAN) \cup Item("UUID", 0, {Uuid})
    \cup Item("UuidInts", 0, {<<Word(64), {8}>>, <<{}, {63}>>})
    \cup Item("ByteArray", 2, {Text(2)}) \cup Item("ByteArray", 0, {<<>>})
    \cup Item("String", 0, {Text(n) : n \in {0, 1, MaxString, MaxString + 1}})
    \cup Item("Position", 0, [x: Coordinate(26), y: Coordinate(12), z: Coordinate(26)])
    \cup Item("NBT", 0, Nbts) \cup Item("BitSet", 0, {<<>>, <<{63}>>, <<{0}, Word(64)>>})
    \cup Item("Slot", 0, {EmptySlot} \cup [present: {TRUE}, id: {{}, {7}, {31}},
                                           count: {{0}, {7}}, nbt: Nbts])
Pkts == [id: {{}, {0, 2}, {7}, {31}}, data: {<<>>, Text(1), Text(3), Text(126), Text(127)}]
PacketItems ==
  UNION {Item("packet", t, Pkts) : t \in {-1, 0, 1, 4, 127, 128}} \cup Item("raw", -1, Pkts)
LoginItems ==
  LET shake == [ver: {{}, {0, 8}}, host: {<<>>, Text(3)}, port: {{0}, {8, 15}}, next: {{0}, {1}}]
      player == [uuid: {Uuid}, ip: IPs, name: {Text(2)}, secret: {<<{1}>>, <<{2}, {1}>>}]
  IN  Item("handshake", 0, shake)
        \cup UNION {Item("redirect", 0,
               {[ver |-> h.ver, host |-> h.host, port |-> h.port, next |-> h.next, new |-> w] :
                  w \in {<<>>, Text(5), AppendLegacyForwarding(h.host, 1)}}) : h \in shake}
        \cup Item("modern", 2, [login: {Text(2)}, uuid: {Uuid}, ip: IPs])
        \cup UNION {Item("velocity", s, player) : s \in {<<{1}>>, <<{2}, {1}>>}}
CipherItems ==
  UNION {Item("cipher", [key |-> <<{1}, {0, 5}>>, lengths |-> l, total |-> 7], {Text(7)}) :
           l \in {<<1, 1, 2, 3>>, <<7>>, <<4, 3>>, <<5, 2>>, <<3, 0, 4>>, <<2, 5>>}}
HashItems == Item("hash", 0, [1..2 -> {{}, {0}, Word(8), {7}, {4, 6}}] \ {<<{}, {}>>})

\* Behind each item one that shows whether the reader is still in step.
SecondPacket == Item("packet", -1, {[id |-> {7}, data |-> Text(1)]})
Seconds == Item("VarInt", 0, {Word(32)}) \cup SecondPacket
AllPlans ==
  {<<a, b>> : a \in IntItems \cup FieldItems \cup LoginItems \cup CipherItems, b \in Seconds}
    \cup {<<a, b>> : a \in PacketItems, b \in SecondPacket}
    \cup {<<h>> : h \in HashItems}
RelayPlans == {<<a>> : a \in Item("relayed", -1, Pkts)}
=============================================================================
