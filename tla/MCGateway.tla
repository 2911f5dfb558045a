------------------------------ MODULE MCGateway -----------------------------
(***************************************************************************)
(* Model-checking module of what surrounds a connection: the encodings of  *)
(* what it carries, the relays, the proxy, the dialers and the generator   *)
(* of packet IDs.  They share no state, so a behaviour is one of one of    *)
(* them, which part names.                                                 *)
(***************************************************************************)
EXTENDS MCWire, Relay, Gateway, Dial, Generator

CONSTANT Parts   \* the components to explore

VARIABLE part

allVars == <<WireVars, RelayVars, GatewayVars, DialVars, GenVars, part>>

SomePlan == CHOOSE p \in Plans : TRUE

\* The choices in the initial state of a component that is not explored are fixed.
GatewayInits ==
  /\ part \in Parts
  /\ (IF part = "wire" THEN TRUE ELSE plan = SomePlan) /\ WireInit
  /\ RelayInit /\ (part # "relay" => rlConf = [mode |-> "direct", net |-> "tcp"])
  /\ GatewayInit /\ (part # "proxy" => gw.kind = "tcp" /\ gw.custom)
  /\ DialInit /\ (part # "dial" => dl.kind = "tcp")
  /\ GenInit /\ (part # "generator" => \A r \in Runs : gen[r].ver = CHOOSE v \in Versions : TRUE)

NotRelay == UNCHANGED <<WireVars, GatewayVars, DialVars, GenVars, part>>
NotProxy == UNCHANGED <<WireVars, RelayVars, DialVars, GenVars, part>>

GatewayNexts ==
  \/ part = "wire" /\ WireNext
       /\ UNCHANGED <<RelayVars, GatewayVars, DialVars, GenVars, part>>
  \/ part = "relay" /\ RelayNext /\ NotRelay
  \/ part = "proxy" /\ GatewayNext /\ NotProxy
  \/ part = "dial" /\ DialNext /\ UNCHANGED <<WireVars, RelayVars, GatewayVars, GenVars, part>>
  \/ part = "generator" /\ GenNext /\ UNCHANGED <<WireVars, RelayVars, GatewayVars, DialVars, part>>

GatewaySpec == GatewayInits /\ [][GatewayNexts]_allVars

\* A goroutine of a relay runs on, and so do those of the proxy, which take
\* finitely many steps: that one of them moves while any can is enough.  Nothing
\* is assumed of peers and clients.
RunsOn(s) ==
  \/ part = "relay" /\ PumpStep(s) /\ NotRelay
  \/ part = "proxy" /\ ~gw.crashed /\ ProxyStep /\ NotProxy
FairGatewaySpec == GatewaySpec /\ \A s \in Sides : WF_allVars(RunsOn(s))

-----------------------------------------------------------------------------
Class(obf, sub, words, inner) ==
  [obf |-> obf, path |-> <<"protocol", sub>>, words |-> words, inner |-> inner]
Hello == <<"Clientbound", "Hello", "Packet">>
Pong == <<"Serverbound", "Pong", "Packet">>
\* Two versions: two classes of the first have one key, and
\* the second uses the obfuscated names of the first for others.
Mappings ==
  [v1 |-> <<Class("a", "login", Hello, FALSE), Class("b", "common", Pong, FALSE),
            Class("c", "cookie", Pong, FALSE)>>,
   v2 |-> <<Class("b", "login", Hello, FALSE), Class("c", "game", Hello, TRUE),
            Class("a", "ping", Pong, FALSE)>>]
Jars ==
  [v1 |-> [a |-> {0, 3, 300}, b |-> {5}, c |-> {-1, 7}],
   v2 |-> [a |-> {4, 9}, b |-> {255, 256}, c |-> {2}]]
=============================================================================
