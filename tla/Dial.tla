--------------------------------- MODULE Dial -------------------------------
(***************************************************************************)
(* Dial of the transports (transport/*.go) behind Dialer (tunnel/          *)
(* dialer.go): each step acquires something or fails, and a failed step    *)
(* releases what the code releases on that path.  The negotiation of the   *)
(* SOCKS5 transport is modelled byte by byte: its replies arrive whole or  *)
(* in segments, and a Read returns what has arrived.                       *)
(***************************************************************************)
EXTENDS Naturals, Sequences, FiniteSetsExt

CONSTANT DomainLens   \* lengths of a domain name in the reply of the proxy

\* The length is a byte of the reply.
ASSUME DomainLensAssumption == DomainLens \subseteq 0..255

\* For each transport its steps in order: what the step opens, and what is
\* closed if it fails.
Step(opens, closes) == [opens |-> opens, closes |-> closes]
TcpSteps == <<Step({"tcp"}, {})>>
WsSteps == <<Step({"ws"}, {})>>
KcpSteps == <<Step({"kcp"}, {})>>
TlsSteps == <<Step({"tcp"}, {}), Step({"tls"}, {"tcp"})>>
QuicForgets ==  \* mutant of QuicSteps: the socket stays open when no stream opens
  <<Step({}, {}), Step({"udp"}, {}), Step({"quic"}, {"udp"}), Step({"stream"}, {"quic"})>>
QuicSteps ==
  <<Step({}, {}), Step({"udp"}, {}), Step({"quic"}, {"udp"}), Step({"stream"}, {"quic", "udp"})>>
SocksSteps == <<Step({"tcp"}, {}), Step({}, {"tcp"}), Step({}, {"tcp"})>>
DialSteps == [tcp |-> TcpSteps, tls |-> TlsSteps, ws |-> WsSteps, kcp |-> KcpSteps,
              quic |-> QuicSteps, socks5 |-> SocksSteps]

\* What Close of the connection that Dial returned releases: a QUICConn closes
\* its stream, and nothing refers to the session and to the socket.
CloseReleases(kind) == IF kind = "quic" THEN {"stream"} ELSE {"tcp", "tls", "ws", "kcp"}

VARIABLES
  dl,      \* [kind, step, open, result]
  sx,      \* [pc, need]: the SOCKS5 negotiation
  sxNet,   \* [whole, pend, in, up]: bytes the proxy has sent, and those that have arrived
  sxPlan   \* what the proxy answers: [method, auth, code, atyp, dlen]

DialVars == <<dl, sx, sxNet, sxPlan>>

DialInit ==
  /\ dl \in [kind: DOMAIN DialSteps, step: {1}, open: {{}}, result: {"none"}]
  /\ sx = [pc |-> "idle", need |-> 0]
  /\ sxNet \in [whole: BOOLEAN, pend: {<<>>}, in: {<<>>}, up: {TRUE}]
  /\ sxPlan \in [method: {0, 2, 255}, auth: {0, 1}, code: {0, 1}, atyp: {1, 3, 4, 9},
                 dlen: DomainLens]
  /\ dl.kind # "socks5" =>
       sxNet.whole /\ sxPlan = [method |-> 0, auth |-> 0, code |-> 0, atyp |-> 1,
                                dlen |-> Min(DomainLens)]

Steps == DialSteps[dl.kind]
Fails == dl' = [dl EXCEPT !.open = @ \ Steps[dl.step].closes, !.result = "error"]
Advance ==
  dl' = [dl EXCEPT !.open = @ \cup Steps[dl.step].opens, !.step = @ + 1,
                   !.result = IF dl.step = Len(Steps) THEN "conn" ELSE @]
\* A step of the library or the system succeeds or fails.
DialStep ==
  /\ dl.result = "none" /\ (dl.kind = "socks5" => dl.step = 1)
  /\ Advance \/ Fails
  /\ UNCHANGED <<sx, sxNet, sxPlan>>
DialClose ==
  /\ dl.result = "conn"
  /\ dl' = [dl EXCEPT !.open = @ \ CloseReleases(dl.kind), !.result = "closed"]
  /\ UNCHANGED <<sx, sxNet, sxPlan>>

\* The replies of the proxy, and their way.
Zeros(n) == [i \in 1..n |-> 0]
Reply(pc) ==
  CASE pc = "method" -> <<5, sxPlan.method>>
    [] pc = "auth" -> <<1, sxPlan.auth>>
    [] pc = "request" -> <<5, sxPlan.code, 0, sxPlan.atyp>> \o
         (CASE sxPlan.atyp = 1 -> Zeros(6) [] sxPlan.atyp = 4 -> Zeros(18)
            [] sxPlan.atyp = 3 -> <<sxPlan.dlen>> \o Zeros(sxPlan.dlen + 2) [] OTHER -> Zeros(2))
Arrive ==
  /\ sxNet.pend # <<>>
  /\ \E k \in (IF sxNet.whole THEN {Len(sxNet.pend)} ELSE {1, Len(sxNet.pend)}) :
       sxNet' = [sxNet EXCEPT !.in = @ \o SubSeq(sxNet.pend, 1, k),
                              !.pend = SubSeq(@, k + 1, Len(@))]
  /\ UNCHANGED <<dl, sx, sxPlan>>
HangUp ==
  /\ dl.kind = "socks5" /\ dl.step > 1 /\ sxNet.up
  /\ sxNet' = [sxNet EXCEPT !.up = FALSE, !.pend = <<>>]
  /\ UNCHANGED <<dl, sx, sxPlan>>

\* conn.Read into n bytes that are zero: of what has arrived, as much as fits.
Read(n) ==
  LET k == Min({n, Len(sxNet.in)})
  IN  [i \in 1..n |-> IF i <= k THEN sxNet.in[i] ELSE 0]
Consumed(n) == [sxNet EXCEPT !.in = SubSeq(@, Min({n, Len(@)}) + 1, Len(@))]
Arrived(n) == dl.kind = "socks5" /\ dl.result = "none" /\ (n = 0 \/ sxNet.in # <<>>)
\* The negotiation fails: what was read decides, or the read returns an error.
SocksFails(n) == Fails /\ sxNet' = Consumed(n) /\ UNCHANGED sx
SocksReadError ==
  /\ dl.kind = "socks5" /\ dl.result = "none" /\ dl.step > 1
  /\ ~sxNet.up /\ sxNet.in = <<>>
  /\ Fails /\ UNCHANGED <<sx, sxNet, sxPlan>>

\* The next request is written in the step that reads the reply before it; the
\* proxy replies unless it has hung up.
SocksNext(n, pc) ==
  /\ sx' = [sx EXCEPT !.pc = pc]
  /\ sxNet' = [Consumed(n) EXCEPT !.pend = IF sxNet.up THEN @ \o Reply(pc) ELSE @]
handshake ==
  /\ dl.kind = "socks5" /\ dl.step = 2 /\ sx.pc = "idle" /\ dl.result = "none"
  /\ SocksNext(0, "method")
  /\ UNCHANGED <<dl, sxPlan>>
handshakeRead ==
  /\ sx.pc = "method" /\ Arrived(2)
  /\ LET resp == Read(2) IN
     IF resp[1] = 5 /\ resp[2] = 2 THEN SocksNext(2, "auth") /\ UNCHANGED dl
     ELSE IF resp[1] = 5 /\ resp[2] = 0 THEN SocksNext(2, "request") /\ Advance
     ELSE SocksFails(2)
  /\ UNCHANGED sxPlan
passwordAuth ==
  /\ sx.pc = "auth" /\ Arrived(2)
  /\ IF Read(2)[2] = 0 THEN SocksNext(2, "request") /\ Advance ELSE SocksFails(2)
  /\ UNCHANGED sxPlan
Await(n, pc, need) ==
  sxNet' = Consumed(n) /\ sx' = [pc |-> pc, need |-> need] /\ UNCHANGED dl
requestNoLength ==  \* mutant of request: forgets the length byte of a domain
  /\ sx.pc = "request" /\ Arrived(4)
  /\ LET resp == Read(4) IN
     IF resp[2] # 0 \/ resp[4] \notin {1, 3, 4} THEN SocksFails(4)
     ELSE Await(4, "addr", CASE resp[4] = 1 -> 6 [] resp[4] = 4 -> 18 [] OTHER -> 2)
  /\ UNCHANGED sxPlan
request ==
  /\ sx.pc = "request" /\ Arrived(4)
  /\ LET resp == Read(4) IN
     IF resp[2] # 0 \/ resp[4] \notin {1, 3, 4} THEN SocksFails(4)
     ELSE IF resp[4] = 3 THEN Await(4, "domain", 1)
     ELSE Await(4, "addr", IF resp[4] = 1 THEN 6 ELSE 18)
  /\ UNCHANGED sxPlan
\* resp[0]+2 is computed in a byte.
requestDomain ==
  /\ sx.pc = "domain" /\ Arrived(1)
  /\ Await(1, "addr", (Read(1)[1] + 2) % 256)
  /\ UNCHANGED sxPlan
requestAddr ==
  /\ sx.pc = "addr" /\ Arrived(sx.need)
  /\ sxNet' = Consumed(sx.need) /\ Advance
  /\ UNCHANGED <<sx, sxPlan>>

DialNext ==
  \/ DialStep \/ DialClose \/ Arrive \/ HangUp \/ SocksReadError
  \/ handshake \/ handshakeRead \/ passwordAuth \/ request \/ requestDomain \/ requestAddr

DialSpec == DialInit /\ [][DialNext]_DialVars
-----------------------------------------------------------------------------
\* A Dial that fails leaves nothing open, at whichever step it fails, and Close
\* releases all that Dial opened, but for QUIC (quic.go:60-94, socks5.go:44-61).
DialReleases ==
  dl.result \in {"error"} \cup (IF dl.kind = "quic" THEN {} ELSE {"closed"}) => dl.open = {}

\* If replies arrive whole, Dial returns a connection only if the proxy granted
\* it, and has then read exactly the replies: the first byte that its caller
\* reads is the first of the server (socks5.go:68-190).  A domain of 254 or 255
\* bytes is the exception.
SocksAligned ==
  dl.kind = "socks5" /\ dl.result = "conn" /\ sxNet.whole
    /\ (sxPlan.atyp = 3 => sxPlan.dlen < 254) =>
    /\ sxNet.in = <<>> /\ sxNet.pend = <<>>
    /\ sxPlan.code = 0 /\ (sxPlan.method = 2 => sxPlan.auth = 0)
=============================================================================
