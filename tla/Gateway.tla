------------------------------- MODULE Gateway ------------------------------
(***************************************************************************)
(* Proxy (proxy/proxy.go) on a Listener (tunnel/listener.go) over TCP or   *)
(* over the WebSocket listener (transport/ws.go): the accept loop of       *)
(* Start, a goroutine per client, and the callers of Stop.                 *)
(***************************************************************************)
EXTENDS Naturals, Sequences, FiniteSetsExt

CONSTANTS
  Clients,    \* connections that remote programs open
  Stoppers,   \* goroutines that call Stop
  ConnCap     \* capacity of connCh (64 in the code)

VARIABLES
  gw,       \* [kind, custom, closed, lnOpen, active, crashed]: the transport, whether
            \* SetHandler was called, Proxy.closed, the listener, Proxy.active
  gwStart,  \* [pc, client]: the goroutine in Start and the client it has accepted
  gwStop,   \* control point of each stopper
  gwQueue,  \* accepted by the system, or in connCh, in order of arrival
  gwState   \* control point of each client: of its goroutine, once it has one

GatewayVars == <<gw, gwStart, gwStop, gwQueue, gwState>>

GatewayInit ==
  /\ gw \in [kind: {"tcp", "ws"}, custom: BOOLEAN, closed: {FALSE}, lnOpen: {TRUE},
             active: {0}, crashed: {FALSE}]
  /\ gwStart = [pc |-> "check", client |-> {}]
  /\ gwStop = [q \in Stoppers |-> "idle"]
  /\ gwQueue = <<>>
  /\ gwState = [c \in Clients |-> "none"]

ToState(c, from, to) == gwState[c] = from /\ gwState' = [gwState EXCEPT ![c] = to]
Dropped(cs) == [c \in Clients |-> IF c \in cs THEN "closed" ELSE gwState[c]]

\* The system accepts a TCP connection; over WebSocket serveWS upgrades it.
Connect(c) ==
  /\ gw.lnOpen
  /\ \/ gw.kind = "tcp" /\ ToState(c, "none", "queued") /\ gwQueue' = Append(gwQueue, c)
     \/ gw.kind = "ws" /\ ToState(c, "none", "serving") /\ UNCHANGED gwQueue
  /\ UNCHANGED <<gw, gwStart, gwStop>>
\* select picks any case that is ready.
serveWS(c) ==
  /\ \/ /\ Len(gwQueue) < ConnCap
        /\ ToState(c, "serving", "queued") /\ gwQueue' = Append(gwQueue, c)
     \/ ~gw.lnOpen /\ ToState(c, "serving", "closed") /\ UNCHANGED gwQueue
  /\ UNCHANGED <<gw, gwStart, gwStop>>

StartUnchecked ==  \* mutant of StartCheck: Accept alone tells that the proxy is closed
  /\ gwStart.pc = "check"
  /\ gwStart' = [gwStart EXCEPT !.pc = "accept"]
  /\ UNCHANGED <<gw, gwStop, gwQueue, gwState>>
StartCheck ==
  /\ gwStart.pc = "check"
  /\ gwStart' = [gwStart EXCEPT !.pc = IF gw.closed THEN "returned" ELSE "accept"]
  /\ UNCHANGED <<gw, gwStop, gwQueue, gwState>>
\* A closed TCP listener returns only errors; the select of the WebSocket
\* listener may still return a connection.
Accept ==
  /\ gwStart.pc = "accept"
  /\ gw.lnOpen \/ gw.kind = "ws"
  /\ gwQueue # <<>>
  /\ gwQueue' = Tail(gwQueue)
  /\ gwStart' = [pc |-> "add", client |-> {Head(gwQueue)}]
  /\ gwState' = [gwState EXCEPT ![Head(gwQueue)] = "accepted"]
  /\ UNCHANGED <<gw, gwStop>>
\* Start returns the first error of Accept, whatever it is.
AcceptFails ==
  /\ gwStart.pc = "accept"
  /\ ~gw.lnOpen \/ gw.kind = "tcp"
  /\ gwStart' = [gwStart EXCEPT !.pc = "returned"]
  /\ UNCHANGED <<gw, gwStop, gwQueue, gwState>>
StartHandler ==
  /\ gwStart.pc = "add"
  /\ gw' = [gw EXCEPT !.active = @ + 1]
  /\ gwState' = [c \in Clients |-> IF c \in gwStart.client THEN "reading" ELSE gwState[c]]
  /\ gwStart' = [pc |-> "check", client |-> {}]
  /\ UNCHANGED <<gwStop, gwQueue>>

\* handleClient: the handshake arrives and is valid, or the goroutine returns.
HandshakeRead(c) ==
  /\ ToState(c, "reading", "handler")
  /\ UNCHANGED <<gw, gwStart, gwStop, gwQueue>>
HandshakeFails(c) ==
  /\ ToState(c, "reading", "closing")
  /\ UNCHANGED <<gw, gwStart, gwStop, gwQueue>>
\* The default handler asserts that the connection has a method Dial, which that
\* of no transport has, and panics; a handler set by SetHandler returns.
defaultHandler(c) ==
  /\ gwState[c] = "handler" /\ ~gw.custom
  /\ gw' = [gw EXCEPT !.crashed = TRUE]
  /\ UNCHANGED <<gwStart, gwStop, gwQueue, gwState>>
HandlerReturns(c) ==
  /\ gw.custom /\ ToState(c, "handler", "closing")
  /\ UNCHANGED <<gw, gwStart, gwStop, gwQueue>>
\* The deferred calls: client.Close, then active.Done.
ClientDoneFirst(c) ==  \* mutant of ClientClose: active.Done comes first
  /\ ToState(c, "closing", "ended")
  /\ gw' = [gw EXCEPT !.active = @ - 1]
  /\ UNCHANGED <<gwStart, gwStop, gwQueue>>
ClientClose(c) ==
  /\ ToState(c, "closing", "ending")
  /\ UNCHANGED <<gw, gwStart, gwStop, gwQueue>>
ClientKept(c) ==  \* mutant of ClientDone: returns without active.Done
  /\ ToState(c, "ending", "closed")
  /\ UNCHANGED <<gw, gwStart, gwStop, gwQueue>>
ClientDone(c) ==
  /\ ToState(c, "ending", "closed")
  /\ gw' = [gw EXCEPT !.active = @ - 1]
  /\ UNCHANGED <<gwStart, gwStop, gwQueue>>

StopStore(q) ==
  /\ gwStop[q] = "idle" /\ gwStop' = [gwStop EXCEPT ![q] = "close"]
  /\ gw' = [gw EXCEPT !.closed = TRUE]
  /\ UNCHANGED <<gwStart, gwQueue, gwState>>
\* Closing a TCP listener drops what it has not returned.  Closing a WebSocket
\* listener leaves what is in connCh; doing it again closes closeCh again.
StopLeavesOpen(q) ==  \* mutant of StopClose: the listener stays open
  /\ gwStop[q] = "close" /\ gwStop' = [gwStop EXCEPT ![q] = "wait"]
  /\ UNCHANGED <<gw, gwStart, gwQueue, gwState>>
StopClose(q) ==
  /\ gwStop[q] = "close" /\ gwStop' = [gwStop EXCEPT ![q] = "wait"]
  /\ gw' = [gw EXCEPT !.lnOpen = FALSE, !.crashed = gw.kind = "ws" /\ ~gw.lnOpen]
  /\ IF gw.kind = "tcp"
     THEN /\ gwState' = Dropped({gwQueue[i] : i \in 1..Len(gwQueue)})
          /\ gwQueue' = <<>>
     ELSE UNCHANGED <<gwQueue, gwState>>
  /\ UNCHANGED gwStart
StopWait(q) ==
  /\ gwStop[q] = "wait" /\ gw.active = 0
  /\ gwStop' = [gwStop EXCEPT ![q] = "done"]
  /\ UNCHANGED <<gw, gwStart, gwQueue, gwState>>

ProxyStep ==   \* of the program itself
  \/ StartCheck \/ Accept \/ AcceptFails \/ StartHandler
  \/ \E q \in Stoppers : StopClose(q) \/ StopWait(q)
  \/ \E c \in Clients : serveWS(c) \/ ClientClose(c) \/ ClientDone(c) \/ defaultHandler(c)
GatewayNext ==
  /\ ~gw.crashed
  /\ \/ ProxyStep
     \/ \E q \in Stoppers : StopStore(q)
     \/ \E c \in Clients :
          Connect(c) \/ HandshakeRead(c) \/ HandshakeFails(c) \/ HandlerReturns(c)

ProxySpec == GatewayInit /\ [][GatewayNext]_GatewayVars
-----------------------------------------------------------------------------
HasGoroutine(c) == gwState[c] \in {"reading", "handler", "closing", "ending"}

\* When a call of Stop has returned, at most one client is still served: that
\* which Accept returned before active.Wait (proxy.go:50-74, ws.go:151-158).
OneOutlivesStop ==
  (\E q \in Stoppers : gwStop[q] = "done") =>
    Cardinality({c \in Clients : gwState[c] = "accepted" \/ HasGoroutine(c)}) <= 1

\* Over TCP, when Start and Stop have returned and nobody is served any more,
\* every connection is closed (proxy.go:70-78).
NothingLeftOpen ==
  gw.kind = "tcp" /\ ~gw.lnOpen /\ gwStart.pc = "returned" /\ gw.active = 0 =>
    \A c \in Clients : gwState[c] \in {"none", "closed"}

\* A call of Stop makes Start return, although Start may be in Accept, and
\* returns itself if no client stays silent or in its handler for ever; a second
\* Stop over WebSocket and the default handler may end the program
\* (proxy.go:50-74).
StopsStart == (\E q \in Stoppers : gwStop[q] # "idle") ~> gwStart.pc = "returned" \/ gw.crashed
StopReturns ==
  <>[](\A c \in Clients : gwState[c] \notin {"reading", "handler"}) =>
    \A q \in Stoppers : gwStop[q] # "idle" ~> gwStop[q] = "done" \/ gw.crashed
=============================================================================
