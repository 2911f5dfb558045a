--------------------------- MODULE GatewayProofs ---------------------------
(***************************************************************************)
(* Proofs about Gateway, Dial and Generator: how many clients a proxy may  *)
(* still serve when Stop has returned and which of them are still open,    *)
(* for any number of clients, of callers of Stop and any capacity of       *)
(* connCh; what a Dial leaves open and what a SOCKS5 negotiation reads;    *)
(* what the packet generator generates from a cache that other runs write  *)
(* too.                                                                    *)
(***************************************************************************)
EXTENDS Gateway, Dial, Generator, FiniteSetTheorems, SequenceTheorems,
        WellFoundedInduction, TLAPS

Serving == {c \in Clients : HasGoroutine(c)}

GatewayTypeOK ==
  /\ gw \in [kind: {"tcp", "ws"}, custom: BOOLEAN, closed: BOOLEAN, lnOpen: BOOLEAN,
             active: Int, crashed: BOOLEAN]
  /\ gwStart \in [pc: {"check", "accept", "add", "returned"}, client: SUBSET Clients]
  /\ gwStop \in [Stoppers -> {"idle", "close", "wait", "done"}]
  /\ gwQueue \in Seq(Clients)
  /\ gwState \in [Clients -> {"none", "serving", "queued", "accepted", "reading", "handler",
                              "closing", "ending", "closed"}]

\* A client is in the queue once, and only while nobody has accepted it.
QueueOK ==
  /\ \A i \in 1..Len(gwQueue) : gwState[gwQueue[i]] = "queued"
  /\ \A i, j \in 1..Len(gwQueue) : gwQueue[i] = gwQueue[j] => i = j
\* Start holds the one client that is accepted and has no goroutine yet.
StartOK ==
  /\ gwStart.pc # "add" => gwStart.client = {}
  /\ gwStart.pc = "add" => \E c \in Clients : gwStart.client = {c} /\ gwState[c] = "accepted"
  /\ \A c \in Clients : gwState[c] = "accepted" => c \in gwStart.client
\* A call of Stop that has begun has set the flag.
FlagOK == \A q \in Stoppers : gwStop[q] # "idle" => gw.closed
\* The WaitGroup counts the goroutines.
CountOK == gw.active = Cardinality(Serving)
\* Once a call of Stop has returned, Start can serve one more client, and only
\* until it looks at the flag again.
LastOK ==
  (\E q \in Stoppers : gwStop[q] = "done") =>
    /\ gwStart.pc \in {"accept", "add"} => Serving = {}
    /\ \A c, d \in Serving : c = d

ShapeInv == GatewayTypeOK /\ QueueOK /\ StartOK /\ FlagOK
ServingInv == ShapeInv /\ CountOK /\ LastOK

\* Every step keeps the types.
LEMMA GatewayTypeStep ==
  ASSUME GatewayTypeOK, [GatewayNext]_GatewayVars
  PROVE  GatewayTypeOK'
<1> USE DEF GatewayTypeOK, ToState
<1>1. ASSUME NEW c \in Clients, Connect(c) \/ serveWS(c) PROVE GatewayTypeOK'
  <2>1. Append(gwQueue, c) \in Seq(Clients)
    BY AppendProperties
  <2> QED
    BY <1>1, <2>1 DEF Connect, serveWS
<1>2. CASE StartCheck \/ AcceptFails
  BY <1>2 DEF StartCheck, AcceptFails
<1>8. CASE StartHandler
  BY <1>8 DEF StartHandler
<1>3. CASE Accept
  <2>1. Head(gwQueue) \in Clients /\ Tail(gwQueue) \in Seq(Clients)
    BY <1>3, HeadTailProperties DEF Accept
  <2> QED
    BY <1>3, <2>1 DEF Accept
<1>4. ASSUME NEW c \in Clients,
             HandshakeRead(c) \/ HandshakeFails(c) \/ HandlerReturns(c) \/ ClientClose(c)
      PROVE  GatewayTypeOK'
  BY <1>4 DEF HandshakeRead, HandshakeFails, HandlerReturns, ClientClose
<1>9. ASSUME NEW c \in Clients, defaultHandler(c) PROVE GatewayTypeOK'
  BY <1>9 DEF defaultHandler
<1>10. ASSUME NEW c \in Clients, ClientDone(c) PROVE GatewayTypeOK'
  BY <1>10 DEF ClientDone
<1>5. ASSUME NEW q \in Stoppers, StopStore(q) \/ StopWait(q) PROVE GatewayTypeOK'
  BY <1>5 DEF StopStore, StopWait
<1>6. ASSUME NEW q \in Stoppers, StopClose(q) PROVE GatewayTypeOK'
  <2> DEFINE again == gw.kind = "ws" /\ ~gw.lnOpen
  <2>1. again \in BOOLEAN
    OBVIOUS
  <2>2. gw' = [gw EXCEPT !.lnOpen = FALSE, !.crashed = again]
    BY <1>6 DEF StopClose
  <2> HIDE DEF again
  <2>3. gw' \in [kind: {"tcp", "ws"}, custom: BOOLEAN, closed: BOOLEAN, lnOpen: BOOLEAN,
                 active: Int, crashed: BOOLEAN]
    BY <2>1, <2>2
  <2>4. gwQueue' \in Seq(Clients)
    <3>1. gwQueue' = <<>> \/ gwQueue' = gwQueue
      BY <1>6 DEF StopClose
    <3>2. <<>> \in Seq(Clients)
      BY EmptySeq
    <3> QED
      BY <3>1, <3>2
  <2>5. gwState' = gwState \/ \E cs : gwState' = Dropped(cs)
    BY <1>6, Zenon DEF StopClose
  <2>6. gwState' \in [Clients -> {"none", "serving", "queued", "accepted", "reading", "handler",
                                 "closing", "ending", "closed"}]
    BY <2>5 DEF Dropped
  <2> QED
    BY <1>6, <2>3, <2>4, <2>6 DEF StopClose
<1>7. CASE UNCHANGED GatewayVars
  BY <1>7 DEF GatewayVars
<1> QED
  BY <1>1, <1>2, <1>3, <1>4, <1>5, <1>6, <1>7, <1>8, <1>9, <1>10 DEF GatewayNext, ProxyStep

\* Every step keeps the queue, the client that Start holds and the flag in order.
LEMMA ShapeStep ==
  ASSUME ShapeInv, [GatewayNext]_GatewayVars
  PROVE  ShapeInv'
<1> USE DEF ShapeInv, GatewayTypeOK, ToState
<1>0. GatewayTypeOK'
  BY GatewayTypeStep
<1>1. ASSUME NEW c \in Clients, gwState[c] # "queued", gwState[c] # "accepted",
             NEW to, ToState(c, gwState[c], to), to # "accepted",
             UNCHANGED <<gwStart, gwStop, gw.closed>>,
             \/ to # "queued" /\ UNCHANGED gwQueue
             \/ to = "queued" /\ gwQueue' = Append(gwQueue, c)
      PROVE  (QueueOK /\ StartOK /\ FlagOK)'
  <2>1. StartOK' /\ FlagOK'
    BY <1>1 DEF StartOK, FlagOK
  <2>2. CASE UNCHANGED gwQueue
    BY <1>1, <2>1, <2>2 DEF QueueOK
  <2>3. CASE gwQueue' = Append(gwQueue, c) /\ to = "queued"
    <3>1. /\ Len(gwQueue') = Len(gwQueue) + 1 /\ gwQueue'[Len(gwQueue) + 1] = c
          /\ \A i \in 1..Len(gwQueue) : gwQueue'[i] = gwQueue[i] /\ gwQueue[i] \in Clients
      BY <2>3, AppendProperties
    <3> QED
      BY <1>1, <2>1, <2>3, <3>1 DEF QueueOK
  <2> QED
    BY <1>1, <2>2, <2>3
<1>2. ASSUME NEW c \in Clients,
             \/ Connect(c) \/ serveWS(c) \/ HandshakeRead(c) \/ HandshakeFails(c)
             \/ HandlerReturns(c) \/ ClientClose(c) \/ ClientDone(c)
      PROVE  (QueueOK /\ StartOK /\ FlagOK)'
  BY <1>1, <1>2 DEF Connect, serveWS, HandshakeRead, HandshakeFails, HandlerReturns,
                    ClientClose, ClientDone
<1>3. ASSUME NEW c \in Clients, defaultHandler(c) PROVE (QueueOK /\ StartOK /\ FlagOK)'
  BY <1>3 DEF defaultHandler, QueueOK, StartOK, FlagOK
<1>4. CASE StartCheck \/ AcceptFails
  BY <1>4 DEF StartCheck, AcceptFails, QueueOK, StartOK, FlagOK
<1>5. CASE Accept
  <2> DEFINE h == Head(gwQueue)
  <2>1. /\ h \in Clients /\ h = gwQueue[1] /\ Len(gwQueue) \in Nat /\ Len(gwQueue) >= 1
        /\ Len(gwQueue') = Len(gwQueue) - 1
        /\ \A i \in 1..Len(gwQueue') : gwQueue'[i] = gwQueue[i + 1] /\ gwQueue'[i] \in Clients
    BY <1>5, HeadTailProperties, ElementOfSeq DEF Accept
  <2>2. QueueOK'
    BY <1>5, <2>1 DEF Accept, QueueOK
  <2>3. StartOK' /\ FlagOK'
    BY <1>5, <2>1 DEF Accept, StartOK, FlagOK
  <2> QED
    BY <1>0, <2>2, <2>3
<1>6. CASE StartHandler
  <2>1. QueueOK'
    BY <1>6, ElementOfSeq DEF StartHandler, QueueOK, StartOK
  <2> QED
    BY <1>6, <2>1 DEF StartHandler, StartOK, FlagOK
<1>7. ASSUME NEW q \in Stoppers, StopStore(q) \/ StopWait(q)
      PROVE  (QueueOK /\ StartOK /\ FlagOK)'
  BY <1>7 DEF StopStore, StopWait, QueueOK, StartOK, FlagOK
<1>8. ASSUME NEW q \in Stoppers, StopClose(q) PROVE (QueueOK /\ StartOK /\ FlagOK)'
  <2>1. FlagOK'
    BY <1>8 DEF StopClose, FlagOK
  <2>2. CASE gw.kind = "tcp"
    <3>1. gwQueue' = <<>> /\ Len(gwQueue') = 0
      BY <1>8, <2>2 DEF StopClose
    <3>2. QueueOK'
      BY <3>1 DEF QueueOK
    <3>3. \A c \in Clients : gwState[c] = "accepted" <=> gwState'[c] = "accepted"
      BY <1>8, <2>2 DEF StopClose, Dropped, QueueOK
    <3>4. StartOK'
      BY <1>0, <1>8, <3>3 DEF StopClose, StartOK
    <3> QED
      BY <2>1, <3>2, <3>4
  <2>3. CASE gw.kind # "tcp"
    BY <1>8, <2>1, <2>3 DEF StopClose, QueueOK, StartOK
  <2> QED
    BY <2>2, <2>3
<1>9. CASE UNCHANGED GatewayVars
  BY <1>9 DEF GatewayVars, QueueOK, StartOK, FlagOK
<1> QED
  BY <1>0, <1>2, <1>3, <1>4, <1>5, <1>6, <1>7, <1>8, <1>9 DEF GatewayNext, ProxyStep

\* What a step does to the clients that are served and to the WaitGroup: only the
\* goroutine in Start adds one, and only when it holds a client.
LEMMA ServingStep ==
  ASSUME ShapeInv, [GatewayNext]_GatewayVars
  PROVE  \/ Serving' = Serving /\ gw'.active = gw.active
         \/ \E c \in Clients \ Serving :
              /\ gwStart.pc = "add" /\ gwStart'.pc = "check" /\ gwStop' = gwStop
              /\ Serving' = Serving \cup {c} /\ gw'.active = gw.active + 1
         \/ \E c \in Serving :
              /\ gwStart' = gwStart /\ gwStop' = gwStop
              /\ Serving' = Serving \ {c} /\ gw'.active = gw.active - 1
<1> USE DEF ShapeInv, GatewayTypeOK, ToState, Serving, HasGoroutine
<1>1. ASSUME NEW c \in Clients,
             \/ Connect(c) \/ serveWS(c) \/ HandshakeRead(c) \/ HandshakeFails(c)
             \/ HandlerReturns(c) \/ ClientClose(c) \/ defaultHandler(c)
      PROVE  Serving' = Serving /\ gw'.active = gw.active
  BY <1>1 DEF Connect, serveWS, HandshakeRead, HandshakeFails, HandlerReturns, ClientClose,
              defaultHandler
<1>2. ASSUME NEW c \in Clients, ClientDone(c)
      PROVE  /\ c \in Serving /\ gwStart' = gwStart /\ gwStop' = gwStop
             /\ Serving' = Serving \ {c} /\ gw'.active = gw.active - 1
  BY <1>2 DEF ClientDone
<1>3. CASE StartCheck \/ AcceptFails
  BY <1>3 DEF StartCheck, AcceptFails
<1>4. CASE Accept
  <2>1. Head(gwQueue) \in Clients /\ gwState[Head(gwQueue)] = "queued"
    BY <1>4, HeadTailProperties, LenProperties DEF Accept, QueueOK
  <2> QED
    BY <1>4, <2>1 DEF Accept
<1>5. CASE StartHandler
  <2>1. PICK c \in Clients : gwStart.client = {c} /\ gwState[c] = "accepted"
    BY <1>5 DEF StartHandler, StartOK
  <2>2. c \notin Serving /\ Serving' = Serving \cup {c}
    BY <1>5, <2>1 DEF StartHandler
  <2>3. gw'.active = gw.active + 1 /\ gwStart'.pc = "check" /\ gwStop' = gwStop
    BY <1>5 DEF StartHandler
  <2> QED
    BY <1>5, <2>2, <2>3 DEF StartHandler
<1>6. ASSUME NEW q \in Stoppers, StopStore(q) \/ StopWait(q)
      PROVE  Serving' = Serving /\ gw'.active = gw.active
  BY <1>6 DEF StopStore, StopWait
<1>7. ASSUME NEW q \in Stoppers, StopClose(q)
      PROVE  Serving' = Serving /\ gw'.active = gw.active
  <2>1. gw'.active = gw.active
    BY <1>7 DEF StopClose
  <2>2. ASSUME NEW c \in Clients PROVE HasGoroutine(c) <=> HasGoroutine(c)'
    <3>1. CASE gw.kind = "tcp"
      <4> DEFINE queued == {gwQueue[i] : i \in 1..Len(gwQueue)}
      <4>1. gwState'[c] = IF c \in queued THEN "closed" ELSE gwState[c]
        BY <1>7, <3>1 DEF StopClose, Dropped
      <4>2. c \in queued => gwState[c] = "queued"
        BY DEF QueueOK
      <4> QED
        BY <4>1, <4>2
    <3>2. CASE gw.kind # "tcp"
      BY <1>7, <3>2 DEF StopClose
    <3> QED
      BY <3>1, <3>2
  <2> QED
    BY <2>1, <2>2
<1>8. CASE UNCHANGED GatewayVars
  BY <1>8 DEF GatewayVars
<1> QED
  BY <1>1, <1>2, <1>3, <1>4, <1>5, <1>6, <1>7, <1>8, Zenon DEF GatewayNext, ProxyStep

\* Every step keeps the WaitGroup equal to the number of goroutines.
LEMMA CountStep ==
  ASSUME IsFiniteSet(Clients), ShapeInv, CountOK, [GatewayNext]_GatewayVars
  PROVE  CountOK'
<1>1. IsFiniteSet(Serving)
  BY FS_Subset DEF Serving
<1>2. Cardinality(Serving) \in Nat
  BY <1>1, FS_CardinalityType
<1>3. CASE Serving' = Serving /\ gw'.active = gw.active
  BY <1>3 DEF CountOK
<1>4. ASSUME NEW c \in Clients \ Serving, Serving' = Serving \cup {c},
             gw'.active = gw.active + 1
      PROVE  CountOK'
  BY <1>1, <1>4, FS_AddElement DEF CountOK
<1>5. ASSUME NEW c \in Serving, Serving' = Serving \ {c}, gw'.active = gw.active - 1
      PROVE  CountOK'
  BY <1>1, <1>5, FS_RemoveElement DEF CountOK
<1> QED
  BY <1>3, <1>4, <1>5, ServingStep

\* Every step keeps LastOK: Stop returns when nobody is served, and Start, which
\* may be past its look at the flag, accepts once more at most.
LEMMA LastStep ==
  ASSUME IsFiniteSet(Clients), ShapeInv, CountOK, LastOK, [GatewayNext]_GatewayVars
  PROVE  LastOK'
<1> SUFFICES ASSUME NEW q \in Stoppers, gwStop'[q] = "done" PROVE LastOK'
  BY DEF LastOK
<1>1. CASE gwStop[q] # "done"
  <2>1. StopWait(q)
    BY <1>1 DEF GatewayNext, ProxyStep, GatewayVars, Connect, serveWS, StartCheck, Accept,
      AcceptFails, StartHandler, HandshakeRead, HandshakeFails, defaultHandler,
      HandlerReturns, ClientClose, ClientDone, StopStore, StopClose, StopWait, ShapeInv,
      GatewayTypeOK
  <2>2. Cardinality(Serving) = 0
    BY <2>1 DEF StopWait, CountOK
  <2>3. Serving = {}
    BY <2>2, FS_Subset, FS_EmptySet DEF Serving
  <2>4. Serving' = Serving
    BY <2>1 DEF StopWait, Serving, HasGoroutine
  <2> QED
    BY <2>3, <2>4 DEF LastOK
<1>2. CASE gwStop[q] = "done"
  <2>1. /\ gwStart.pc \in {"accept", "add"} => Serving = {}
        /\ \A c, d \in Serving : c = d
    BY <1>2 DEF LastOK
  <2>2. gw.closed
    BY <1>2 DEF ShapeInv, FlagOK
  <2>3. gwStart'.pc \in {"accept", "add"} => gwStart.pc \in {"accept", "add"}
    BY <2>2 DEF GatewayNext, ProxyStep, GatewayVars, Connect, serveWS, StartCheck, Accept,
      AcceptFails, StartHandler, HandshakeRead, HandshakeFails, defaultHandler,
      HandlerReturns, ClientClose, ClientDone, StopStore, StopClose, StopWait, ShapeInv,
      GatewayTypeOK
  <2>4. CASE Serving' = Serving
    BY <2>1, <2>3, <2>4 DEF LastOK
  <2>5. ASSUME NEW c \in Clients, gwStart.pc = "add", gwStart'.pc = "check",
               Serving' = Serving \cup {c}
        PROVE  LastOK'
    BY <2>1, <2>5 DEF LastOK
  <2>6. ASSUME NEW c \in Serving, gwStart' = gwStart, Serving' = Serving \ {c}
        PROVE  LastOK'
    BY <2>1, <2>6 DEF LastOK
  <2> QED
    BY <2>4, <2>5, <2>6, ServingStep
<1> QED
  BY <1>1, <1>2

\* In the initial state nobody is served.
LEMMA ServingInit ==
  ASSUME GatewayInit
  PROVE  ServingInv
<1>1. GatewayTypeOK
  <2>1. gw \in [kind: {"tcp", "ws"}, custom: BOOLEAN, closed: BOOLEAN, lnOpen: BOOLEAN,
                active: Int, crashed: BOOLEAN]
    <3>1. {FALSE} \subseteq BOOLEAN /\ {TRUE} \subseteq BOOLEAN /\ {0} \subseteq Int
      OBVIOUS
    <3> QED
      BY <3>1, Zenon DEF GatewayInit
  <2> QED
    BY <2>1, EmptySeq DEF GatewayInit, GatewayTypeOK
<1>2. QueueOK /\ StartOK /\ FlagOK
  BY DEF GatewayInit, QueueOK, StartOK, FlagOK
<1>3. Serving = {} /\ gw.active = 0
  BY DEF GatewayInit, Serving, HasGoroutine
<1>4. CountOK /\ LastOK
  BY <1>3, FS_EmptySet DEF CountOK, LastOK
<1> QED
  BY <1>1, <1>2, <1>4 DEF ServingInv, ShapeInv

\* The invariant gives the bound: a client that Start holds and one that is served
\* exclude each other.
LEMMA ServingBound ==
  ASSUME ServingInv
  PROVE  OneOutlivesStop
<1> DEFINE S == {c \in Clients : gwState[c] = "accepted" \/ HasGoroutine(c)}
<1> SUFFICES ASSUME \E q \in Stoppers : gwStop[q] = "done" PROVE Cardinality(S) <= 1
  BY DEF OneOutlivesStop
<1>1. \A c, d \in S : c = d
  BY DEF ServingInv, ShapeInv, StartOK, LastOK, Serving
<1>2. CASE S = {}
  BY <1>2, FS_EmptySet
<1>3. CASE S # {}
  <2>1. PICK c \in S : S = {c}
    BY <1>1, <1>3
  <2>2. Cardinality({c}) = 1
    BY FS_Singleton
  <2> QED
    BY <2>1, <2>2
<1> QED
  BY <1>2, <1>3

\* When a call of Stop has returned, at most one client is still served, however
\* many clients there are and whoever else calls Stop: active.Wait waits for all
\* but the one that Accept returned before active.Add (proxy.go:50-74).
THEOREM StopLeavesOne == IsFiniteSet(Clients) /\ ProxySpec => []OneOutlivesStop
<1> SUFFICES ASSUME IsFiniteSet(Clients) PROVE ProxySpec => []OneOutlivesStop
  OBVIOUS
<1>1. GatewayInit => ServingInv
  BY ServingInit
<1>2. ServingInv /\ [GatewayNext]_GatewayVars => ServingInv'
  BY ShapeStep, CountStep, LastStep DEF ServingInv
<1>3. ServingInv => OneOutlivesStop
  BY ServingBound
<1> QED
  BY <1>1, <1>2, <1>3, PTL DEF ProxySpec

-----------------------------------------------------------------------------
\* Over TCP a connection that nobody has accepted is in the queue of the listener,
\* and closing the listener empties the queue.
TcpOK ==
  gw.kind = "tcp" =>
    /\ \A c \in Clients : gwState[c] # "serving"
    /\ \A c \in Clients : gwState[c] = "queued" => \E i \in 1..Len(gwQueue) : gwQueue[i] = c
    /\ ~gw.lnOpen => gwQueue = <<>>

\* As long as the proxy is a TCP one, its clients stay counted and are closed.
LEMMA TcpStep ==
  ASSUME ShapeInv, TcpOK, [GatewayNext]_GatewayVars
  PROVE  TcpOK'
<1>0. /\ gw \in [kind: {"tcp", "ws"}, custom: BOOLEAN, closed: BOOLEAN, lnOpen: BOOLEAN,
                 active: Int, crashed: BOOLEAN]
      /\ gwQueue \in Seq(Clients) /\ Len(gwQueue) \in Nat
      /\ gwState \in [Clients -> {"none", "serving", "queued", "accepted", "reading", "handler",
                                  "closing", "ending", "closed"}]
  BY LenProperties DEF ShapeInv, GatewayTypeOK
<1>k. gw'.kind = gw.kind
  BY <1>0 DEF GatewayNext, ProxyStep, GatewayVars, StartCheck, Accept, AcceptFails, StartHandler,
     StopClose, StopWait, StopStore, serveWS, ClientClose, ClientDone, defaultHandler, Connect,
     HandshakeRead, HandshakeFails, HandlerReturns
<1> SUFFICES ASSUME gw.kind = "tcp"
             PROVE  /\ \A c \in Clients : gwState'[c] # "serving"
                    /\ \A c \in Clients : gwState'[c] = "queued" =>
                         \E i \in 1..Len(gwQueue') : gwQueue'[i] = c
                    /\ ~gw'.lnOpen => gwQueue' = <<>>
  BY <1>k DEF TcpOK
<1> DEFINE Goal == /\ \A c \in Clients : gwState'[c] # "serving"
                   /\ \A c \in Clients : gwState'[c] = "queued" =>
                        \E i \in 1..Len(gwQueue') : gwQueue'[i] = c
                   /\ ~gw'.lnOpen => gwQueue' = <<>>
<1>1. /\ \A c \in Clients : gwState[c] # "serving"
      /\ \A c \in Clients : gwState[c] = "queued" => \E i \in 1..Len(gwQueue) : gwQueue[i] = c
      /\ ~gw.lnOpen => gwQueue = <<>>
  BY DEF TcpOK
\* A step that leaves the queue and the listener alone.
<1>2. ASSUME UNCHANGED gwQueue, gw'.lnOpen = gw.lnOpen,
             \A c \in Clients : gwState'[c] = gwState[c] \/ gwState'[c] \notin {"serving", "queued"}
      PROVE  Goal
  BY <1>1, <1>2
<1>3. ASSUME NEW c \in Clients, Connect(c) PROVE Goal
  <2> DEFINE s == Append(gwQueue, c)
  <2>1. gw.lnOpen /\ gw' = gw /\ gwState' = [gwState EXCEPT ![c] = "queued"] /\ gwQueue' = s
    BY <1>3 DEF Connect, ToState
  <2>2. /\ Len(s) = Len(gwQueue) + 1 /\ s[Len(gwQueue) + 1] = c
        /\ \A i \in 1..Len(gwQueue) : s[i] = gwQueue[i]
    BY <1>0, AppendProperties
  <2> HIDE DEF s
  <2>3. /\ 1..Len(gwQueue) \subseteq 1..Len(s) /\ Len(gwQueue) + 1 \in 1..Len(s)
    BY <1>0, <2>2
  <2>4. \A d \in Clients : gwState'[d] = IF d = c THEN "queued" ELSE gwState[d]
    BY <1>0, <2>1
  <2>5. \A d \in Clients : gwState'[d] = "queued" => \E i \in 1..Len(s) : s[i] = d
    BY <1>1, <2>2, <2>3, <2>4
  <2> QED
    BY <1>1, <2>1, <2>4, <2>5
<1>4. ASSUME NEW c \in Clients, serveWS(c) PROVE Goal
  BY <1>1, <1>4 DEF serveWS, ToState
<1>5. CASE Accept
  <2> DEFINE h == Head(gwQueue)
             t == Tail(gwQueue)
  <2>1. /\ gwQueue # <<>> /\ gwQueue' = t /\ gwState' = [gwState EXCEPT ![h] = "accepted"]
        /\ gw' = gw /\ gw.lnOpen
    BY <1>1, <1>5 DEF Accept
  <2>2. /\ h \in Clients /\ h = gwQueue[1] /\ Len(t) = Len(gwQueue) - 1
        /\ \A i \in 1..Len(t) : t[i] = gwQueue[i + 1]
    BY <1>0, <2>1, HeadTailProperties
  <2> HIDE DEF h, t
  <2>3. \A d \in Clients : gwState'[d] = IF d = h THEN "accepted" ELSE gwState[d]
    BY <1>0, <2>1
  <2>4. ASSUME NEW d \in Clients, gwState'[d] = "queued" PROVE \E i \in 1..Len(t) : t[i] = d
    <3>1. d # h /\ gwState[d] = "queued"
      BY <2>3, <2>4
    <3>2. PICK i \in 1..Len(gwQueue) : gwQueue[i] = d
      BY <1>1, <3>1
    <3> DEFINE j == i - 1
    <3>3. i # 1
      BY <2>2, <3>1, <3>2
    <3>4. j \in 1..Len(t) /\ j + 1 = i
      BY <1>0, <2>2, <3>3
    <3> HIDE DEF j
    <3>5. t[j] = d
      BY <2>2, <3>2, <3>4
    <3> QED
      BY <3>4, <3>5
  <2> QED
    BY <1>1, <2>1, <2>3, <2>4
<1>6. CASE StartCheck \/ AcceptFails
  BY <1>2, <1>6 DEF StartCheck, AcceptFails
<1>7. CASE StartHandler
  <2>1. /\ UNCHANGED gwQueue /\ gw'.lnOpen = gw.lnOpen
        /\ \A c \in Clients : gwState'[c] = gwState[c] \/ gwState'[c] = "reading"
    BY <1>0, <1>7 DEF StartHandler
  <2> QED
    BY <1>2, <2>1
<1>8. ASSUME NEW c \in Clients,
             \/ HandshakeRead(c) \/ HandshakeFails(c) \/ HandlerReturns(c) \/ ClientClose(c)
             \/ defaultHandler(c) \/ ClientDone(c)
      PROVE  Goal
  <2>1. /\ UNCHANGED gwQueue /\ gw'.lnOpen = gw.lnOpen
        /\ \E to \in {"handler", "closing", "ending", "closed"} :
             gwState' = gwState \/ gwState' = [gwState EXCEPT ![c] = to]
    BY <1>0, <1>8 DEF HandshakeRead, HandshakeFails, HandlerReturns, ClientClose, ClientDone,
       defaultHandler, ToState
  <2>2. \A d \in Clients : gwState'[d] = gwState[d] \/ gwState'[d] \notin {"serving", "queued"}
    BY <1>0, <2>1
  <2> QED
    BY <1>2, <2>1, <2>2
<1>9. ASSUME NEW q \in Stoppers, StopStore(q) \/ StopWait(q) PROVE Goal
  <2>1. UNCHANGED <<gwQueue, gwState>> /\ gw'.lnOpen = gw.lnOpen
    BY <1>0, <1>9 DEF StopStore, StopWait
  <2> QED
    BY <1>2, <2>1
<1>10. ASSUME NEW q \in Stoppers, StopClose(q) PROVE Goal
  <2>1. gwQueue' = <<>> /\ gwState' = Dropped({gwQueue[i] : i \in 1..Len(gwQueue)})
    BY <1>10 DEF StopClose
  <2>2. \A c \in Clients : gwState'[c] = "closed" \/ (gwState'[c] = gwState[c]
                             /\ c \notin {gwQueue[i] : i \in 1..Len(gwQueue)})
    BY <2>1 DEF Dropped
  <2> QED
    BY <1>1, <2>1, <2>2
<1>11. CASE UNCHANGED GatewayVars
  BY <1>2, <1>11 DEF GatewayVars
<1> QED
  BY <1>3, <1>4, <1>5, <1>6, <1>7, <1>8, <1>9, <1>10, <1>11 DEF GatewayNext, ProxyStep

\* Over TCP, when Start has returned, the listener is closed and no goroutine is
\* left, every connection is closed, for any number of clients and of callers of
\* Stop (proxy.go:50-78).
THEOREM TcpLeavesNoneOpen == IsFiniteSet(Clients) /\ ProxySpec => []NothingLeftOpen
<1> SUFFICES ASSUME IsFiniteSet(Clients) PROVE ProxySpec => []NothingLeftOpen
  OBVIOUS
<1> DEFINE Inv == ServingInv /\ TcpOK
<1>1. GatewayInit => Inv
  BY ServingInit DEF GatewayInit, TcpOK
<1>2. Inv /\ [GatewayNext]_GatewayVars => Inv'
  BY ShapeStep, CountStep, LastStep, TcpStep DEF ServingInv
<1>3. Inv => NothingLeftOpen
  <2> SUFFICES ASSUME Inv, gw.kind = "tcp", ~gw.lnOpen, gwStart.pc = "returned", gw.active = 0,
                      NEW c \in Clients
               PROVE  gwState[c] \in {"none", "closed"}
    BY DEF NothingLeftOpen
  <2>1. gwState[c] # "accepted"
    BY DEF ServingInv, ShapeInv, StartOK
  <2>2. Serving = {}
    <3>1. IsFiniteSet(Serving)
      BY FS_Subset DEF Serving
    <3>2. Cardinality(Serving) = 0
      BY DEF ServingInv, CountOK
    <3> QED
      BY <3>1, <3>2, FS_EmptySet
  <2>3. ~HasGoroutine(c)
    BY <2>2 DEF Serving
  <2>4. gwState[c] # "serving" /\ gwState[c] # "queued"
    BY EmptySeq DEF TcpOK
  <2>5. gwState[c] \in {"none", "serving", "queued", "accepted", "reading", "handler",
                        "closing", "ending", "closed"}
    BY DEF ServingInv, ShapeInv, GatewayTypeOK
  <2> QED
    BY <2>1, <2>3, <2>4, <2>5 DEF HasGoroutine
<1> QED
  BY <1>1, <1>2, <1>3, PTL DEF ProxySpec

-----------------------------------------------------------------------------
\* What is open before each step of a Dial, and when it has returned a connection.
OpenBefore ==
  [tcp |-> <<{}>>, ws |-> <<{}>>, kcp |-> <<{}>>, tls |-> <<{}, {"tcp"}>>,
   quic |-> <<{}, {}, {"udp"}, {"udp", "quic"}>>, socks5 |-> <<{}, {"tcp"}, {"tcp"}>>]
OpenAfter ==
  [tcp |-> {"tcp"}, ws |-> {"ws"}, kcp |-> {"kcp"}, tls |-> {"tcp", "tls"},
   quic |-> {"udp", "quic", "stream"}, socks5 |-> {"tcp"}]
StepCount == [tcp |-> 1, ws |-> 1, kcp |-> 1, tls |-> 2, quic |-> 4, socks5 |-> 3]
Kinds == {"tcp", "tls", "ws", "kcp", "quic", "socks5"}
Resources == {"tcp", "tls", "ws", "kcp", "udp", "quic", "stream"}

DialOK ==
  /\ dl \in [kind: Kinds, step: Nat, open: SUBSET Resources,
             result: {"none", "conn", "error", "closed"}]
  /\ dl.result = "none" =>
       dl.step \in 1..StepCount[dl.kind] /\ dl.open = OpenBefore[dl.kind][dl.step]
  /\ dl.result = "conn" => dl.open = OpenAfter[dl.kind]
  /\ dl.result = "error" => dl.open = {}
  /\ dl.result = "closed" /\ dl.kind # "quic" => dl.open = {}

\* A step that succeeds leads to what is open before the next one, and one that
\* fails closes what is open.
LEMMA StepTable ==
  ASSUME NEW k \in Kinds, NEW n \in 1..StepCount[k]
  PROVE  /\ Len(DialSteps[k]) = StepCount[k]
         /\ OpenBefore[k][n] \ DialSteps[k][n].closes = {}
         /\ DialSteps[k][n].opens \subseteq Resources
         /\ n = StepCount[k] => OpenBefore[k][n] \cup DialSteps[k][n].opens = OpenAfter[k]
         /\ n # StepCount[k] => OpenBefore[k][n] \cup DialSteps[k][n].opens = OpenBefore[k][n + 1]
         /\ OpenBefore[k][n] \subseteq Resources
<1>1. CASE k = "tcp"
  <2>1. StepCount[k] = 1 /\ OpenAfter[k] = {"tcp"}
    BY <1>1 DEF StepCount, OpenAfter
  <2>2. OpenBefore[k] = <<{}>>
    BY <1>1 DEF OpenBefore
  <2>3. DialSteps[k] = TcpSteps
    BY <1>1 DEF DialSteps
  <2>4. /\ Len(TcpSteps) = 1
        /\ TcpSteps[1].opens = {"tcp"} /\ TcpSteps[1].closes = {}
    BY DEF TcpSteps, Step
  <2>5. n = 1
    BY <2>1
  <2> QED
    BY <2>1, <2>2, <2>3, <2>4, <2>5 DEF Resources
<1>2. CASE k = "ws"
  <2>1. StepCount[k] = 1 /\ OpenAfter[k] = {"ws"}
    BY <1>2 DEF StepCount, OpenAfter
  <2>2. OpenBefore[k] = <<{}>>
    BY <1>2 DEF OpenBefore
  <2>3. DialSteps[k] = WsSteps
    BY <1>2 DEF DialSteps
  <2>4. /\ Len(WsSteps) = 1
        /\ WsSteps[1].opens = {"ws"} /\ WsSteps[1].closes = {}
    BY DEF WsSteps, Step
  <2>5. n = 1
    BY <2>1
  <2> QED
    BY <2>1, <2>2, <2>3, <2>4, <2>5 DEF Resources
<1>3. CASE k = "kcp"
  <2>1. StepCount[k] = 1 /\ OpenAfter[k] = {"kcp"}
    BY <1>3 DEF StepCount, OpenAfter
  <2>2. OpenBefore[k] = <<{}>>
    BY <1>3 DEF OpenBefore
  <2>3. DialSteps[k] = KcpSteps
    BY <1>3 DEF DialSteps
  <2>4. /\ Len(KcpSteps) = 1
        /\ KcpSteps[1].opens = {"kcp"} /\ KcpSteps[1].closes = {}
    BY DEF KcpSteps, Step
  <2>5. n = 1
    BY <2>1
  <2> QED
    BY <2>1, <2>2, <2>3, <2>4, <2>5 DEF Resources
<1>4. CASE k = "tls"
  <2>1. StepCount[k] = 2 /\ OpenAfter[k] = {"tcp", "tls"}
    BY <1>4 DEF StepCount, OpenAfter
  <2>2. OpenBefore[k] = <<{}, {"tcp"}>>
    BY <1>4 DEF OpenBefore
  <2>3. DialSteps[k] = TlsSteps
    BY <1>4 DEF DialSteps
  <2>4. /\ Len(TlsSteps) = 2
        /\ TlsSteps[1].opens = {"tcp"} /\ TlsSteps[1].closes = {}
        /\ TlsSteps[2].opens = {"tls"} /\ TlsSteps[2].closes = {"tcp"}
    BY DEF TlsSteps, Step
  <2>5. n = 1 \/ n = 2
    BY <2>1
  <2>6. CASE n = 1
    BY <2>1, <2>2, <2>3, <2>4, <2>6 DEF Resources
  <2>7. CASE n = 2
    BY <2>1, <2>2, <2>3, <2>4, <2>7 DEF Resources
  <2> QED
    BY <2>5, <2>6, <2>7
<1>5. CASE k = "quic"
  <2>1. StepCount[k] = 4 /\ OpenAfter[k] = {"udp", "quic", "stream"}
    BY <1>5 DEF StepCount, OpenAfter
  <2>2. OpenBefore[k] = <<{}, {}, {"udp"}, {"udp", "quic"}>>
    BY <1>5 DEF OpenBefore
  <2>3. DialSteps[k] = QuicSteps
    BY <1>5 DEF DialSteps
  <2>4. /\ Len(QuicSteps) = 4
        /\ QuicSteps[1].opens = {} /\ QuicSteps[1].closes = {}
        /\ QuicSteps[2].opens = {"udp"} /\ QuicSteps[2].closes = {}
        /\ QuicSteps[3].opens = {"quic"} /\ QuicSteps[3].closes = {"udp"}
        /\ QuicSteps[4].opens = {"stream"} /\ QuicSteps[4].closes = {"quic", "udp"}
    BY DEF QuicSteps, Step
  <2>5. n = 1 \/ n = 2 \/ n = 3 \/ n = 4
    BY <2>1
  <2>6. CASE n = 1
    BY <2>1, <2>2, <2>3, <2>4, <2>6 DEF Resources
  <2>7. CASE n = 2
    BY <2>1, <2>2, <2>3, <2>4, <2>7 DEF Resources
  <2>8. CASE n = 3
    BY <2>1, <2>2, <2>3, <2>4, <2>8 DEF Resources
  <2>9. CASE n = 4
    BY <2>1, <2>2, <2>3, <2>4, <2>9 DEF Resources
  <2> QED
    BY <2>5, <2>6, <2>7, <2>8, <2>9
<1>6. CASE k = "socks5"
  <2>1. StepCount[k] = 3 /\ OpenAfter[k] = {"tcp"}
    BY <1>6 DEF StepCount, OpenAfter
  <2>2. OpenBefore[k] = <<{}, {"tcp"}, {"tcp"}>>
    BY <1>6 DEF OpenBefore
  <2>3. DialSteps[k] = SocksSteps
    BY <1>6 DEF DialSteps
  <2>4. /\ Len(SocksSteps) = 3
        /\ SocksSteps[1].opens = {"tcp"} /\ SocksSteps[1].closes = {}
        /\ SocksSteps[2].opens = {} /\ SocksSteps[2].closes = {"tcp"}
        /\ SocksSteps[3].opens = {} /\ SocksSteps[3].closes = {"tcp"}
    BY DEF SocksSteps, Step
  <2>5. n = 1 \/ n = 2 \/ n = 3
    BY <2>1
  <2>6. CASE n = 1
    BY <2>1, <2>2, <2>3, <2>4, <2>6 DEF Resources
  <2>7. CASE n = 2
    BY <2>1, <2>2, <2>3, <2>4, <2>7 DEF Resources
  <2>8. CASE n = 3
    BY <2>1, <2>2, <2>3, <2>4, <2>8 DEF Resources
  <2> QED
    BY <2>5, <2>6, <2>7, <2>8
<1> QED
  BY <1>1, <1>2, <1>3, <1>4, <1>5, <1>6 DEF Kinds

\* A Dial that fails closes what it has opened.
LEMMA FailsOK ==
  ASSUME DialOK, dl.result = "none", Fails
  PROVE  DialOK'
<1>1. dl.step \in 1..StepCount[dl.kind] /\ dl.kind \in Kinds  BY DEF DialOK
<1>2. dl.open \ DialSteps[dl.kind][dl.step].closes = {}  BY <1>1, StepTable DEF DialOK
<1>3. dl' = [dl EXCEPT !.open = {}, !.result = "error"]  BY <1>2 DEF Fails, Steps
<1> QED  BY <1>3 DEF DialOK

\* A step that succeeds opens what the table says.
LEMMA AdvanceOK ==
  ASSUME DialOK, dl.result = "none", Advance
  PROVE  DialOK'
<1> DEFINE more == dl.open \cup DialSteps[dl.kind][dl.step].opens
<1>1. dl.step \in 1..StepCount[dl.kind] /\ dl.kind \in Kinds  BY DEF DialOK
<1>2. /\ Len(DialSteps[dl.kind]) = StepCount[dl.kind] /\ more \subseteq Resources
      /\ dl.step = StepCount[dl.kind] => more = OpenAfter[dl.kind]
      /\ dl.step # StepCount[dl.kind] => more = OpenBefore[dl.kind][dl.step + 1]
  BY <1>1, StepTable DEF DialOK
<1>3. StepCount[dl.kind] \in Nat  BY <1>1 DEF StepCount, Kinds
<1> DEFINE res == IF dl.step = StepCount[dl.kind] THEN "conn" ELSE "none"
<1>4. dl' = [dl EXCEPT !.open = more, !.step = @ + 1, !.result = res]
  BY <1>2 DEF Advance, Steps
<1>r. res \in {"none", "conn", "error", "closed"}  OBVIOUS
<1>t. dl \in [kind: Kinds, step: Nat, open: SUBSET Resources,
              result: {"none", "conn", "error", "closed"}]
  BY DEF DialOK
<1> HIDE DEF more, res
<1>m. more \in SUBSET Resources /\ dl.step + 1 \in Nat  BY <1>2, <1>t
<1>5. /\ dl'.kind = dl.kind /\ dl'.open = more /\ dl'.step = dl.step + 1 /\ dl'.result = res
      /\ dl' \in [kind: Kinds, step: Nat, open: SUBSET Resources,
                  result: {"none", "conn", "error", "closed"}]
  BY <1>4, <1>m, <1>r, <1>t
<1>6. dl.step # StepCount[dl.kind] => dl.step + 1 \in 1..StepCount[dl.kind]  BY <1>1, <1>3
<1> QED  BY <1>1, <1>2, <1>5, <1>6 DEF DialOK, res

\* Every step of a Dial, and Close, keep the set of what is open.
LEMMA DialKeeps == DialOK /\ [DialNext]_DialVars => DialOK'
<1> SUFFICES ASSUME DialOK, [DialNext]_DialVars PROVE DialOK'  OBVIOUS
<1>1. CASE UNCHANGED dl  BY <1>1 DEF DialOK
<1>2. CASE dl.result = "none" /\ (Fails \/ Advance)  BY <1>2, FailsOK, AdvanceOK
<1>3. CASE DialClose
  <2>1. dl' = [dl EXCEPT !.open = @ \ CloseReleases(dl.kind), !.result = "closed"]
        /\ dl.result = "conn"
    BY <1>3 DEF DialClose
  <2>2. dl.kind # "quic" => OpenAfter[dl.kind] \ CloseReleases(dl.kind) = {}
    BY DEF DialOK, Kinds, OpenAfter, CloseReleases
  <2> QED  BY <2>1, <2>2 DEF DialOK
<1>4. CASE DialStep  BY <1>4, <1>2 DEF DialStep
<1>5. CASE Arrive \/ HangUp \/ handshake \/ UNCHANGED DialVars
  BY <1>5, <1>1 DEF Arrive, HangUp, handshake, DialVars
<1>6. CASE SocksReadError  BY <1>6, <1>2 DEF SocksReadError
<1>7. CASE handshakeRead  BY <1>7, <1>1, <1>2 DEF handshakeRead, Arrived, SocksFails
<1>8. CASE passwordAuth  BY <1>8, <1>2 DEF passwordAuth, Arrived, SocksFails
<1>9. CASE request  BY <1>9, <1>1, <1>2 DEF request, Arrived, SocksFails, Await
<1>10. CASE requestDomain  BY <1>10, <1>1 DEF requestDomain, Await
<1>11. CASE requestAddr  BY <1>11, <1>2 DEF requestAddr, Arrived
<1> QED
  BY <1>3, <1>4, <1>5, <1>6, <1>7, <1>8, <1>9, <1>10, <1>11 DEF DialNext

\* A Dial starts with nothing open.
LEMMA DialInitOK == DialInit => DialOK
<1> SUFFICES ASSUME DialInit PROVE DialOK  OBVIOUS
<1>1. dl \in [kind: Kinds, step: {1}, open: {{}}, result: {"none"}]
  BY DEF DialInit, DialSteps, Kinds
<1> QED  BY <1>1, SMTT(30) DEF DialOK, OpenBefore, StepCount, Kinds, Resources

\* Whatever step of a Dial fails, nothing that it opened is left open, and Close of a
\* connection that is not a QUIC one releases all of it (quic.go:60-94, socks5.go:44-61):
\* after any steps of any transport.
THEOREM DialLeavesNothing == DialSpec => []DialReleases
<1>1. DialInit => DialOK  BY DialInitOK
<1>2. DialOK => DialReleases  BY DEF DialOK, DialReleases
<1> QED  BY <1>1, <1>2, DialKeeps, PTL DEF DialSpec
-----------------------------------------------------------------------------
(* The negotiation of the SOCKS5 transport.                                *)

Clean == sxNet.whole /\ (sxPlan.atyp = 3 => sxPlan.dlen < 254)

SocksTypeOK ==
  /\ sx \in [pc: {"idle", "method", "auth", "request", "domain", "addr"}, need: Nat]
  /\ sxNet \in [whole: BOOLEAN, pend: Seq(Nat), in: Seq(Nat), up: BOOLEAN]
  /\ sxPlan \in [method: {0, 2, 255}, auth: {0, 1}, code: {0, 1}, atyp: {1, 3, 4, 9},
                 dlen: 0..255]

\* What is on its way or has arrived is one reply, or the rest of it.
Awaited(reply) ==
  /\ sxNet.in \in {<<>>, reply} /\ sxNet.pend \in {<<>>, reply}
  /\ sxNet.in = <<>> \/ sxNet.pend = <<>>

\* Of a Dial that goes on: the step it is at, and what there is to read.
Negotiates ==
  /\ sx.pc = "idle" => dl.step \in {1, 2} /\ sxNet.in = <<>> /\ sxNet.pend = <<>>
  /\ sx.pc \in {"method", "auth"} => dl.step = 2
  /\ sx.pc \in {"request", "domain", "addr"} =>
       dl.step = 3 /\ (sxPlan.method = 2 => sxPlan.auth = 0)
  /\ sx.pc \in {"method", "auth", "request"} => Awaited(Reply(sx.pc))
  /\ sx.pc = "auth" => sxPlan.method = 2
  /\ sx.pc \in {"domain", "addr"} => sxNet.pend = <<>> /\ sxPlan.code = 0
  /\ sx.pc = "domain" =>
       sxPlan.atyp = 3 /\ sxNet.in = <<sxPlan.dlen>> \o Zeros(sxPlan.dlen + 2)
  /\ sx.pc = "addr" => sx.need > 0 /\ sxNet.in = Zeros(sx.need)

SocksInv ==
  /\ SocksTypeOK
  /\ SocksAligned
  /\ dl.kind = "socks5" /\ dl.result = "none" /\ Clean => Negotiates

\* A sequence of n zeros.
LEMMA ZerosType == ASSUME NEW n \in Nat PROVE Zeros(n) \in Seq(Nat) /\ Len(Zeros(n)) = n
BY DEF Zeros

\* The address of the reply to the request.
Address ==
  CASE sxPlan.atyp = 1 -> Zeros(6) [] sxPlan.atyp = 4 -> Zeros(18)
    [] sxPlan.atyp = 3 -> <<sxPlan.dlen>> \o Zeros(sxPlan.dlen + 2) [] OTHER -> Zeros(2)

\* The replies of a proxy are sequences of bytes.
LEMMA ReplyType ==
  ASSUME SocksTypeOK
  PROVE  /\ Address \in Seq(Nat)
         /\ Reply("method") = <<5, sxPlan.method>>
         /\ Reply("auth") = <<1, sxPlan.auth>>
         /\ Reply("request") = <<5, sxPlan.code, 0, sxPlan.atyp>> \o Address
         /\ \A pc \in {"method", "auth", "request"} : Reply(pc) \in Seq(Nat)
<1>1. Zeros(6) \in Seq(Nat) /\ Zeros(18) \in Seq(Nat) /\ Zeros(2) \in Seq(Nat)  BY ZerosType
<1>p. /\ sxPlan.dlen \in 0..255 /\ sxPlan.atyp \in {1, 3, 4, 9} /\ sxPlan.code \in {0, 1}
      /\ sxPlan.method \in {0, 2, 255} /\ sxPlan.auth \in {0, 1}
  BY DEF SocksTypeOK
<1>2. /\ sxPlan.dlen \in Nat /\ sxPlan.dlen + 2 \in Nat /\ sxPlan.atyp \in Nat
      /\ sxPlan.code \in Nat /\ sxPlan.method \in Nat /\ sxPlan.auth \in Nat
  BY <1>p
<1>3. Zeros(sxPlan.dlen + 2) \in Seq(Nat)  BY <1>2, ZerosType
<1>4. Address \in Seq(Nat)
  <2>1. <<sxPlan.dlen>> \o Zeros(sxPlan.dlen + 2) \in Seq(Nat)  BY <1>2, <1>3
  <2> QED  BY <1>1, <1>p, <2>1 DEF Address
<1>5. /\ Reply("method") = <<5, sxPlan.method>>
      /\ Reply("auth") = <<1, sxPlan.auth>>
      /\ Reply("request") = <<5, sxPlan.code, 0, sxPlan.atyp>> \o Address
  BY DEF Reply, Address
<1>6. Reply("method") \in Seq(Nat) /\ Reply("auth") \in Seq(Nat)
  <2>1. <<5, sxPlan.method>> \in Seq(Nat) /\ <<1, sxPlan.auth>> \in Seq(Nat)  BY <1>2
  <2> QED  BY <1>5, <2>1, Zenon
<1>7. <<5, sxPlan.code, 0, sxPlan.atyp>> \in Seq(Nat)  BY <1>2
<1>8. Reply("request") \in Seq(Nat)
  <2>1. <<5, sxPlan.code, 0, sxPlan.atyp>> \o Address \in Seq(Nat)  BY <1>4, <1>7
  <2> QED  BY <1>5, <2>1, Zenon
<1> QED  BY <1>4, <1>5, <1>6, <1>8

\* A read of as many bytes as the head of what has arrived returns that head.
LEMMA ReadHead ==
  ASSUME SocksTypeOK, NEW h \in Seq(Nat), NEW t \in Seq(Nat), sxNet.in = h \o t
  PROVE  Read(Len(h)) = h /\ Consumed(Len(h)) = [sxNet EXCEPT !.in = t]
<1>1. Len(sxNet.in) = Len(h) + Len(t) /\ Len(h) \in Nat /\ Len(t) \in Nat  OBVIOUS
<1>2. Min({Len(h), Len(sxNet.in)}) = Len(h)  BY <1>1 DEF Min
<1>3. Read(Len(h)) = [i \in 1..Len(h) |-> h[i]]
  <2>1. \A i \in 1..Len(h) : i <= Len(h) /\ sxNet.in[i] = h[i]  BY <1>1
  <2>2. Read(Len(h)) = [i \in 1..Len(h) |-> IF i <= Len(h) THEN sxNet.in[i] ELSE 0]
    BY <1>2 DEF Read
  <2> QED  BY <2>1, <2>2
<1>4. Read(Len(h)) = h  BY <1>3
<1>5. SubSeq(sxNet.in, Len(h) + 1, Len(sxNet.in)) = t
  <2>1. SubSeq(sxNet.in, Len(h) + 1, Len(sxNet.in)) \in Seq(Nat)
        /\ Len(SubSeq(sxNet.in, Len(h) + 1, Len(sxNet.in))) = Len(t)
    BY <1>1
  <2>2. ASSUME NEW i \in 1..Len(t)
        PROVE  SubSeq(sxNet.in, Len(h) + 1, Len(sxNet.in))[i] = t[i]
    BY <1>1
  <2> QED  BY <2>1, <2>2, SeqEqual
<1>6. Consumed(Len(h)) = [sxNet EXCEPT !.in = t]  BY <1>2, <1>5 DEF Consumed
<1> QED  BY <1>4, <1>6

Net == [whole: BOOLEAN, pend: Seq(Nat), in: Seq(Nat), up: BOOLEAN]

\* What remains after a read is again what is on its way.
LEMMA ConsumedType ==
  ASSUME SocksTypeOK, NEW n \in Nat
  PROVE  Consumed(n) \in Net /\ Consumed(n).whole = sxNet.whole /\ \A i \in 1..n : Read(n)[i] \in Nat
<1> DEFINE k == Min({n, Len(sxNet.in)})
<1>1. sxNet \in Net  BY DEF SocksTypeOK, Net
<1>2. sxNet.in \in Seq(Nat) /\ Len(sxNet.in) \in Nat  BY <1>1 DEF Net
<1>3. k \in Nat /\ k <= n /\ k <= Len(sxNet.in)  BY <1>2 DEF Min
<1> HIDE DEF k
<1>4. SubSeq(sxNet.in, k + 1, Len(sxNet.in)) \in Seq(Nat)  BY <1>2, <1>3
<1>5. Consumed(n) = [sxNet EXCEPT !.in = SubSeq(sxNet.in, k + 1, Len(sxNet.in))]
  BY DEF Consumed, k
<1>6. \A i \in 1..n : Read(n)[i] \in Nat
  <2>1. Read(n) = [i \in 1..n |-> IF i <= k THEN sxNet.in[i] ELSE 0]  BY DEF Read, k
  <2>2. \A i \in 1..n : i <= k => sxNet.in[i] \in Nat  BY <1>2, <1>3
  <2> QED  BY <2>1, <2>2
<1> QED  BY <1>1, <1>4, <1>5, <1>6 DEF Net

\* The plan of the proxy, and whether its replies arrive whole, stay as they are.
LEMMA SocksType ==
  ASSUME DialOK, SocksTypeOK, [DialNext]_DialVars
  PROVE  SocksTypeOK' /\ sxPlan' = sxPlan /\ sxNet'.whole = sxNet.whole /\ dl'.kind = dl.kind
<1> DEFINE Good == sx' \in [pc: {"idle", "method", "auth", "request", "domain", "addr"}, need: Nat]
                   /\ sxNet' \in Net /\ sxNet'.whole = sxNet.whole /\ sxPlan' = sxPlan
<1>n. sxNet \in Net  BY DEF SocksTypeOK, Net
<1>s. sx \in [pc: {"idle", "method", "auth", "request", "domain", "addr"}, need: Nat]
  BY DEF SocksTypeOK
<1>r. \A pc \in {"method", "auth", "request"} : Reply(pc) \in Seq(Nat)  BY ReplyType
<1>c. \A n \in Nat : Consumed(n) \in Net /\ Consumed(n).whole = sxNet.whole  BY ConsumedType
<1>d. dl'.kind = dl.kind
  BY DEF DialOK, DialNext, DialVars, DialStep, DialClose, Arrive, HangUp, SocksReadError, handshake,
         handshakeRead, passwordAuth, request, requestDomain, requestAddr, Advance, Fails,
         SocksFails, Await
<1>1. ASSUME UNCHANGED <<sx, sxNet, sxPlan>> PROVE Good  BY <1>1, <1>n, <1>s
<1>2. ASSUME NEW n \in Nat, NEW pc \in {"method", "auth", "request"}, SocksNext(n, pc),
             UNCHANGED sxPlan
      PROVE  Good
  <2>1. sx' = [sx EXCEPT !.pc = pc]  BY <1>2 DEF SocksNext
  <2>2. PICK p \in Seq(Nat) : sxNet' = [Consumed(n) EXCEPT !.pend = p]
    <3>1. Consumed(n).pend \in Seq(Nat) /\ Reply(pc) \in Seq(Nat)  BY <1>c, <1>r DEF Net
    <3>2. Consumed(n).pend \o Reply(pc) \in Seq(Nat)  BY <3>1
    <3> QED  BY <1>2, <3>1, <3>2 DEF SocksNext
  <2>3. Consumed(n) \in Net /\ Consumed(n).whole = sxNet.whole  BY <1>c
  <2>4. sxNet' \in Net /\ sxNet'.whole = sxNet.whole  BY <2>2, <2>3 DEF Net
  <2> QED  BY <1>2, <1>s, <2>1, <2>4
<1>3. ASSUME NEW n \in Nat, SocksFails(n), UNCHANGED sxPlan PROVE Good
  BY <1>3, <1>c, <1>s DEF SocksFails
<1>4. ASSUME NEW n \in Nat, NEW pc \in {"domain", "addr"}, NEW m \in Nat, Await(n, pc, m),
             UNCHANGED sxPlan
      PROVE  Good
  BY <1>4, <1>c DEF Await
<1>5. Good
  <2>1. CASE DialStep \/ DialClose \/ SocksReadError \/ UNCHANGED DialVars
    BY <2>1, <1>1 DEF DialStep, DialClose, SocksReadError, DialVars
  <2>2. CASE Arrive
    <3>1. sxNet.pend \in Seq(Nat) /\ sxNet.in \in Seq(Nat) /\ sxNet.pend # <<>>
      BY <2>2, <1>n DEF Net, Arrive
    <3>2. Len(sxNet.pend) \in Nat /\ Len(sxNet.pend) >= 1  BY <3>1
    <3>3. PICK k \in 1..Len(sxNet.pend) :
            sxNet' = [sxNet EXCEPT !.in = @ \o SubSeq(sxNet.pend, 1, k),
                                   !.pend = SubSeq(@, k + 1, Len(@))]
      <4>1. PICK k \in (IF sxNet.whole THEN {Len(sxNet.pend)} ELSE {1, Len(sxNet.pend)}) :
              sxNet' = [sxNet EXCEPT !.in = @ \o SubSeq(sxNet.pend, 1, k),
                                     !.pend = SubSeq(@, k + 1, Len(@))]
        BY <2>2, Zenon DEF Arrive
      <4>2. k \in 1..Len(sxNet.pend)  BY <3>2, <4>1
      <4> QED  BY <4>1, <4>2, Zenon
    <3>4. SubSeq(sxNet.pend, 1, k) \in Seq(Nat)
          /\ SubSeq(sxNet.pend, k + 1, Len(sxNet.pend)) \in Seq(Nat)
      <4>1. sxNet.pend \in Seq(Nat) /\ k \in Nat /\ k + 1 \in Nat /\ Len(sxNet.pend) \in Nat
            /\ 1 \in Nat
        BY <3>1, <3>2, LenProperties
      <4> QED  BY <4>1, SMTT(30)
    <3>5. sxNet.in \o SubSeq(sxNet.pend, 1, k) \in Seq(Nat)  BY <3>1, <3>4
    <3>6. sxNet' \in Net /\ sxNet'.whole = sxNet.whole  BY <1>n, <3>3, <3>4, <3>5 DEF Net
    <3> QED  BY <2>2, <1>s, <3>6 DEF Arrive
  <2>3. CASE HangUp
    <3>1. <<>> \in Seq(Nat)  OBVIOUS
    <3>2. sxNet' = [sxNet EXCEPT !.up = FALSE, !.pend = <<>>] /\ UNCHANGED <<sx, sxPlan>>
      BY <2>3 DEF HangUp
    <3>3. sxNet' \in Net /\ sxNet'.whole = sxNet.whole  BY <1>n, <3>1, <3>2, Zenon DEF Net
    <3> QED  BY <1>s, <3>2, <3>3
  <2>4. CASE handshake  BY <2>4, <1>2 DEF handshake
  <2>5. CASE handshakeRead  BY <2>5, <1>2, <1>3 DEF handshakeRead
  <2>6. CASE passwordAuth  BY <2>6, <1>2, <1>3 DEF passwordAuth
  <2>7. CASE request  BY <2>7, <1>3, <1>4 DEF request
  <2>8. CASE requestDomain
    <3>1. (Read(1)[1] + 2) % 256 \in Nat
      <4>1. Read(1)[1] \in Nat  BY ConsumedType
      <4> QED  BY <4>1
    <3> QED  BY <2>8, <3>1, <1>4 DEF requestDomain
  <2>9. CASE requestAddr
    <3>1. sx.need \in Nat  BY <1>s
    <3> QED  BY <2>9, <3>1, <1>c, <1>s DEF requestAddr
  <2> QED
    BY <2>1, <2>2, <2>3, <2>4, <2>5, <2>6, <2>7, <2>8, <2>9 DEF DialNext
<1> QED  BY <1>5, <1>d DEF SocksTypeOK, Net

\* The steps of a SOCKS5 negotiation follow each other, and the third is the last.
LEMMA SocksAdvance ==
  ASSUME DialOK, dl.kind = "socks5", dl.result = "none", Advance
  PROVE  /\ dl'.step = dl.step + 1 /\ dl.step \in 1..3
         /\ dl'.result = IF dl.step = 3 THEN "conn" ELSE "none"
<1>1. Len(Steps) = 3  BY DEF Steps, DialSteps, SocksSteps
<1>2. dl \in [kind: Kinds, step: Nat, open: SUBSET Resources,
              result: {"none", "conn", "error", "closed"}]
  BY DEF DialOK
<1>3. dl.step \in 1..3  BY DEF DialOK, StepCount
<1> QED  BY <1>1, <1>2, <1>3 DEF Advance

\* A Dial that fails returns an error.
LEMMA FailsResult == ASSUME DialOK, Fails PROVE dl'.result = "error"
BY DEF Fails, DialOK

\* After a request is written there is nothing to read but its reply.
LEMMA NextAwaited ==
  ASSUME SocksTypeOK, NEW n \in Nat, NEW pc \in {"method", "auth", "request"}, SocksNext(n, pc),
         Consumed(n) = [sxNet EXCEPT !.in = <<>>], sxNet.pend = <<>>, sxPlan' = sxPlan
  PROVE  sx'.pc = pc /\ Awaited(Reply(pc))'
<1>1. Reply(pc) \in Seq(Nat) /\ Reply(pc)' = Reply(pc)
  <2>1. Reply(pc)' = Reply(pc)  BY DEF Reply
  <2> QED  BY <2>1, ReplyType
<1>2. <<>> \o Reply(pc) = Reply(pc)  BY <1>1
<1>3. sx' = [sx EXCEPT !.pc = pc] /\ sxNet' = [Consumed(n) EXCEPT !.pend = IF sxNet.up THEN @ \o Reply(pc) ELSE @]
  BY DEF SocksNext
<1>4. sxNet \in Net /\ sx \in [pc: {"idle", "method", "auth", "request", "domain", "addr"}, need: Nat]
  BY DEF SocksTypeOK, Net
<1>5. Consumed(n).pend = <<>> /\ Consumed(n).in = <<>> /\ Consumed(n) \in Net
  BY <1>4, ConsumedType DEF Net
<1>6. sxNet'.in = <<>> /\ sxNet'.pend \in {<<>>, Reply(pc)}
  BY <1>2, <1>3, <1>5 DEF Net
<1>7. sx'.pc = pc  BY <1>3, <1>4
<1> QED  BY <1>1, <1>6, <1>7 DEF Awaited

\* A negotiation that sees its replies whole always reads the reply it has asked for.
LEMMA SocksStep ==
  ASSUME DialOK, SocksInv, [DialNext]_DialVars
  PROVE  SocksInv'
<1>t. /\ SocksTypeOK /\ SocksTypeOK' /\ sxPlan' = sxPlan /\ sxNet'.whole = sxNet.whole
      /\ dl'.kind = dl.kind
  BY SocksType DEF SocksInv
<1>c. Clean' <=> Clean  BY <1>t DEF Clean
<1> SUFFICES ASSUME dl.kind = "socks5", Clean
             PROVE  SocksAligned' /\ (dl'.result = "none" => Negotiates')
  BY <1>t, <1>c DEF SocksInv, SocksAligned, Clean
<1>n. dl.result = "none" => Negotiates  BY DEF SocksInv
<1>a. dl.result = "conn" => /\ sxNet.in = <<>> /\ sxNet.pend = <<>> /\ sxPlan.code = 0
                            /\ (sxPlan.method = 2 => sxPlan.auth = 0)
  BY DEF SocksInv, SocksAligned, Clean
<1>k. sxNet \in Net /\ sx \in [pc: {"idle", "method", "auth", "request", "domain", "addr"}, need: Nat]
  BY <1>t DEF SocksTypeOK, Net
<1>p. /\ sxPlan.dlen \in 0..255 /\ sxPlan.atyp \in {1, 3, 4, 9} /\ sxPlan.code \in {0, 1}
      /\ sxPlan.method \in {0, 2, 255} /\ sxPlan.auth \in {0, 1}
  BY <1>t DEF SocksTypeOK
<1>f. ASSUME Fails PROVE SocksAligned' /\ (dl'.result = "none" => Negotiates')
  BY <1>f, FailsResult DEF SocksAligned
<1>u. ASSUME UNCHANGED <<dl, sx, sxPlan>>, sxNet'.in = sxNet.in,
             sxNet'.pend = sxNet.pend \/ sxNet'.pend = <<>>
      PROVE  SocksAligned' /\ (dl'.result = "none" => Negotiates')
  <2>1. SocksAligned'  BY <1>u, <1>a DEF SocksAligned
  <2>2. \A pc : Reply(pc)' = Reply(pc)  BY <1>u DEF Reply
  <2>3. ASSUME dl.result = "none" PROVE Negotiates'
    BY <1>u, <1>n, <2>2, <2>3 DEF Negotiates, Awaited
  <2> QED  BY <1>u, <2>1, <2>3
<1>1. CASE DialStep
  <2>1. dl.result = "none" /\ dl.step = 1 /\ UNCHANGED <<sx, sxNet, sxPlan>>
    BY <1>1 DEF DialStep
  <2>2. CASE Advance
    <3>1. dl'.step = 2 /\ dl'.result = "none"  BY <2>1, <2>2, SocksAdvance
    <3>2. sx.pc = "idle" /\ sxNet.in = <<>> /\ sxNet.pend = <<>>
      BY <1>n, <1>k, <2>1 DEF Negotiates
    <3> QED  BY <2>1, <3>1, <3>2 DEF Negotiates, SocksAligned
  <2> QED  BY <1>1, <1>f, <2>2 DEF DialStep
<1>2. CASE DialClose
  <2>1. dl'.result = "closed"  BY <1>2 DEF DialClose, DialOK
  <2> QED  BY <2>1 DEF SocksAligned
<1>3. CASE Arrive
  <2>1. sxNet.pend \in Seq(Nat) /\ sxNet.pend # <<>> /\ sxNet.in \in Seq(Nat) /\ UNCHANGED <<dl, sx, sxPlan>>
    BY <1>3, <1>k DEF Arrive, Net
  <2>2. sxNet' = [sxNet EXCEPT !.in = @ \o SubSeq(sxNet.pend, 1, Len(sxNet.pend)),
                               !.pend = SubSeq(@, Len(sxNet.pend) + 1, Len(@))]
    BY <1>3 DEF Arrive, Clean
  <2>3. SubSeq(sxNet.pend, 1, Len(sxNet.pend)) = sxNet.pend
        /\ SubSeq(sxNet.pend, Len(sxNet.pend) + 1, Len(sxNet.pend)) = <<>>
    BY <2>1
  <2>4. sxNet'.in = sxNet.in \o sxNet.pend /\ sxNet'.pend = <<>>  BY <1>k, <2>2, <2>3 DEF Net
  <2>5. <<>> \o sxNet.pend = sxNet.pend  BY <2>1
  <2>6. SocksAligned'  BY <2>1, <1>a DEF SocksAligned
  <2>7. ASSUME dl.result = "none" PROVE Negotiates'
    <3>1. sx.pc \in {"method", "auth", "request"}  BY <1>n, <1>k, <2>1, <2>7 DEF Negotiates
    <3>2. sxNet.in = <<>> /\ sxNet.pend = Reply(sx.pc)
      BY <1>n, <2>1, <2>7, <3>1 DEF Negotiates, Awaited
    <3>3. sxNet'.in = Reply(sx.pc)  BY <2>4, <2>5, <3>2
    <3>4. Reply(sx.pc)' = Reply(sx.pc)  BY <2>1 DEF Reply
    <3> QED  BY <1>n, <2>1, <2>4, <2>7, <3>1, <3>3, <3>4 DEF Negotiates, Awaited
  <2> QED  BY <2>1, <2>6, <2>7
<1>4. CASE HangUp
  <2>1. UNCHANGED <<dl, sx, sxPlan>> /\ sxNet' = [sxNet EXCEPT !.up = FALSE, !.pend = <<>>]
    BY <1>4 DEF HangUp
  <2>2. sxNet'.in = sxNet.in /\ sxNet'.pend = <<>>  BY <1>k, <2>1 DEF Net
  <2> QED  BY <1>u, <2>1, <2>2
<1>5. CASE SocksReadError  BY <1>5, <1>f DEF SocksReadError
<1>6. CASE handshake
  <2>1. /\ dl.step = 2 /\ sx.pc = "idle" /\ dl.result = "none" /\ SocksNext(0, "method")
        /\ UNCHANGED <<dl, sxPlan>>
    BY <1>6 DEF handshake
  <2>2. sxNet.in = <<>> /\ sxNet.pend = <<>>  BY <1>n, <2>1 DEF Negotiates
  <2>3. Consumed(0) = [sxNet EXCEPT !.in = <<>>]
    <3>1. <<>> \in Seq(Nat) /\ <<>> \o <<>> = <<>> /\ Len(<<>>) = 0  OBVIOUS
    <3> QED  BY <1>t, <2>2, <3>1, ReadHead
  <2>4. sx'.pc = "method" /\ Awaited(Reply("method"))'  BY <1>t, <2>1, <2>2, <2>3, NextAwaited
  <2> QED  BY <2>1, <2>4 DEF Negotiates, SocksAligned
<1>7. CASE handshakeRead
  <2>1. sx.pc = "method" /\ dl.result = "none" /\ sxNet.in # <<>>
    BY <1>7 DEF handshakeRead, Arrived
  <2>2. sxNet.in = <<5, sxPlan.method>> /\ sxNet.pend = <<>> /\ dl.step = 2
    BY <1>n, <1>t, <2>1, ReplyType DEF Negotiates, Awaited
  <2>3. Read(2) = <<5, sxPlan.method>> /\ Consumed(2) = [sxNet EXCEPT !.in = <<>>]
    <3>1. <<5, sxPlan.method>> \in Seq(Nat) /\ Len(<<5, sxPlan.method>>) = 2
          /\ <<5, sxPlan.method>> \o <<>> = <<5, sxPlan.method>> /\ <<>> \in Seq(Nat)
      BY <1>p
    <3> QED  BY <1>t, <2>2, <3>1, ReadHead
  <2>4. CASE sxPlan.method = 2
    <3>1. SocksNext(2, "auth") /\ UNCHANGED dl  BY <1>7, <2>3, <2>4 DEF handshakeRead
    <3>2. sx'.pc = "auth" /\ Awaited(Reply("auth"))'
      BY <1>t, <2>2, <2>3, <3>1, NextAwaited
    <3> QED  BY <1>t, <2>1, <2>2, <2>4, <3>1, <3>2 DEF Negotiates, SocksAligned
  <2>5. CASE sxPlan.method = 0
    <3>1. SocksNext(2, "request") /\ Advance  BY <1>7, <2>3, <2>5 DEF handshakeRead
    <3>2. sx'.pc = "request" /\ Awaited(Reply("request"))'
      BY <1>t, <2>2, <2>3, <3>1, NextAwaited
    <3>3. dl'.step = 3 /\ dl'.result = "none"  BY <2>1, <2>2, <3>1, SocksAdvance
    <3> QED  BY <1>t, <2>5, <3>2, <3>3 DEF Negotiates, SocksAligned
  <2>6. CASE sxPlan.method # 2 /\ sxPlan.method # 0
    <3>1. Fails  BY <1>7, <2>3, <2>6 DEF handshakeRead, SocksFails
    <3> QED  BY <3>1, <1>f
  <2> QED  BY <2>4, <2>5, <2>6
<1>8. CASE passwordAuth
  <2>1. sx.pc = "auth" /\ dl.result = "none" /\ sxNet.in # <<>>
    BY <1>8 DEF passwordAuth, Arrived
  <2>2. sxNet.in = <<1, sxPlan.auth>> /\ sxNet.pend = <<>> /\ dl.step = 2
    BY <1>n, <1>t, <2>1, ReplyType DEF Negotiates, Awaited
  <2>3. Read(2) = <<1, sxPlan.auth>> /\ Consumed(2) = [sxNet EXCEPT !.in = <<>>]
    <3>1. <<1, sxPlan.auth>> \in Seq(Nat) /\ Len(<<1, sxPlan.auth>>) = 2
          /\ <<1, sxPlan.auth>> \o <<>> = <<1, sxPlan.auth>> /\ <<>> \in Seq(Nat)
      BY <1>p
    <3> QED  BY <1>t, <2>2, <3>1, ReadHead
  <2>4. CASE sxPlan.auth = 0
    <3>1. SocksNext(2, "request") /\ Advance  BY <1>8, <2>3, <2>4 DEF passwordAuth
    <3>2. sx'.pc = "request" /\ Awaited(Reply("request"))'
      BY <1>t, <2>2, <2>3, <3>1, NextAwaited
    <3>3. dl'.step = 3 /\ dl'.result = "none"  BY <2>1, <2>2, <3>1, SocksAdvance
    <3> QED  BY <1>t, <2>4, <3>2, <3>3 DEF Negotiates, SocksAligned
  <2>5. CASE sxPlan.auth # 0
    <3>1. Fails  BY <1>8, <2>3, <2>5 DEF passwordAuth, SocksFails
    <3> QED  BY <3>1, <1>f
  <2> QED  BY <2>4, <2>5
<1>9. CASE request
  <2> DEFINE head == <<5, sxPlan.code, 0, sxPlan.atyp>>
  <2>1. sx.pc = "request" /\ dl.result = "none" /\ sxNet.in # <<>> /\ sxPlan' = sxPlan
    BY <1>9 DEF request, Arrived
  <2>2. /\ sxNet.in = head \o Address /\ sxNet.pend = <<>> /\ dl.step = 3
        /\ (sxPlan.method = 2 => sxPlan.auth = 0)
    BY <1>n, <1>t, <2>1, ReplyType DEF Negotiates, Awaited
  <2>3. head \in Seq(Nat) /\ Len(head) = 4  BY <1>p
  <2>4. Address \in Seq(Nat)  BY <1>t, ReplyType
  <2>5. Read(Len(head)) = head /\ Consumed(Len(head)) = [sxNet EXCEPT !.in = Address]
    <3> HIDE DEF head
    <3> QED  BY <1>t, <2>2, <2>3, <2>4, ReadHead
  <2>6. Read(4)[2] = sxPlan.code /\ Read(4)[4] = sxPlan.atyp
    BY <2>3, <2>5
  <2>7. Consumed(4) = [sxNet EXCEPT !.in = Address]  BY <2>3, <2>5
  <2> HIDE DEF head
  <2>8. CASE sxPlan.code # 0 \/ sxPlan.atyp \notin {1, 3, 4}
    <3>1. Fails  BY <1>9, <2>6, <2>8 DEF request, SocksFails
    <3> QED  BY <3>1, <1>f
  <2>9. CASE sxPlan.code = 0 /\ sxPlan.atyp = 3
    <3>1. Await(4, "domain", 1)  BY <1>9, <2>6, <2>9 DEF request
    <3>2. sx'.pc = "domain" /\ sxNet' = [sxNet EXCEPT !.in = Address] /\ dl' = dl
      BY <3>1, <2>7 DEF Await
    <3>3. sxNet'.in = Address /\ sxNet'.pend = <<>>  BY <1>k, <2>2, <3>2 DEF Net
    <3>4. Address = <<sxPlan.dlen>> \o Zeros(sxPlan.dlen + 2)  BY <2>9 DEF Address
    <3>5. Zeros(sxPlan.dlen + 2)' = Zeros(sxPlan.dlen + 2)  BY <2>1 DEF Zeros
    <3> QED  BY <2>1, <2>2, <2>9, <3>2, <3>3, <3>4, <3>5 DEF Negotiates, SocksAligned
  <2>10. CASE sxPlan.code = 0 /\ sxPlan.atyp \in {1, 4}
    <3> DEFINE m == IF sxPlan.atyp = 1 THEN 6 ELSE 18
    <3>1. Await(4, "addr", m)  BY <1>9, <2>6, <2>10 DEF request
    <3>2. sx'.pc = "addr" /\ sx'.need = m /\ sxNet' = [sxNet EXCEPT !.in = Address] /\ dl' = dl
      BY <3>1, <2>7 DEF Await
    <3>3. sxNet'.in = Address /\ sxNet'.pend = <<>>  BY <1>k, <2>2, <3>2 DEF Net
    <3>4. Address = Zeros(m) /\ m > 0  BY <2>10 DEF Address
    <3>5. Zeros(sx.need)' = Zeros(m)  BY <3>2 DEF Zeros
    <3> QED  BY <2>1, <2>2, <2>10, <3>2, <3>3, <3>4, <3>5 DEF Negotiates, SocksAligned
  <2> QED  BY <1>p, <2>8, <2>9, <2>10
<1>10. CASE requestDomain
  <2> DEFINE d == sxPlan.dlen
  <2>1. /\ sx.pc = "domain" /\ dl.result = "none" /\ sxPlan' = sxPlan
        /\ Await(1, "addr", (Read(1)[1] + 2) % 256)
    BY <1>10 DEF requestDomain, Arrived
  <2>2. /\ sxNet.in = <<d>> \o Zeros(d + 2) /\ sxNet.pend = <<>> /\ dl.step = 3
        /\ sxPlan.code = 0 /\ sxPlan.atyp = 3 /\ (sxPlan.method = 2 => sxPlan.auth = 0)
    BY <1>n, <2>1 DEF Negotiates
  <2>3. d \in 0..253 /\ d + 2 \in Nat
    <3>1. d < 254 /\ d \in 0..255  BY <1>p, <2>2 DEF Clean
    <3> HIDE DEF d
    <3> QED  BY <3>1
  <2>4. <<d>> \in Seq(Nat) /\ Len(<<d>>) = 1 /\ <<d>>[1] = d  BY <2>3
  <2>5. Zeros(d + 2) \in Seq(Nat)  BY <2>3, ZerosType
  <2>6. Read(Len(<<d>>)) = <<d>> /\ Consumed(Len(<<d>>)) = [sxNet EXCEPT !.in = Zeros(d + 2)]
    BY <1>t, <2>2, <2>4, <2>5, ReadHead
  <2>7. Read(1) = <<d>> /\ Consumed(1) = [sxNet EXCEPT !.in = Zeros(d + 2)]  BY <2>4, <2>6
  <2>8. Read(1)[1] = d  BY <2>4, <2>7
  <2>9. (d + 2) % 256 = d + 2 /\ d + 2 > 0  BY <2>3
  <2>10. /\ sx'.pc = "addr" /\ sx'.need = d + 2 /\ dl' = dl
         /\ sxNet' = [sxNet EXCEPT !.in = Zeros(d + 2)]
    BY <2>1, <2>7, <2>8, <2>9 DEF Await
  <2>11. sxNet'.in = Zeros(d + 2) /\ sxNet'.pend = <<>>  BY <1>k, <2>2, <2>10 DEF Net
  <2>12. Zeros(sx.need)' = Zeros(d + 2)  BY <2>10 DEF Zeros
  <2> QED  BY <2>1, <2>2, <2>9, <2>10, <2>11, <2>12 DEF Negotiates, SocksAligned
<1>11. CASE requestAddr
  <2>1. sx.pc = "addr" /\ dl.result = "none" /\ sxNet' = Consumed(sx.need) /\ Advance
    BY <1>11 DEF requestAddr, Arrived
  <2>2. /\ sxNet.in = Zeros(sx.need) /\ sxNet.pend = <<>> /\ dl.step = 3 /\ sxPlan.code = 0
        /\ (sxPlan.method = 2 => sxPlan.auth = 0)
    BY <1>n, <2>1 DEF Negotiates
  <2>3. sx.need \in Nat  BY <1>k
  <2>4. /\ Zeros(sx.need) \in Seq(Nat) /\ Len(Zeros(sx.need)) = sx.need
        /\ Zeros(sx.need) \o <<>> = Zeros(sx.need) /\ <<>> \in Seq(Nat)
    BY <2>3, ZerosType
  <2>5. Consumed(sx.need) = [sxNet EXCEPT !.in = <<>>]
    <3> DEFINE z == Zeros(sx.need)
    <3>1. z \in Seq(Nat) /\ Len(z) = sx.need /\ sxNet.in = z \o <<>> /\ <<>> \in Seq(Nat)
      BY <2>2, <2>4
    <3> HIDE DEF z
    <3>2. Consumed(Len(z)) = [sxNet EXCEPT !.in = <<>>]  BY <1>t, <3>1, ReadHead
    <3> QED  BY <3>1, <3>2, Zenon
  <2>6. sxNet'.in = <<>> /\ sxNet'.pend = <<>>  BY <1>k, <2>1, <2>2, <2>5 DEF Net
  <2>7. dl'.result = "conn"  BY <2>1, <2>2, SocksAdvance
  <2> QED  BY <1>t, <2>2, <2>6, <2>7 DEF SocksAligned
<1>12. CASE UNCHANGED DialVars  BY <1>12, <1>u DEF DialVars
<1> QED
  BY <1>1, <1>2, <1>3, <1>4, <1>5, <1>6, <1>7, <1>8, <1>9, <1>10, <1>11, <1>12 DEF DialNext

\* If the replies of a SOCKS5 proxy arrive whole, Dial returns a connection only if the
\* proxy granted it, and has read its replies and no more, for every address type and
\* every domain shorter than 254 bytes (socks5.go:68-190).
THEOREM SocksReadsReplies == DialSpec => []SocksAligned
<1>1. DialInit => DialOK  BY DialInitOK
<1>2. DialInit => SocksInv
  <2> SUFFICES ASSUME DialInit PROVE SocksInv  OBVIOUS
  <2>1. /\ dl.result = "none" /\ dl.step = 1 /\ sx = [pc |-> "idle", need |-> 0]
        /\ sxNet.pend = <<>> /\ sxNet.in = <<>>
    BY DEF DialInit
  <2>2. SocksTypeOK
    <3>1. <<>> \in Seq(Nat) /\ 0 \in Nat  OBVIOUS
    <3>2. sxNet \in [whole: BOOLEAN, pend: Seq(Nat), in: Seq(Nat), up: BOOLEAN]
      <4>1. sxNet \in [whole: BOOLEAN, pend: {<<>>}, in: {<<>>}, up: {TRUE}]  BY DEF DialInit
      <4>2. {<<>>} \subseteq Seq(Nat) /\ {TRUE} \subseteq BOOLEAN  BY <3>1
      <4> QED  BY <4>1, <4>2, Zenon
    <3>3. sxPlan \in [method: {0, 2, 255}, auth: {0, 1}, code: {0, 1}, atyp: {1, 3, 4, 9},
                     dlen: 0..255]
      BY DomainLensAssumption DEF DialInit
    <3> QED  BY <2>1, <3>1, <3>2, <3>3 DEF SocksTypeOK
  <2> QED  BY <2>1, <2>2 DEF SocksInv, SocksAligned, Negotiates
<1>3. SocksInv => SocksAligned  BY DEF SocksInv
<1> QED  BY <1>1, <1>2, <1>3, DialKeeps, SocksStep, PTL DEF DialSpec

-----------------------------------------------------------------------------
Below == {p \in Nat \X Nat : p[1] < p[2]}

\* A set of natural numbers that is not empty has a least element.
LEMMA LeastNat ==
  ASSUME NEW T, T \subseteq Nat, T # {}
  PROVE  \E x \in T : \A y \in T : x <= y
<1>1. IsWellFoundedOn(Below, Nat)  BY NatLessThanWellFounded, Zenon DEF OpToRel, Below
<1>2. PICK x \in T : \A y \in T : ~ (<<y, x>> \in Below)  BY <1>1, WFMin
<1>3. \A y \in T : ~ (y < x)  BY <1>2 DEF Below
<1> QED  BY <1>3

\* Min of a set of natural numbers that is not empty.
LEMMA MinLeast ==
  ASSUME NEW T, T \subseteq Nat, T # {}
  PROVE  Min(T) \in T /\ \A y \in T : Min(T) <= y
<1>1. \E x \in T : \A y \in T : x <= y  BY LeastNat
<1> QED  BY <1>1 DEF Min

\* The constant that is picked is the least of the class below 256, if it has one.
LEMMA PickIsLeast ==
  ASSUME NEW ints
  PROVE  /\ pickPacketID(ints) # -1 <=> Min({256} \cup (ints \cap Nat)) < 256
         /\ pickPacketID(ints) # -1 => pickPacketID(ints) = Min({256} \cup (ints \cap Nat))
<1> DEFINE low == ints \cap 0..255
           all == {256} \cup (ints \cap Nat)
<1>1. all \subseteq Nat /\ all # {}  OBVIOUS
<1>2. Min(all) \in all /\ \A y \in all : Min(all) <= y
  <2> HIDE DEF all
  <2> QED  BY <1>1, MinLeast
<1>3. CASE low = {}
  <2>1. pickPacketID(ints) = -1  BY <1>3 DEF pickPacketID
  <2>2. ~(Min(all) < 256)
    <3>1. \A y \in all : ~(y < 256)  BY <1>3
    <3> HIDE DEF all
    <3> QED  BY <1>2, <3>1
  <2> QED  BY <2>1, <2>2
<1>4. CASE low # {}
  <2>1. low \subseteq Nat /\ low \subseteq 0..255 /\ low \subseteq all  OBVIOUS
  <2>2. \A y \in all : y < 256 => y \in low  OBVIOUS
  <2>3. pickPacketID(ints) = Min(low)  BY <1>4 DEF pickPacketID
  <2> HIDE DEF low, all
  <2>4. Min(low) \in low /\ \A y \in low : Min(low) <= y  BY <1>4, <2>1, MinLeast
  <2>5. Min(low) \in 0..255 /\ Min(low) \in all /\ Min(all) \in Nat  BY <1>1, <1>2, <2>1, <2>4
  <2>6. Min(all) < 256  BY <1>2, <2>5
  <2>7. Min(all) \in low  BY <1>2, <2>2, <2>6
  <2>8. Min(all) = Min(low)  BY <1>2, <2>4, <2>5, <2>7
  <2>9. Min(low) # -1  BY <2>5
  <2> QED  BY <2>3, <2>6, <2>8, <2>9 DEF all
<1> QED  BY <1>3, <1>4

\* More lines name no fewer packets.
LEMMA PacketsMonotone ==
  ASSUME NEW m, NEW n, m \subseteq n PROVE protocolPackets(m) \subseteq protocolPackets(n)
BY DEF protocolPackets

\* What is extracted from the JAR of a version with names of that version.
LEMMA ExtractedRight ==
  ASSUME NEW v \in Versions, NEW names, names \subseteq protocolPackets(Range(Mapping[v])),
         NEW defs \in extractPacketIDs(names, Jar[v])
  PROVE  /\ defs \subseteq Reference(v)
         /\ \A d, e \in defs : d.key = e.key => d = e
         /\ names = protocolPackets(Range(Mapping[v])) =>
              {d.key : d \in defs} = {d.key : d \in Reference(v)}
<1> DEFINE jar == Jar[v]
           id(p) == Min({256} \cup (jar[p.obf] \cap Nat))
           found == {p \in names : p.obf \in DOMAIN jar /\ pickPacketID(jar[p.obf]) # -1}
           keys == {p.key : p \in found}
<1>1. PICK f \in [keys -> found] :
        /\ \A k \in keys : f[k].key = k
        /\ defs = {[key |-> k, id |-> pickPacketID(jar[f[k].obf])] : k \in keys}
  BY DEF extractPacketIDs
<1>2. \A p : /\ pickPacketID(jar[p.obf]) # -1 <=> id(p) < 256
             /\ pickPacketID(jar[p.obf]) # -1 => pickPacketID(jar[p.obf]) = id(p)
  BY PickIsLeast
<1>3. \A p \in protocolPackets(Range(Mapping[v])) : p.obf \in DOMAIN jar /\ id(p) < 256 =>
        [key |-> p.key, id |-> id(p)] \in Reference(v)
  BY DEF Reference
<1>4. \A d \in Reference(v) : \E p \in protocolPackets(Range(Mapping[v])) :
        d = [key |-> p.key, id |-> id(p)] /\ p.obf \in DOMAIN jar /\ id(p) < 256
  <2> SUFFICES ASSUME NEW d \in Reference(v)
               PROVE  \E p \in protocolPackets(Range(Mapping[v])) :
                        d = [key |-> p.key, id |-> id(p)] /\ p.obf \in DOMAIN jar /\ id(p) < 256
    OBVIOUS
  <2>1. d.id < 256 /\ \E p \in protocolPackets(Range(Mapping[v])) :
          p.obf \in DOMAIN jar /\ d = [key |-> p.key, id |-> id(p)]
    BY Zenon DEF Reference
  <2> HIDE DEF id
  <2>2. PICK p \in protocolPackets(Range(Mapping[v])) :
          p.obf \in DOMAIN jar /\ d = [key |-> p.key, id |-> id(p)]
    BY <2>1, Zenon
  <2>3. d.id = id(p)  BY <2>2
  <2>4. id(p) < 256  BY <2>1, <2>3
  <2> QED  BY <2>2, <2>4, Zenon
<1> HIDE DEF id
<1>5. ASSUME NEW d \in defs PROVE d \in Reference(v) /\ d.key \in keys
  <2>1. PICK k \in keys : d = [key |-> k, id |-> pickPacketID(jar[f[k].obf])]  BY <1>1
  <2>2. f[k] \in names /\ f[k].obf \in DOMAIN jar /\ pickPacketID(jar[f[k].obf]) # -1
        /\ f[k].key = k
    BY <1>1
  <2>3. d = [key |-> f[k].key, id |-> id(f[k])] /\ id(f[k]) < 256  BY <1>2, <2>1, <2>2
  <2>4. f[k] \in protocolPackets(Range(Mapping[v]))  BY <2>2
  <2>5. d \in Reference(v)  BY <1>3, <2>2, <2>3, <2>4, Zenon
  <2>6. d.key = k  BY <2>1
  <2> QED  BY <2>5, <2>6
<1>6. \A d, e \in defs : d.key = e.key => d = e
  <2>1. ASSUME NEW d \in defs
        PROVE  \E k \in keys : d = [key |-> k, id |-> pickPacketID(jar[f[k].obf])] /\ d.key = k
    <3>1. PICK k \in keys : d = [key |-> k, id |-> pickPacketID(jar[f[k].obf])]  BY <1>1
    <3>2. d.key = k  BY <3>1
    <3> QED  BY <3>1, <3>2
  <2> QED  BY <2>1, Zenon
<1>7. ASSUME names = protocolPackets(Range(Mapping[v])), NEW d \in Reference(v)
      PROVE  \E e \in defs : e.key = d.key
  <2>1. PICK p \in names : d = [key |-> p.key, id |-> id(p)] /\ p.obf \in DOMAIN jar /\ id(p) < 256
    BY <1>4, <1>7
  <2>2. p \in found  BY <1>2, <2>1
  <2>3. d.key \in keys  BY <2>1, <2>2
  <2> DEFINE e == [key |-> d.key, id |-> pickPacketID(jar[f[d.key].obf])]
  <2>4. e \in defs  BY <1>1, <2>3, Zenon
  <2>5. e.key = d.key  OBVIOUS
  <2> QED  BY <2>4, <2>5, Zenon
<1>8. names = protocolPackets(Range(Mapping[v])) =>
        {d.key : d \in defs} = {d.key : d \in Reference(v)}
  BY <1>5, <1>7
<1> QED  BY <1>5, <1>6, <1>8

AllLines == UNION {Range(Mapping[v]) : v \in Versions}
MapCopied == {"map copy", "map read"}
JarCopied == {"jar copy", "jar read"}
JarPcs == {"jar", "jar get"} \cup JarCopied
GenPcs == {"manifest", "map", "map get", "fallback", "done", "killed"} \cup MapCopied \cup JarPcs
RunType == [ver: Versions, pc: GenPcs, names: SUBSET protocolPackets(AllLines),
            from: Versions \cup {"none", "mixed"}, whole: BOOLEAN]
AnyFile == [ver: Versions \cup {"mixed"}, full: BOOLEAN, by: Runs]

\* A file of the cache: the JAR of a version is of that version.
FileOK(f) == cache[f] \in AnyFile /\ (f \in Versions => cache[f].ver = f)

\* Names that are said to be of the version of the run are, and all of them if
\* they are said to be complete.
NamesOK(r) ==
  gen[r].pc \in JarPcs /\ gen[r].from = gen[r].ver =>
    /\ gen[r].names \subseteq protocolPackets(Range(Mapping[gen[r].ver]))
    /\ gen[r].whole => gen[r].names = protocolPackets(Range(Mapping[gen[r].ver]))

RunOK(r) ==
  /\ gen[r].pc \in MapCopied => FileOK("server.txt")
  /\ gen[r].pc \in JarCopied => FileOK(gen[r].ver)
  /\ NamesOK(r)

GenInv ==
  /\ gen \in [Runs -> RunType]
  /\ cache \in [Files -> AnyFile \cup {NoFile}]
  /\ \A f \in Files : cache[f] # NoFile => FileOK(f)
  /\ \A r \in Runs : RunOK(r)
  /\ GeneratedRight

\* What is read from a file is part of what it was downloaded from.
LEMMA LinesOf ==
  ASSUME NEW f \in AnyFile, NEW lines \in Lines(f)
  PROVE  /\ lines \subseteq AllLines
         /\ f.ver \in Versions => lines \subseteq Range(Mapping[f.ver])
         /\ f.ver \in Versions /\ f.full => lines = Range(Mapping[f.ver])
<1>1. \A v \in Versions : \A k \in 0..Len(Mapping[v]) :
        /\ Range(SubSeq(Mapping[v], 1, k)) \subseteq Range(Mapping[v])
        /\ \A w \in Versions : Range(SubSeq(Mapping[w], k + 1, Len(Mapping[w]))) \subseteq Range(Mapping[w])
  <2> SUFFICES ASSUME NEW v \in Versions, NEW k \in 0..Len(Mapping[v]), NEW w \in Versions
               PROVE  /\ Range(SubSeq(Mapping[v], 1, k)) \subseteq Range(Mapping[v])
                      /\ Range(SubSeq(Mapping[w], k + 1, Len(Mapping[w]))) \subseteq Range(Mapping[w])
    OBVIOUS
  <2>1. Mapping[v] \in Seq(Range(Mapping[v])) /\ Mapping[w] \in Seq(Range(Mapping[w]))
    BY VersionsAssumption
  <2>2. Len(Mapping[v]) \in Nat /\ Len(Mapping[w]) \in Nat /\ k \in Nat  BY <2>1
  <2>3. SubSeq(Mapping[v], 1, k) \in Seq(Range(Mapping[v]))  BY <2>1, <2>2
  <2>4. SubSeq(Mapping[w], k + 1, Len(Mapping[w])) \in Seq(Range(Mapping[w]))  BY <2>1, <2>2
  <2>5. \A S : \A s \in Seq(S) : Range(s) \subseteq S
    <3> SUFFICES ASSUME NEW S, NEW s \in Seq(S), NEW i \in DOMAIN s PROVE s[i] \in S
      BY DEF Range
    <3> QED  OBVIOUS
  <2> QED  BY <2>3, <2>4, <2>5
<1>2. \A v \in Versions : Range(Mapping[v]) \subseteq AllLines  BY DEF AllLines
<1>3. CASE f.ver = "mixed"
  <2>1. PICK v \in Versions, w \in Versions : \E k \in 0..Len(Mapping[v]) :
          lines = Range(SubSeq(Mapping[v], 1, k)) \cup Range(SubSeq(Mapping[w], k + 1, Len(Mapping[w])))
    BY <1>3 DEF Lines
  <2>2. f.ver \notin Versions  BY <1>3, VersionsAssumption
  <2> QED  BY <1>1, <1>2, <2>1, <2>2
<1>4. CASE f.ver \in Versions
  <2>1. f.ver # "mixed"  BY <1>4, VersionsAssumption
  <2>2. CASE f.full
    <3>1. lines = Range(Mapping[f.ver])  BY <2>1, <2>2 DEF Lines
    <3> QED  BY <1>2, <1>4, <3>1
  <2>3. CASE ~f.full
    <3>1. PICK k \in 0..Len(Mapping[f.ver]) : lines = Range(SubSeq(Mapping[f.ver], 1, k))
      BY <2>1, <2>3 DEF Lines
    <3>2. lines \subseteq Range(Mapping[f.ver])  BY <1>1, <1>4, <3>1
    <3> QED  BY <1>2, <1>4, <2>3, <3>2
  <2> QED  BY <2>2, <2>3
<1> QED  BY <1>3, <1>4 DEF AnyFile

\* A run that only changes its pc, or gives up.
LEMMA GenMoves ==
  ASSUME GenInv, NEW r \in Runs, UNCHANGED <<cache, outputs>>, gen' \in [Runs -> RunType],
         \A q \in Runs \ {r} : gen'[q] = gen[q], RunOK(r)'
  PROVE  GenInv'
<1>1. \A f \in Files : FileOK(f) => FileOK(f)'  BY DEF FileOK
<1>2. "server.txt" \in Files /\ Versions \subseteq Files  BY DEF Files
<1>3. ASSUME NEW q \in Runs PROVE RunOK(q)'
  <2>1. CASE q = r  BY <2>1
  <2>2. CASE q # r
    <3>1. gen'[q] = gen[q] /\ RunOK(q) /\ gen[q].ver \in Versions
      BY <2>2 DEF GenInv, RunType
    <3> QED  BY <3>1, <1>1, <1>2 DEF RunOK, NamesOK
  <2> QED  BY <2>1, <2>2
<1>4. GeneratedRight'  BY DEF GenInv, GeneratedRight
<1> QED  BY <1>1, <1>3, <1>4 DEF GenInv, FileOK

\* A run that gives up or falls back needs nothing any more.
LEMMA LeaveOK ==
  ASSUME GenInv, NEW r \in Runs, NEW to \in {"fallback", "done", "killed"}, Leave(r, to)
  PROVE  /\ gen' \in [Runs -> RunType] /\ \A q \in Runs \ {r} : gen'[q] = gen[q]
         /\ RunOK(r)'
<1>1. gen[r].ver \in Versions /\ gen \in [Runs -> RunType]  BY DEF GenInv, RunType
<1>2. Fresh(gen[r].ver, to) \in RunType  BY <1>1 DEF Fresh, RunType, GenPcs
<1>3. gen' = [gen EXCEPT ![r] = Fresh(gen[r].ver, to)]  BY DEF Leave
<1>4. gen'[r].pc = to  BY <1>1, <1>3 DEF Fresh
<1>5. RunOK(r)'  BY <1>4 DEF RunOK, NamesOK, MapCopied, JarCopied, JarPcs
<1> QED  BY <1>1, <1>2, <1>3, <1>5

\* What Move changes.
LEMMA MoveFields ==
  ASSUME GenInv, NEW r \in Runs, NEW from, NEW to \in GenPcs, Move(r, from, to)
  PROVE  /\ gen' \in [Runs -> RunType] /\ \A q \in Runs \ {r} : gen'[q] = gen[q]
         /\ gen[r].pc = from /\ gen'[r].pc = to /\ gen'[r].ver = gen[r].ver
         /\ gen'[r].from = gen[r].from /\ gen'[r].names = gen[r].names
         /\ gen'[r].whole = gen[r].whole /\ gen[r].ver \in Versions
<1>1. gen \in [Runs -> RunType] /\ gen[r] \in RunType  BY DEF GenInv
<1>2. gen' = [gen EXCEPT ![r] = [gen[r] EXCEPT !.pc = to]] /\ gen[r].pc = from  BY DEF Move
<1>3. [gen[r] EXCEPT !.pc = to] \in RunType  BY <1>1 DEF RunType
<1>4. gen'[r] = [gen[r] EXCEPT !.pc = to]  BY <1>1, <1>2
<1>5. gen' \in [Runs -> RunType] /\ \A q \in Runs \ {r} : gen'[q] = gen[q]  BY <1>1, <1>2, <1>3
<1> QED  BY <1>1, <1>2, <1>4, <1>5 DEF RunType

\* The names of a run that has them already are as right as before.
LEMMA NamesStay ==
  ASSUME GenInv, NEW r \in Runs, NEW from, NEW to \in GenPcs, Move(r, from, to),
         to \in JarPcs => from \in JarPcs
  PROVE  NamesOK(r)'
<1>1. NamesOK(r)  BY DEF GenInv, RunOK
<1>2. /\ gen[r].pc = from /\ gen'[r].pc = to /\ gen'[r].ver = gen[r].ver
      /\ gen'[r].from = gen[r].from /\ gen'[r].names = gen[r].names
      /\ gen'[r].whole = gen[r].whole
  BY MoveFields, Zenon
<1> SUFFICES ASSUME gen'[r].pc \in JarPcs, gen'[r].from = gen'[r].ver
             PROVE  LET all == protocolPackets(Range(Mapping[gen[r].ver])) IN
                    gen[r].names \subseteq all /\ (gen[r].whole => gen[r].names = all)
  BY <1>2, Zenon DEF NamesOK
<1>3. gen[r].pc \in JarPcs /\ gen[r].from = gen[r].ver
  BY <1>2, Zenon
<1> QED  BY <1>1, <1>3, Zenon DEF NamesOK

\* A look for a file in the cache.
LEMMA StatStep ==
  ASSUME GenInv, NEW r \in Runs, NEW stage \in {MapStage, JarStage}, Stat(r, stage)
  PROVE  GenInv'
<1>1. UNCHANGED <<cache, outputs>>  BY DEF Stat
<1>2. gen[r].ver \in Versions  BY DEF GenInv, RunType
<1>3. Files = {"server.txt"} \cup Versions  BY DEF Files
<1>4. \A f : FileOK(f)' <=> FileOK(f)  BY <1>1 DEF FileOK
<1>5. CASE stage = MapStage
  <2>1. CASE Move(r, "map", "map read") /\ cache["server.txt"] # NoFile
    <3>1. "map read" \in GenPcs /\ "map read" \notin JarPcs  BY DEF GenPcs, MapCopied, JarPcs, JarCopied
    <3>2. gen'[r].pc = "map read" /\ gen' \in [Runs -> RunType]
          /\ \A q \in Runs \ {r} : gen'[q] = gen[q]
      BY <2>1, <3>1, MoveFields
    <3>3. FileOK("server.txt")  BY <1>3, <2>1 DEF GenInv
    <3>4. RunOK(r)'  BY <1>4, <3>1, <3>2, <3>3 DEF RunOK, NamesOK, JarCopied
    <3> QED  BY <1>1, <3>2, <3>4, GenMoves
  <2>2. CASE Move(r, "map", "map get")
    <3>1. "map get" \in GenPcs /\ "map get" \notin JarPcs \cup MapCopied
      BY DEF GenPcs, MapCopied, JarPcs, JarCopied
    <3>2. gen'[r].pc = "map get" /\ gen' \in [Runs -> RunType]
          /\ \A q \in Runs \ {r} : gen'[q] = gen[q]
      BY <2>2, <3>1, MoveFields
    <3>3. RunOK(r)'  BY <3>1, <3>2 DEF RunOK, NamesOK, JarPcs
    <3> QED  BY <1>1, <3>2, <3>3, GenMoves
  <2>3. gen[r].pc = "map" => File(r) = "server.txt"  BY DEF File
  <2> QED  BY <1>5, <2>1, <2>2, <2>3 DEF Stat, MapStage, Move
<1>6. CASE stage = JarStage
  <2>1. ASSUME NEW to \in {"jar read", "jar get"}, Move(r, "jar", to),
               to = "jar read" => cache[gen[r].ver] # NoFile
        PROVE  GenInv'
    <3>1. to \in GenPcs /\ to \notin MapCopied /\ "jar" \in JarPcs
      BY DEF GenPcs, MapCopied, JarPcs, JarCopied
    <3>2. gen'[r].pc = to /\ gen' \in [Runs -> RunType] /\ gen'[r].ver = gen[r].ver
          /\ \A q \in Runs \ {r} : gen'[q] = gen[q]
      BY <2>1, <3>1, MoveFields, ZenonT(30)
    <3>3. to = "jar read" => FileOK(gen[r].ver)  BY <1>2, <1>3, <2>1 DEF GenInv
    <3>4. NamesOK(r)'  BY <2>1, <3>1, NamesStay
    <3>5. RunOK(r)'  BY <1>4, <3>1, <3>2, <3>3, <3>4 DEF RunOK, JarCopied
    <3> QED  BY <1>1, <3>2, <3>5, GenMoves
  <2>2. gen[r].pc = "jar" => File(r) = gen[r].ver  BY DEF File
  <2> QED  BY <1>6, <2>1, <2>2 DEF Stat, JarStage, Move
<1> QED  BY <1>5, <1>6

\* A step that writes the file a run is about, and leaves that file in order.
LEMMA WriteOK ==
  ASSUME GenInv, NEW r \in Runs, NEW from, NEW to \in MapCopied \cup JarCopied,
         Move(r, from, to), to \in JarPcs => from \in JarPcs,
         NEW f \in Files, f = (IF to \in MapCopied THEN "server.txt" ELSE gen[r].ver),
         NEW file \in AnyFile, f \in Versions => file.ver = f,
         cache' = [cache EXCEPT ![f] = file], UNCHANGED outputs
  PROVE  GenInv'
<1>1. to \in GenPcs  BY DEF GenPcs, JarPcs
<1>2. /\ gen' \in [Runs -> RunType] /\ \A q \in Runs \ {r} : gen'[q] = gen[q]
      /\ gen'[r].pc = to /\ gen'[r].ver = gen[r].ver
  BY <1>1, MoveFields
<1>3. cache \in [Files -> AnyFile \cup {NoFile}]  BY DEF GenInv
<1>4. cache' \in [Files -> AnyFile \cup {NoFile}] /\ cache'[f] = file
      /\ \A g \in Files \ {f} : cache'[g] = cache[g]
  BY <1>3
<1>5. FileOK(f)' /\ \A g \in Files : FileOK(g) => FileOK(g)'  BY <1>4 DEF FileOK
<1>6. \A g \in Files : cache'[g] # NoFile => FileOK(g)'
  BY <1>4, <1>5 DEF GenInv
<1>7. "server.txt" \in Files /\ Versions \subseteq Files  BY DEF Files
<1>8. MapCopied \cap JarCopied = {}  BY DEF MapCopied, JarCopied
<1>9. ASSUME NEW q \in Runs PROVE RunOK(q)'
  <2>1. CASE q = r
    <3>1. NamesOK(r)'  BY <1>1, NamesStay
    <3> QED  BY <1>2, <1>5, <1>8, <2>1, <3>1 DEF RunOK
  <2>2. CASE q # r
    <3>1. gen'[q] = gen[q] /\ RunOK(q) /\ gen[q].ver \in Versions
      BY <1>2, <2>2 DEF GenInv, RunType
    <3> QED  BY <3>1, <1>5, <1>7 DEF RunOK, NamesOK
  <2> QED  BY <2>1, <2>2
<1>10. GeneratedRight'  BY DEF GenInv, GeneratedRight
<1> QED  BY <1>2, <1>4, <1>6, <1>9, <1>10 DEF GenInv

\* A download starts: the file is truncated, and mixed if another download writes it too.
LEMMA CreateStep ==
  ASSUME GenInv, NEW r \in Runs, NEW stage \in {MapStage, JarStage}, Create(r, stage)
  PROVE  GenInv'
<1> DEFINE mixed == \E q \in Runs \ {r} : /\ gen[q].pc = stage[3] /\ File(q) = File(r)
                                          /\ gen[q].ver # gen[r].ver
           file == [ver |-> IF mixed THEN "mixed" ELSE gen[r].ver, full |-> FALSE, by |-> r]
<1>1. /\ Move(r, stage[2], stage[3]) /\ UNCHANGED outputs
      /\ cache' = [cache EXCEPT ![File(r)] = file]
  BY DEF Create
<1>2. gen[r].ver \in Versions  BY DEF GenInv, RunType
<1>3. file \in AnyFile  BY <1>2 DEF AnyFile
<1>4. Files = {"server.txt"} \cup Versions /\ "server.txt" \notin Versions
  BY VersionsAssumption DEF Files
<1>5. CASE stage = MapStage
  <2>1. Move(r, "map get", "map copy")  BY <1>1, <1>5 DEF MapStage
  <2>2. File(r) = "server.txt"  BY <2>1 DEF File, Move
  <2>3. "map copy" \in MapCopied /\ "map copy" \notin JarPcs  BY DEF MapCopied, JarPcs, JarCopied
  <2> HIDE DEF file
  <2> QED  BY <1>1, <1>3, <1>4, <2>1, <2>2, <2>3, WriteOK
<1>6. CASE stage = JarStage
  <2>1. Move(r, "jar get", "jar copy") /\ stage[3] = "jar copy"  BY <1>1, <1>6 DEF JarStage
  <2>2. File(r) = gen[r].ver  BY <2>1 DEF File, Move
  <2>3. ~mixed  BY <2>1, <2>2 DEF File
  <2>4. file.ver = gen[r].ver  BY <2>3
  <2>5. "jar copy" \in JarCopied /\ "jar copy" \notin MapCopied /\ "jar get" \in JarPcs
    BY DEF MapCopied, JarPcs, JarCopied
  <2> HIDE DEF file
  <2> QED  BY <1>1, <1>2, <1>3, <1>4, <2>1, <2>2, <2>4, <2>5, WriteOK
<1> QED  BY <1>5, <1>6

\* A download ends: the file is whole, or it was mixed.
LEMMA CopiedStep ==
  ASSUME GenInv, NEW r \in Runs, NEW stage \in {MapStage, JarStage}, Copied(r, stage)
  PROVE  GenInv'
<1> DEFINE full == cache[File(r)].full \/ cache[File(r)].by = r
           file == [cache[File(r)] EXCEPT !.full = full]
<1>1. /\ Move(r, stage[3], stage[4]) /\ UNCHANGED outputs
      /\ cache' = [cache EXCEPT ![File(r)] = file]
  BY DEF Copied
<1>2. gen[r].ver \in Versions /\ RunOK(r)  BY DEF GenInv, RunType
<1>4. Files = {"server.txt"} \cup Versions /\ "server.txt" \notin Versions
  BY VersionsAssumption DEF Files
<1>5. ASSUME FileOK(File(r)) PROVE file \in AnyFile /\ file.ver = cache[File(r)].ver
  <2>1. full \in BOOLEAN  BY <1>5 DEF FileOK, AnyFile
  <2>2. cache[File(r)] \in AnyFile  BY <1>5 DEF FileOK
  <2> HIDE DEF full
  <2> QED  BY <2>1, <2>2 DEF AnyFile
<1>6. CASE stage = MapStage
  <2>1. Move(r, "map copy", "map read")  BY <1>1, <1>6 DEF MapStage
  <2>2. File(r) = "server.txt"  BY <2>1 DEF File, Move
  <2>3. "map copy" \in MapCopied /\ "map read" \in MapCopied /\ "map read" \notin JarPcs
    BY DEF MapCopied, JarPcs, JarCopied
  <2>4. FileOK(File(r))  BY <1>2, <2>1, <2>2, <2>3 DEF RunOK, Move
  <2> HIDE DEF file
  <2> QED  BY <1>1, <1>4, <1>5, <2>1, <2>2, <2>3, <2>4, WriteOK
<1>7. CASE stage = JarStage
  <2>1. Move(r, "jar copy", "jar read")  BY <1>1, <1>7 DEF JarStage
  <2>2. File(r) = gen[r].ver  BY <2>1 DEF File, Move
  <2>3. /\ "jar copy" \in JarCopied /\ "jar read" \in JarCopied /\ "jar read" \notin MapCopied
        /\ "jar copy" \in JarPcs
    BY DEF MapCopied, JarPcs, JarCopied
  <2>4. FileOK(File(r))  BY <1>2, <2>1, <2>2, <2>3 DEF RunOK, Move
  <2>5. file.ver = gen[r].ver  BY <1>2, <1>5, <2>2, <2>4 DEF FileOK
  <2> HIDE DEF file
  <2> QED  BY <1>1, <1>2, <1>4, <1>5, <2>1, <2>2, <2>3, <2>4, <2>5, WriteOK
<1> QED  BY <1>6, <1>7

\* The names are those of the file, whatever it holds.
LEMMA LoadStep ==
  ASSUME GenInv, NEW r \in Runs, loadMappings(r)
  PROVE  GenInv'
<1> DEFINE f == cache["server.txt"]
<1>1. gen[r].pc = "map read" /\ UNCHANGED <<cache, outputs>>  BY DEF loadMappings
<1>2. f \in AnyFile /\ gen \in [Runs -> RunType] /\ gen[r] \in RunType
  BY <1>1 DEF GenInv, RunOK, MapCopied, FileOK
<1>3. PICK lines \in Lines(f) :
        IF protocolPackets(lines) = {} THEN Leave(r, "fallback")
        ELSE gen' = [gen EXCEPT ![r].names = protocolPackets(lines), ![r].from = f.ver,
                                ![r].whole = f.full, ![r].pc = "jar"]
  BY DEF loadMappings
<1>4. CASE Leave(r, "fallback")  BY <1>1, <1>4, LeaveOK, GenMoves
<1>5. CASE gen' = [gen EXCEPT ![r].names = protocolPackets(lines), ![r].from = f.ver,
                              ![r].whole = f.full, ![r].pc = "jar"]
  <2> DEFINE new == [gen[r] EXCEPT !.names = protocolPackets(lines), !.from = f.ver,
                                   !.whole = f.full, !.pc = "jar"]
  <2>1. /\ lines \subseteq AllLines
        /\ f.ver \in Versions => lines \subseteq Range(Mapping[f.ver])
        /\ f.ver \in Versions /\ f.full => lines = Range(Mapping[f.ver])
        /\ f.ver \in Versions \cup {"mixed"} /\ f.full \in BOOLEAN
    <3>1. f.ver \in Versions \cup {"mixed"} /\ f.full \in BOOLEAN  BY <1>2 DEF AnyFile
    <3> HIDE DEF f
    <3> QED  BY <1>2, <1>3, <3>1, LinesOf
  <2>2. protocolPackets(lines) \subseteq protocolPackets(AllLines)  BY <2>1, PacketsMonotone
  <2>3. "jar" \in GenPcs /\ "jar" \notin MapCopied \cup JarCopied
    BY DEF GenPcs, JarPcs, MapCopied, JarCopied
  <2>4. gen' = [gen EXCEPT ![r] = new]  BY <1>2, <1>5
  <2> HIDE DEF f
  <2>5. /\ new \in RunType /\ new.pc = "jar" /\ new.ver = gen[r].ver /\ new.from = f.ver
        /\ new.names = protocolPackets(lines) /\ new.whole = f.full
    BY <1>2, <2>1, <2>2, <2>3 DEF RunType
  <2> HIDE DEF new
  <2>6. gen' \in [Runs -> RunType] /\ gen'[r] = new /\ \A q \in Runs \ {r} : gen'[q] = gen[q]
    BY <1>2, <2>4, <2>5
  <2>7. gen[r].ver \in Versions  BY <1>2 DEF RunType
  <2>8. NamesOK(r)'
    <3>1. f.ver = gen[r].ver =>
            /\ protocolPackets(lines) \subseteq protocolPackets(Range(Mapping[gen[r].ver]))
            /\ f.full => protocolPackets(lines) = protocolPackets(Range(Mapping[gen[r].ver]))
      BY <2>1, <2>7, PacketsMonotone
    <3> QED  BY <2>5, <2>6, <3>1 DEF NamesOK
  <2>9. RunOK(r)'  BY <2>3, <2>5, <2>6, <2>8 DEF RunOK
  <2> QED  BY <1>1, <2>6, <2>9, GenMoves
<1> QED  BY <1>3, <1>4, <1>5

\* What a run generates joins what was generated before.
LEMMA GenerateStep ==
  ASSUME GenInv, NEW r \in Runs, NEW from, NEW defs, Generate(r, from, defs),
         from = gen[r].ver =>
           /\ defs \subseteq Reference(gen[r].ver)
           /\ \A d, e \in defs : d.key = e.key => d = e
           /\ gen[r].whole => {d.key : d \in defs} = {d.key : d \in Reference(gen[r].ver)}
  PROVE  GenInv'
<1> DEFINE o == [ver |-> gen[r].ver, from |-> from, whole |-> gen[r].whole, defs |-> defs]
<1>1. Leave(r, "done") /\ outputs' = outputs \cup {o} /\ UNCHANGED cache  BY DEF Generate
<1>2. /\ gen' \in [Runs -> RunType] /\ \A q \in Runs \ {r} : gen'[q] = gen[q]
      /\ RunOK(r)'
  BY <1>1, LeaveOK
<1>3. \A f : FileOK(f)' <=> FileOK(f)  BY <1>1 DEF FileOK
<1>4. ASSUME NEW q \in Runs PROVE RunOK(q)'
  <2>1. CASE q = r  BY <1>2, <2>1
  <2>2. CASE q # r
    <3>1. gen'[q] = gen[q] /\ RunOK(q)  BY <1>2, <2>2 DEF GenInv
    <3> QED  BY <3>1, <1>3 DEF RunOK, NamesOK
  <2> QED  BY <2>1, <2>2
<1>5. /\ o.from = o.ver => /\ o.defs \subseteq Reference(o.ver)
                          /\ \A d, e \in o.defs : d.key = e.key => d = e
      /\ o.from = o.ver /\ o.whole => {d.key : d \in o.defs} = {d.key : d \in Reference(o.ver)}
  <2>1. o.ver = gen[r].ver /\ o.from = from /\ o.whole = gen[r].whole /\ o.defs = defs  OBVIOUS
  <2> HIDE DEF o
  <2> QED  BY <2>1
<1> HIDE DEF o
<1>6. GeneratedRight'
  <2>1. \A p \in outputs : p.from = p.ver =>
          /\ p.defs \subseteq Reference(p.ver)
          /\ \A d, e \in p.defs : d.key = e.key => d = e
          /\ p.whole => {d.key : d \in p.defs} = {d.key : d \in Reference(p.ver)}
    BY DEF GenInv, GeneratedRight
  <2> QED  BY <1>1, <1>5, <2>1 DEF GeneratedRight
<1>7. /\ cache' \in [Files -> AnyFile \cup {NoFile}]
      /\ \A f \in Files : cache'[f] # NoFile => FileOK(f)'
  BY <1>1, <1>3 DEF GenInv
<1> QED  BY <1>2, <1>4, <1>6, <1>7 DEF GenInv

\* Every step keeps the cache and the runs in order.
LEMMA GenStep == ASSUME GenInv, [GenNext]_GenVars PROVE GenInv'
<1>1. CASE UNCHANGED GenVars
  BY <1>1 DEF GenVars, GenInv, FileOK, RunOK, NamesOK, GeneratedRight
<1>2. ASSUME NEW r \in Runs, fetchManifest(r) PROVE GenInv'
  <2>1. "map" \in GenPcs /\ "map" \notin MapCopied \cup JarPcs
    BY DEF GenPcs, JarPcs, MapCopied, JarCopied
  <2>2. Move(r, "manifest", "map") /\ UNCHANGED <<cache, outputs>>  BY <1>2 DEF fetchManifest
  <2>3. /\ gen'[r].pc = "map" /\ gen' \in [Runs -> RunType]
        /\ \A q \in Runs \ {r} : gen'[q] = gen[q]
    BY <2>1, <2>2, MoveFields
  <2>4. RunOK(r)'  BY <2>1, <2>3 DEF RunOK, NamesOK, JarPcs
  <2> QED  BY <2>2, <2>3, <2>4, GenMoves
<1>3. ASSUME NEW r \in Runs, RequestFails(r) \/ Kill(r) PROVE GenInv'
  BY <1>3, LeaveOK, GenMoves DEF RequestFails, Kill
<1>4. ASSUME NEW r \in Runs, downloadFile(r) PROVE GenInv'
  BY <1>4, StatStep, CreateStep, CopiedStep DEF downloadFile
<1>5. ASSUME NEW r \in Runs, readJar(r) PROVE GenInv'
  <2> DEFINE f == cache[gen[r].ver]
  <2>1. gen[r].pc = "jar read"  BY <1>5 DEF readJar
  <2>2. File(r) = gen[r].ver  BY <2>1 DEF File
  <2>3. PICK defs \in IF f.full /\ f.ver # "mixed" THEN extractPacketIDs(gen[r].names, Jar[f.ver])
                      ELSE {{}} :
          IF defs = {} THEN Leave(r, "fallback") /\ UNCHANGED <<cache, outputs>>
          ELSE Generate(r, gen[r].from, defs)
    BY <1>5, <2>2 DEF readJar
  <2>4. CASE defs = {}  BY <2>3, <2>4, LeaveOK, GenMoves
  <2>5. CASE defs # {}
    <3>1. f.ver = gen[r].ver /\ gen[r].ver \in Versions /\ NamesOK(r)
      BY <2>1 DEF GenInv, RunType, RunOK, JarCopied, FileOK
    <3>2. defs \in extractPacketIDs(gen[r].names, Jar[gen[r].ver])  BY <2>3, <2>5, <3>1
    <3>3. gen[r].from = gen[r].ver =>
            /\ gen[r].names \subseteq protocolPackets(Range(Mapping[gen[r].ver]))
            /\ gen[r].whole => gen[r].names = protocolPackets(Range(Mapping[gen[r].ver]))
      BY <2>1, <3>1 DEF NamesOK, JarPcs, JarCopied
    <3>4. gen[r].from = gen[r].ver =>
            /\ defs \subseteq Reference(gen[r].ver)
            /\ \A d, e \in defs : d.key = e.key => d = e
            /\ gen[r].whole => {d.key : d \in defs} = {d.key : d \in Reference(gen[r].ver)}
      <4> DEFINE v == gen[r].ver
                 names == gen[r].names
      <4>1. v \in Versions /\ defs \in extractPacketIDs(names, Jar[v])  BY <3>1, <3>2
      <4> HIDE DEF v, names
      <4>2. names \subseteq protocolPackets(Range(Mapping[v])) =>
              /\ defs \subseteq Reference(v)
              /\ \A d, e \in defs : d.key = e.key => d = e
              /\ names = protocolPackets(Range(Mapping[v])) =>
                   {d.key : d \in defs} = {d.key : d \in Reference(v)}
        BY <4>1, ExtractedRight
      <4> QED  BY <3>3, <4>2, Zenon DEF v, names
    <3>5. Generate(r, gen[r].from, defs)  BY <2>3, <2>5
    <3> QED  BY <3>4, <3>5, GenerateStep
  <2> QED  BY <2>4, <2>5
<1>6. ASSUME NEW r \in Runs, fallbackDefinitions(r) PROVE GenInv'
  <2>1. gen[r].ver # "fallback"  BY VersionsAssumption DEF GenInv, RunType
  <2>2. Generate(r, "fallback", {})  BY <1>6 DEF fallbackDefinitions
  <2> QED  BY <2>1, <2>2, GenerateStep
<1> QED  BY <1>1, <1>2, <1>3, <1>4, <1>5, <1>6, LoadStep DEF GenNext

\* What is generated from the mappings of its own version is right, whatever was killed,
\* failed or overlapped before, for any versions and any number of runs on one cache
\* (jar.go:81-153, 202-207, 238-306, extract.go:10-102).
THEOREM GeneratesRight == GenSpec => []GeneratedRight
<1>1. GenInit => GenInv
  <2> SUFFICES ASSUME GenInit PROVE GenInv  OBVIOUS
  <2>1. \A v \in Versions : Fresh(v, "manifest") \in RunType /\ Fresh(v, "manifest").pc = "manifest"
    BY DEF Fresh, RunType, GenPcs
  <2>2. gen \in [Runs -> RunType] /\ \A r \in Runs : gen[r].pc = "manifest"
    BY <2>1 DEF GenInit
  <2>3. \A r \in Runs : RunOK(r)
    BY <2>2 DEF RunOK, NamesOK, MapCopied, JarCopied, JarPcs
  <2> QED  BY <2>2, <2>3 DEF GenInv, GenInit, GeneratedRight
<1>2. GenInv => GeneratedRight  BY DEF GenInv
<1> QED  BY <1>1, <1>2, GenStep, PTL DEF GenSpec
=============================================================================
