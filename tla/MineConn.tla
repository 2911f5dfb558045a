------------------------------ MODULE MineConn ------------------------------
(***************************************************************************)
(* MineConn (conn/conn.go) with the buffer pool (internal/pool.go): any    *)
(* number of writers, a reader that takes raw packets, and callers of      *)
(* Close, on one connection with a cipher.  The cipher is a place in its   *)
(* key stream: the peer can read a packet if it decrypts it at the place   *)
(* where it was encrypted.  Flow control is a counter of packets (module   *)
(* FlowController has the detail).                                         *)
(***************************************************************************)
EXTENDS Integers, Sequences, FiniteSetsExt

CONSTANTS
  Writers,      \* goroutines that call WritePacket
  UsesPriority, \* whether they call WritePacketPriority too
  FlowMax,      \* packets that FlowController admits at a time
  PoolCap,      \* capacity of bufPool (64 in the code)
  McPackets     \* bound: packets that the writers encrypt

ASSUME WritersAssumption == IsFiniteSet(Writers)

Closers == {"reader", "app"}   \* a reader that takes raw packets, and another goroutine
McProcs == Writers \cup Closers
Own == <<1, 2>>                \* readBuf and writeBuf, which no code uses

VARIABLES
  mc,      \* [closed, mu, conn, own, enc, flow]
  mcPc,    \* control point of each goroutine
  mcPkt,   \* the packet a writer writes, as its place in the key stream
  held,    \* the buffers a goroutine holds
  pool,    \* bufPool, a channel of buffers
  wireOut  \* the packets written, each as its place in the key stream

ConnVars == <<mc, mcPc, mcPkt, held, pool, wireOut>>

ConnInit ==
  /\ mc = [closed |-> FALSE, mu |-> FALSE, conn |-> "open", own |-> TRUE, enc |-> 0,
           flow |-> 0]
  /\ mcPc = [p \in McProcs |-> "idle"]
  /\ mcPkt = [w \in Writers |-> 0]
  /\ held = [p \in McProcs |-> {}]
  /\ pool = <<>> /\ wireOut = <<>>

McGoto(p, from, to) == mcPc[p] = from /\ mcPc' = [mcPc EXCEPT ![p] = to]

\* GetBuffer takes the oldest buffer of the pool, or a new one; PutBuffer drops
\* the buffer if the pool is full.  A recycled buffer that is too small is lost.
Pooled == {pool[i] : i \in 1..Len(pool)}
InUse == (UNION {held[p] : p \in McProcs}) \cup Pooled \cup (IF mc.own THEN {1, 2} ELSE {})
Fresh == CHOOSE b \in 1..(Cardinality(InUse) + 1) : b \notin InUse
GetBuffer(p) ==
  \/ /\ pool # <<>> /\ pool' = Tail(pool)
     /\ held' = [held EXCEPT ![p] = @ \cup {Head(pool)}]
  \/ /\ pool' = IF pool = <<>> THEN pool ELSE Tail(pool)
     /\ held' = [held EXCEPT ![p] = @ \cup {Fresh}]
Put(s, b) == IF Len(s) < PoolCap THEN Append(s, b) ELSE s

\* WritePacket: the check and the encryption, without a lock.
Encrypt ==
  /\ ~mc.closed /\ mc.enc < McPackets
  /\ mc' = [mc EXCEPT !.enc = @ + 1]
WritePacket(w) ==
  /\ McGoto(w, "idle", "acquire") /\ Encrypt
  /\ mcPkt' = [mcPkt EXCEPT ![w] = mc.enc]
  /\ UNCHANGED <<held, pool, wireOut>>
\* Flow control does not look at the closed flag.
WriteAcquire(w) ==
  /\ McGoto(w, "acquire", "get")
  /\ mc.flow < FlowMax /\ mc' = [mc EXCEPT !.flow = @ + 1]
  /\ UNCHANGED <<mcPkt, held, pool, wireOut>>
WriteGet(w) ==
  /\ McGoto(w, "get", "write") /\ GetBuffer(w)
  /\ UNCHANGED <<mc, mcPkt, wireOut>>
\* conn.Write of the frame; it fails on a closed connection.
WriteOut(w) ==
  /\ McGoto(w, "write", "put")
  /\ wireOut' = IF mc.conn = "open" THEN Append(wireOut, mcPkt[w]) ELSE wireOut
  /\ UNCHANGED <<mc, mcPkt, held, pool>>
WritePutOnError(w) ==  \* mutant of WritePut: no Release after a failed write
  /\ McGoto(w, "put", "idle")
  /\ \E b \in held[w] : pool' = Put(pool, b) /\ held' = [held EXCEPT ![w] = @ \ {b}]
  /\ mc' = [mc EXCEPT !.flow = IF mc.conn = "open" THEN @ - 1 ELSE @]
  /\ mcPkt' = [mcPkt EXCEPT ![w] = 0]
  /\ UNCHANGED wireOut
\* The buffer goes back, and the deferred Release runs on every path.
WritePut(w) ==
  /\ McGoto(w, "put", "idle")
  /\ \E b \in held[w] : pool' = Put(pool, b) /\ held' = [held EXCEPT ![w] = @ \ {b}]
  /\ mc' = [mc EXCEPT !.flow = @ - 1]
  /\ mcPkt' = [mcPkt EXCEPT ![w] = 0]
  /\ UNCHANGED wireOut

\* The packet is encrypted and queued; no code takes it out of the queue.
WritePacketPriority(w) ==
  /\ UsesPriority /\ mcPc[w] = "idle" /\ Encrypt
  /\ UNCHANGED <<mcPc, mcPkt, held, pool, wireOut>>

\* ReadRawPacket returns a buffer that the caller releases, once or more often;
\* an error closes the connection.
ReadRaw ==
  /\ mcPc["reader"] = "idle" /\ ~mc.closed /\ held["reader"] = {}
  /\ \/ mc.conn = "open" /\ GetBuffer("reader") /\ UNCHANGED mcPc
     \/ McGoto("reader", "idle", "close") /\ UNCHANGED <<held, pool>>
  /\ UNCHANGED <<mc, mcPkt, wireOut>>
ReleaseKeeps ==  \* mutant of ReleaseRaw: the packet keeps its buffer
  /\ \E b \in held["reader"] : pool' = Put(pool, b)
  /\ UNCHANGED <<mc, mcPc, mcPkt, held, wireOut>>
ReleaseRaw ==
  /\ \E b \in held["reader"] :
       pool' = Put(pool, b) /\ held' = [held EXCEPT !["reader"] = @ \ {b}]
  /\ UNCHANGED <<mc, mcPc, mcPkt, wireOut>>

\* Close sets the flag under its mutex, and then gives readBuf and writeBuf back
\* and closes the connection.  A later Close does nothing.
CloseCall ==
  /\ McGoto("app", "idle", "close")
  /\ UNCHANGED <<mc, mcPkt, held, pool, wireOut>>
CloseLock(p) ==
  /\ McGoto(p, "close", IF mc.closed THEN "done" ELSE "closing")
  /\ ~mc.mu /\ mc' = [mc EXCEPT !.mu = ~mc.closed, !.closed = TRUE]
  /\ UNCHANGED <<mcPkt, held, pool, wireOut>>
CloseConn(p) ==
  /\ McGoto(p, "closing", "done")
  /\ pool' = Put(Put(pool, Own[1]), Own[2])
  /\ mc' = [mc EXCEPT !.mu = FALSE, !.conn = "closed", !.own = FALSE]
  /\ UNCHANGED <<mcPkt, held, wireOut>>

\* The peer decrypts packets in the order in which they arrive.
PeerReads(i) == wireOut[i] = i - 1

WriteStep(w) == WriteAcquire(w) \/ WriteGet(w) \/ WriteOut(w) \/ WritePut(w)
ConnNext ==
  \/ \E w \in Writers : WritePacket(w) \/ WritePacketPriority(w) \/ WriteStep(w)
  \/ \E p \in Closers : CloseLock(p) \/ CloseConn(p)
  \/ ReadRaw \/ ReleaseRaw \/ CloseCall
MineConnSpec == ConnInit /\ [][ConnNext]_ConnVars
-----------------------------------------------------------------------------
\* A buffer has one owner: no two goroutines hold it, none holds a buffer that
\* is in the pool, and none is twice in the pool, although Close may be called
\* by the reader and by others at a time (conn.go:158-171, pool.go:17-39).
BuffersExclusive ==
  /\ \A i, j \in 1..Len(pool) : pool[i] = pool[j] => i = j
  /\ \A p \in McProcs : held[p] \cap Pooled = {}
  /\ \A p, q \in McProcs : p # q => held[p] \cap held[q] = {}
  /\ mc.own => {1, 2} \cap (Pooled \cup UNION {held[p] : p \in McProcs}) = {}

\* A call of WritePacket returns, also if the connection is closed meanwhile or
\* the write fails: what it acquired is released (conn.go:123-128).
WriterReturns == \A w \in Writers : mcPc[w] # "idle" ~> mcPc[w] = "idle"

\* The peer can decrypt what it reads (conn.go:112-129).
Readable == \A i \in 1..Len(wireOut) : PeerReads(i)
=============================================================================
