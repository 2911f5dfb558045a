-------------------------------- MODULE Mux --------------------------------
(***************************************************************************)
(* Two Mux values (tunnel/mux.go) joined by one physical connection.  At   *)
(* each end run the readLoop and the writeLoop that NewMux starts, and     *)
(* application goroutines that call the methods of Mux and MuxStream.  A   *)
(* step is one atomic operation of the code: one load or compare-and-swap  *)
(* of a flag, one operation on a sync.Map, a channel or the connection.    *)
(* Operations that no other goroutine can tell apart share a step.         *)
(***************************************************************************)
EXTENDS Naturals, Sequences

CONSTANTS
  Workers,     \* names of the application goroutines of each end
  Calls,       \* the calls the application of each end makes
  Unreliable,  \* whether the connection may break
  MaxStreams,  \* bound: OpenStream calls of one end
  MaxFrames,   \* bound for each end: frames put into its writeCh
  WriteCap,    \* capacity of Mux.writeCh (256 in the code)
  AcceptCap,   \* capacity of Mux.readCh (256 in the code)
  ReadCap,     \* capacity of MuxStream.readCh (64 in the code)
  WireCap      \* frames the connection buffers before Write blocks

Ends == {"dial", "listen"}
Peer(e) == IF e = "dial" THEN "listen" ELSE "dial"
Loops == {"readLoop", "writeLoop"}
CallName == {"OpenStream", "AcceptStream", "Read", "Write", "Close", "SetDeadline",
             "MuxClose", "Ping"}

ASSUME MuxAssumption ==
  /\ Workers \cap Loops = {}
  /\ Calls \subseteq Ends \X CallName
  /\ Unreliable \in BOOLEAN
  /\ MaxStreams \in Nat /\ MaxFrames \in [Ends -> Nat]
  /\ WriteCap \in Nat /\ AcceptCap \in Nat /\ ReadCap \in Nat /\ WireCap \in Nat

\* A goroutine: the end it runs at and its name.
AppProc == [end: Ends, name: Workers]
Proc == [end: Ends, name: Workers \cup Loops]
RL(e) == [end |-> e, name |-> "readLoop"]
WL(e) == [end |-> e, name |-> "writeLoop"]

\* A MuxStream value: the end that holds it, the end that opened the stream,
\* and the identifier its frames carry.
Ids == 1..MaxStreams
Obj == [at: Ends, opener: Ends, id: Ids]
NoObj == [at |-> "none", opener |-> "none", id |-> 0]
PeerObj(o) == [at |-> Peer(o.at), opener |-> o.opener, id |-> o.id]

\* n counts the frames that the end has put into writeCh; in a data frame it
\* also stands for the payload.
Frame == [type: {"data", "open", "close"}, stream: Ids, n: Nat]
           \cup [type: {"ping", "pong"}, stream: {0}, n: Nat]
NoFrame == [type |-> "none", stream |-> 0, n |-> 0]

VARIABLES
  pc,        \* control point of each goroutine
  arg,       \* the MuxStream a goroutine is working on
  hand,      \* the frame a loop has taken and not yet disposed of
  nextID,    \* Mux.nextID
  streams,   \* Mux.streams of both ends: at most one value per end and id
  closed,    \* ends whose Mux.closed is set
  stopped,   \* ends that have closed stopCh and the connection
  down,      \* ends whose reads and writes of the connection fail
  acceptCh,  \* Mux.readCh: the identifiers in its MuxOpen frames
  writeCh,   \* Mux.writeCh
  enq,       \* number of frames an end has put into writeCh
  wire,      \* frames the end has written and the peer has not read
  readCh,    \* MuxStream.readCh: payloads
  sclosed,   \* MuxStream values whose closed flag is set
  closes,    \* how often close(readCh) was executed on a MuxStream
  ready,     \* MuxStream values that OpenStream or AcceptStream returned
  wrote,     \* history: payloads the application wrote to a MuxStream
  got        \* history: payloads the application read from a MuxStream

mapVars == <<nextID, streams>>
flagVars == <<closed, stopped, down>>
sendVars == <<writeCh, enq>>
recvVars == <<acceptCh, wire, readCh>>
objVars == <<sclosed, closes>>
histVars == <<ready, wrote, got>>
vars == <<pc, arg, hand, mapVars, flagVars, sendVars, recvVars, objVars, histVars>>

Init ==
  /\ pc = [p \in Proc |-> IF p.name = "readLoop" THEN "check"
                          ELSE IF p.name = "writeLoop" THEN "select" ELSE "idle"]
  /\ arg = [p \in Proc |-> NoObj]
  /\ hand = [p \in Proc |-> NoFrame]
  /\ nextID = [e \in Ends |-> 0] /\ streams = {}
  /\ closed = {} /\ stopped = {} /\ down = {}
  /\ writeCh = [e \in Ends |-> <<>>] /\ enq = [e \in Ends |-> 0]
  /\ acceptCh = [e \in Ends |-> <<>>]
  /\ wire = [e \in Ends |-> <<>>]
  /\ readCh = [o \in Obj |-> <<>>]
  /\ sclosed = {} /\ closes = [o \in Obj |-> 0]
  /\ ready = {} /\ wrote = [o \in Obj |-> {}] /\ got = [o \in Obj |-> <<>>]

\* An application goroutine makes a call.
Call(p, name, to) ==
  /\ <<p.end, name>> \in Calls
  /\ pc[p] = "idle"
  /\ pc' = [pc EXCEPT ![p] = to]

Goto(p, from, to) == pc[p] = from /\ pc' = [pc EXCEPT ![p] = to]

\* The sync.Map: Load, Store and Delete.
EntryAnyId(e, i) == {o \in streams : o.at = e}  \* mutant of Entry: ignores the id
Entry(e, i) == {o \in streams : o.at = e /\ o.id = i}
Store(o) == streams' = (streams \ Entry(o.at, o.id)) \cup {o}
Delete(e, i) == streams' = streams \ Entry(e, i)

\* m.writeCh <- frame: blocks while the channel is full.
Send(e, type, i) ==
  /\ Len(writeCh[e]) < WriteCap
  /\ enq[e] < MaxFrames[e]
  /\ enq' = [enq EXCEPT ![e] = @ + 1]
  /\ writeCh' = [writeCh EXCEPT ![e] =
                   Append(@, [type |-> type, stream |-> i, n |-> enq[e] + 1])]

\* MuxStream.close() on each value of S: whoever sets the flag closes readCh.
CloseObjsTwice(S) ==  \* mutant of CloseObjs: closes without the compare-and-swap
  /\ sclosed' = sclosed \cup S
  /\ closes' = [o \in Obj |-> closes[o] + IF o \in S THEN 1 ELSE 0]
CloseObjs(S) ==
  /\ sclosed' = sclosed \cup S
  /\ closes' = [o \in Obj |-> closes[o] + IF o \in S \ sclosed THEN 1 ELSE 0]

(***************************************************************************)
(* OpenStream loads the closed flag, stores the stream, and sends MuxOpen  *)
(* last.  AcceptStream waits on Mux.readCh, then stores the stream.        *)
(***************************************************************************)
OpenStream(p) ==
  /\ Call(p, "OpenStream", "openStore")
  /\ p.end \notin closed
  /\ nextID[p.end] < MaxStreams
  /\ nextID' = [nextID EXCEPT ![p.end] = @ + 1]
  /\ arg' = [arg EXCEPT ![p] = [at |-> p.end, opener |-> p.end,
                                id |-> nextID[p.end] + 1]]
  /\ UNCHANGED <<hand, streams, flagVars, sendVars, recvVars, objVars, histVars>>

OpenStore(p) ==
  /\ Goto(p, "openStore", "openSend")
  /\ Store(arg[p])
  /\ UNCHANGED <<arg, hand, nextID, flagVars, sendVars, recvVars, objVars, histVars>>

OpenSend(p) ==
  /\ Goto(p, "openSend", "idle")
  /\ Send(p.end, "open", arg[p].id)
  /\ ready' = ready \cup {arg[p]}
  /\ arg' = [arg EXCEPT ![p] = NoObj]
  /\ UNCHANGED <<hand, mapVars, flagVars, recvVars, objVars, wrote, got>>

AcceptStream(p) ==
  /\ Call(p, "AcceptStream", "accept")
  /\ UNCHANGED <<arg, hand, mapVars, flagVars, sendVars, recvVars, objVars, histVars>>

AcceptRecv(p) ==
  /\ Goto(p, "accept", "acceptStore")
  /\ acceptCh[p.end] # <<>>
  /\ acceptCh' = [acceptCh EXCEPT ![p.end] = Tail(@)]
  /\ arg' = [arg EXCEPT ![p] = [at |-> p.end, opener |-> Peer(p.end),
                                id |-> Head(acceptCh[p.end])]]
  /\ UNCHANGED <<hand, mapVars, flagVars, sendVars, wire, readCh, objVars, histVars>>

AcceptStore(p) ==
  /\ Goto(p, "acceptStore", "idle")
  /\ Store(arg[p])
  /\ ready' = ready \cup {arg[p]}
  /\ arg' = [arg EXCEPT ![p] = NoObj]
  /\ UNCHANGED <<hand, nextID, flagVars, sendVars, recvVars, objVars, wrote, got>>

(***************************************************************************)
(* MuxStream.  A Read of a closed and empty channel returns io.EOF, and a  *)
(* Write or Close that finds the closed flag set returns at once: neither  *)
(* changes the state.                                                      *)
(***************************************************************************)
Read(p, o) ==
  /\ Call(p, "Read", "idle")
  /\ o \in ready /\ o.at = p.end
  /\ readCh[o] # <<>>
  /\ readCh' = [readCh EXCEPT ![o] = Tail(@)]
  /\ got' = [got EXCEPT ![o] = Append(@, Head(readCh[o]))]
  /\ UNCHANGED <<arg, hand, mapVars, flagVars, sendVars, acceptCh, wire, objVars,
                 ready, wrote>>

Write(p, o) ==
  /\ Call(p, "Write", "writeSend")
  /\ o \in ready \ sclosed /\ o.at = p.end
  /\ arg' = [arg EXCEPT ![p] = o]
  /\ UNCHANGED <<hand, mapVars, flagVars, sendVars, recvVars, objVars, histVars>>

WriteSend(p) ==
  /\ Goto(p, "writeSend", "idle")
  /\ Send(p.end, "data", arg[p].id)
  /\ wrote' = [wrote EXCEPT ![arg[p]] = @ \cup {enq[p.end] + 1}]
  /\ arg' = [arg EXCEPT ![p] = NoObj]
  /\ UNCHANGED <<hand, mapVars, flagVars, recvVars, objVars, ready, got>>

Close(p, o) ==
  /\ Call(p, "Close", "closeSend")
  /\ o \in ready \ sclosed /\ o.at = p.end
  /\ sclosed' = sclosed \cup {o}
  /\ arg' = [arg EXCEPT ![p] = o]
  /\ UNCHANGED <<hand, mapVars, flagVars, sendVars, recvVars, closes, histVars>>

CloseSend(p) ==
  /\ Goto(p, "closeSend", "closeDrop")
  /\ Send(p.end, "close", arg[p].id)
  /\ UNCHANGED <<arg, hand, mapVars, flagVars, recvVars, objVars, histVars>>

CloseDrop(p) ==
  /\ Goto(p, "closeDrop", "idle")
  /\ Delete(p.end, arg[p].id)
  /\ closes' = [closes EXCEPT ![arg[p]] = @ + 1]
  /\ arg' = [arg EXCEPT ![p] = NoObj]
  /\ UNCHANGED <<hand, nextID, flagVars, sendVars, recvVars, sclosed, histVars>>

\* SetDeadline of a stream sets the deadline of the shared connection; once it
\* has passed, the reads and writes of this end fail.
SetDeadline(p, o) ==
  /\ Call(p, "SetDeadline", "idle")
  /\ o \in ready /\ o.at = p.end
  /\ down' = down \cup {p.end}
  /\ UNCHANGED <<arg, hand, mapVars, closed, stopped, sendVars, recvVars, objVars,
                 histVars>>

(***************************************************************************)
(* Mux.Close, called by the application or by a loop that met an error:    *)
(* the compare-and-swap, then close() on every stored stream, then stopCh  *)
(* and the connection.  A caller that loses the compare-and-swap returns.  *)
(***************************************************************************)
Return(p) == IF p.name \in Loops THEN "done" ELSE "idle"

BeginClose(p, from) ==
  /\ Goto(p, from, IF p.end \in closed THEN Return(p) ELSE "closeRange")
  /\ closed' = closed \cup {p.end}

MuxClose(p) ==
  /\ <<p.end, "MuxClose">> \in Calls
  /\ BeginClose(p, "idle")
  /\ UNCHANGED <<arg, hand, mapVars, stopped, down, sendVars, recvVars, objVars,
                 histVars>>

MuxCloseRangeIdle(p) ==  \* mutant of MuxCloseRange: skips streams with payloads left
  /\ Goto(p, "closeRange", "closeFinish")
  /\ CloseObjs({o \in streams : o.at = p.end /\ readCh[o] = <<>>})
  /\ UNCHANGED <<arg, hand, mapVars, flagVars, sendVars, recvVars, histVars>>

MuxCloseRange(p) ==
  /\ Goto(p, "closeRange", "closeFinish")
  /\ CloseObjs({o \in streams : o.at = p.end})
  /\ UNCHANGED <<arg, hand, mapVars, flagVars, sendVars, recvVars, histVars>>

MuxCloseForgets(p) ==  \* mutant of MuxCloseFinish: forgets close(stopCh)
  /\ Goto(p, "closeFinish", Return(p))
  /\ down' = down \cup {p.end}
  /\ UNCHANGED <<arg, hand, mapVars, closed, stopped, sendVars, recvVars, objVars,
                 histVars>>

MuxCloseFinish(p) ==
  /\ Goto(p, "closeFinish", Return(p))
  /\ stopped' = stopped \cup {p.end}
  /\ down' = down \cup {p.end}
  /\ UNCHANGED <<arg, hand, mapVars, closed, sendVars, recvVars, objVars, histVars>>

(***************************************************************************)
(* readLoop reads a frame and dispatches on its type.  A data frame takes  *)
(* a second step: the stream is looked up, and its channel sent to later.  *)
(* A send on a closed channel panics; the deferred recover then ends the   *)
(* loop and leaves the Mux open.                                           *)
(***************************************************************************)
ReadCheck(e) ==
  /\ Goto(RL(e), "check", IF e \in closed THEN "done" ELSE "read")
  /\ UNCHANGED <<arg, hand, mapVars, flagVars, sendVars, recvVars, objVars, histVars>>

\* readFrame returns a frame of one of the types, and the loop goes on at to.
Incoming(e) == Head(wire[Peer(e)])
ReadFrame(e, types, to) ==
  /\ e \notin down
  /\ wire[Peer(e)] # <<>>
  /\ Incoming(e).type \in types
  /\ Goto(RL(e), "read", to)
  /\ wire' = [wire EXCEPT ![Peer(e)] = Tail(@)]
  /\ UNCHANGED <<nextID, flagVars, sendVars, readCh, histVars>>

ReadData(e, o) ==
  /\ ReadFrame(e, {"data"}, "deliver")
  /\ o \in Entry(e, Incoming(e).stream)
  /\ arg' = [arg EXCEPT ![RL(e)] = o]
  /\ hand' = [hand EXCEPT ![RL(e)] = Incoming(e)]
  /\ UNCHANGED <<streams, acceptCh, objVars>>

ReadUnknown(e) ==
  /\ ReadFrame(e, {"data"}, "check")
  /\ Entry(e, Incoming(e).stream) = {}
  /\ UNCHANGED <<arg, hand, streams, acceptCh, objVars>>

DeliverBlocking(e) ==  \* mutant of Deliver: waits for room instead of dropping
  LET o == arg[RL(e)] IN
  /\ Goto(RL(e), "deliver", "check")
  /\ closes[o] = 0 /\ Len(readCh[o]) < ReadCap
  /\ readCh' = [readCh EXCEPT ![o] = Append(@, hand[RL(e)].n)]
  /\ arg' = [arg EXCEPT ![RL(e)] = NoObj]
  /\ hand' = [hand EXCEPT ![RL(e)] = NoFrame]
  /\ UNCHANGED <<mapVars, flagVars, sendVars, acceptCh, wire, objVars, histVars>>

Deliver(e) ==
  LET o == arg[RL(e)] IN
  /\ Goto(RL(e), "deliver", IF closes[o] > 0 THEN "panicked" ELSE "check")
  /\ readCh' = IF closes[o] = 0 /\ Len(readCh[o]) < ReadCap
               THEN [readCh EXCEPT ![o] = Append(@, hand[RL(e)].n)]
               ELSE readCh
  /\ arg' = [arg EXCEPT ![RL(e)] = NoObj]
  /\ hand' = [hand EXCEPT ![RL(e)] = NoFrame]
  /\ UNCHANGED <<mapVars, flagVars, sendVars, acceptCh, wire, objVars, histVars>>

ReadOpenUnbounded(e) ==  \* mutant of ReadOpen: no limit on pending opens
  /\ ReadFrame(e, {"open"}, "check")
  /\ acceptCh' = [acceptCh EXCEPT ![e] = Append(@, Incoming(e).stream)]
  /\ UNCHANGED <<arg, hand, streams, objVars>>

ReadOpen(e) ==
  /\ ReadFrame(e, {"open"}, "check")
  /\ acceptCh' = IF Len(acceptCh[e]) < AcceptCap
                 THEN [acceptCh EXCEPT ![e] = Append(@, Incoming(e).stream)]
                 ELSE acceptCh
  /\ UNCHANGED <<arg, hand, streams, objVars>>

ReadCloseForgets(e) ==  \* mutant of ReadClose: deletes without close()
  /\ ReadFrame(e, {"close"}, "check")
  /\ Delete(e, Incoming(e).stream)
  /\ UNCHANGED <<arg, hand, acceptCh, objVars>>

ReadClose(e) ==
  /\ ReadFrame(e, {"close"}, "check")
  /\ Delete(e, Incoming(e).stream)
  /\ CloseObjs(Entry(e, Incoming(e).stream))
  /\ UNCHANGED <<arg, hand, acceptCh>>

ReadKeepalive(e) ==
  /\ ReadFrame(e, {"ping", "pong"}, IF Incoming(e).type = "ping" THEN "pong" ELSE "check")
  /\ UNCHANGED <<arg, hand, streams, acceptCh, objVars>>

SendPong(e) ==
  /\ Goto(RL(e), "pong", "check")
  /\ Send(e, "pong", 0)
  /\ UNCHANGED <<arg, hand, mapVars, flagVars, recvVars, objVars, histVars>>

\* The connection fails at this end, or the peer has closed it (frames on
\* their way may then be lost): both loops answer with Mux.Close.
ConnFails(e) == e \in down \/ Peer(e) \in stopped

ReadErrorReturns(e) ==  \* mutant of ReadError: returns without Mux.Close
  /\ ConnFails(e)
  /\ Goto(RL(e), "read", "done")
  /\ UNCHANGED <<arg, hand, mapVars, flagVars, sendVars, recvVars, objVars, histVars>>

ReadError(e) ==
  /\ ConnFails(e)
  /\ BeginClose(RL(e), "read")
  /\ UNCHANGED <<arg, hand, mapVars, stopped, down, sendVars, recvVars, objVars,
                 histVars>>

(***************************************************************************)
(* writeLoop.  A frame that is taken after the Mux was closed is dropped.  *)
(***************************************************************************)
WriteTake(e) ==
  /\ Goto(WL(e), "select", IF e \in closed THEN "done" ELSE "write")
  /\ writeCh[e] # <<>>
  /\ writeCh' = [writeCh EXCEPT ![e] = Tail(@)]
  /\ hand' = IF e \in closed THEN hand ELSE [hand EXCEPT ![WL(e)] = Head(writeCh[e])]
  /\ UNCHANGED <<arg, mapVars, flagVars, enq, recvVars, objVars, histVars>>

WriteStop(e) ==
  /\ Goto(WL(e), "select", "done")
  /\ e \in stopped
  /\ UNCHANGED <<arg, hand, mapVars, flagVars, sendVars, recvVars, objVars, histVars>>

WriteFrameAgain(e) ==  \* mutant of WriteFrame: the frame may be written again
  /\ Goto(WL(e), "write", "write") \/ Goto(WL(e), "write", "select")
  /\ e \notin down
  /\ Len(wire[e]) < WireCap
  /\ wire' = [wire EXCEPT ![e] = Append(@, hand[WL(e)])]
  /\ UNCHANGED <<arg, hand, mapVars, flagVars, sendVars, acceptCh, readCh, objVars,
                 histVars>>

WriteFrame(e) ==
  /\ Goto(WL(e), "write", "select")
  /\ e \notin down
  /\ Len(wire[e]) < WireCap
  /\ wire' = [wire EXCEPT ![e] = Append(@, hand[WL(e)])]
  /\ hand' = [hand EXCEPT ![WL(e)] = NoFrame]
  /\ UNCHANGED <<arg, mapVars, flagVars, sendVars, acceptCh, readCh, objVars, histVars>>

WriteError(e) ==
  /\ ConnFails(e)
  /\ BeginClose(WL(e), "write")
  /\ hand' = [hand EXCEPT ![WL(e)] = NoFrame]
  /\ UNCHANGED <<arg, mapVars, stopped, down, sendVars, recvVars, objVars, histVars>>

\* The environment: the connection breaks; a foreign sender puts a MuxPing into
\* writeCh (the code declares and answers that frame and never sends it).
ConnBreak ==
  /\ Unreliable
  /\ down' = Ends
  /\ UNCHANGED <<pc, arg, hand, mapVars, closed, stopped, sendVars, recvVars,
                 objVars, histVars>>

Ping(e) ==
  /\ <<e, "Ping">> \in Calls
  /\ Send(e, "ping", 0)
  /\ UNCHANGED <<pc, arg, hand, mapVars, flagVars, recvVars, objVars, histVars>>

AppNext(p) ==
  \/ OpenStream(p) \/ AcceptStream(p) \/ MuxClose(p)
  \/ \E o \in Obj : Read(p, o) \/ Write(p, o) \/ Close(p, o) \/ SetDeadline(p, o)

\* The steps of a goroutine that is inside a call.
InCall(p) ==
  \/ OpenStore(p) \/ OpenSend(p) \/ AcceptRecv(p) \/ AcceptStore(p)
  \/ WriteSend(p) \/ CloseSend(p) \/ CloseDrop(p)

CloseNext(p) == MuxCloseRange(p) \/ MuxCloseFinish(p)

ReadNext(e) ==
  \/ ReadCheck(e) \/ ReadUnknown(e) \/ Deliver(e) \/ ReadOpen(e) \/ ReadClose(e)
  \/ ReadKeepalive(e) \/ SendPong(e) \/ ReadError(e)
  \/ \E o \in Obj : ReadData(e, o)

WriteNext(e) == WriteTake(e) \/ WriteStop(e) \/ WriteFrame(e) \/ WriteError(e)

Next ==
  \/ \E p \in AppProc : AppNext(p) \/ InCall(p)
  \/ \E p \in Proc : CloseNext(p)
  \/ \E e \in Ends : ReadNext(e) \/ WriteNext(e) \/ Ping(e)
  \/ ConnBreak

Spec == Init /\ [][Next]_vars

\* Go runs every goroutine that can run, so the loops and the calls in
\* progress move on.  Nothing obliges the application to make a call.
Fairness ==
  /\ \A e \in Ends : WF_vars(ReadNext(e)) /\ WF_vars(WriteNext(e))
  /\ \A p \in AppProc : WF_vars(InCall(p))
  /\ \A p \in Proc : WF_vars(CloseNext(p))

FairSpec == Spec /\ Fairness
=============================================================================
