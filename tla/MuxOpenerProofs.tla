--------------------------- MODULE MuxOpenerProofs --------------------------
(***************************************************************************)
(* Two steps towards what the ends of a stream see of each other.          *)
(*   - close(readCh) runs at most once on every MuxStream.  CloseOnce is   *)
(*     not inductive: MuxStream.Close sets the closed flag two steps       *)
(*     before it closes the channel.  CloseInv says who owns the pending   *)
(*     close: it belongs to the one goroutine that set the flag.           *)
(*   - In a pair of Muxes of which only one opens streams (both count      *)
(*     their identifiers from one, so two openers confuse their streams),  *)
(*     every stream in use is one that this end opened, and a frame on its *)
(*     way tells the truth about the end that sent it.  So an end has at   *)
(*     most one MuxStream value for an identifier, whatever was opened,    *)
(*     accepted and closed before.                                         *)
(***************************************************************************)
EXTENDS MuxProofs

Closing == {"closeSend", "closeDrop"}

CloseInv ==
  /\ \A o \in Obj : closes[o] \in {0, 1} /\ (closes[o] = 1 => o \in sclosed)
  /\ \A p \in AppProc : pc[p] \in Closing => arg[p] \in sclosed /\ closes[arg[p]] = 0
  /\ \A p, q \in AppProc :
       pc[p] \in Closing /\ pc[q] \in Closing /\ arg[p] = arg[q] => p = q

\* A step that leaves the flags alone and starts no MuxStream.Close.
LEMMA CloseQuiet ==
  ASSUME CloseInv, UNCHANGED objVars,
         \A p \in AppProc : pc'[p] \in Closing => pc[p] \in Closing /\ arg'[p] = arg[p]
  PROVE  CloseInv'
BY DEF CloseInv, objVars

\* MuxStream.close() leaves streams alone whose flag is set, so it never
\* touches the stream of a pending MuxStream.Close.
LEMMA CloseMany ==
  ASSUME TypeInv, CloseInv, NEW S \in SUBSET Obj, CloseObjs(S),
         \A p \in AppProc : pc'[p] \in Closing => pc[p] \in Closing /\ arg'[p] = arg[p]
  PROVE  CloseInv'
<1>1. \A p \in AppProc : pc[p] \in Closing => arg[p] \in Obj
  BY Indices DEF TypeInv, InHand, HandOK, Closing, Working
<1>2. \A o \in Obj : closes'[o] \in {0, 1} /\ (closes'[o] = 1 => o \in sclosed')
  BY DEF CloseInv, CloseObjs
<1>3. \A p \in AppProc : pc'[p] \in Closing => arg'[p] \in sclosed' /\ closes'[arg'[p]] = 0
  BY <1>1 DEF CloseInv, CloseObjs
<1> QED
  BY <1>2, <1>3 DEF CloseInv

\* Every step preserves CloseInv.
LEMMA CloseStep == TypeInv /\ CloseInv /\ [Next]_vars => CloseInv'
<1> SUFFICES ASSUME TypeInv, CloseInv, [Next]_vars PROVE CloseInv'
  OBVIOUS
<1> USE Indices DEF objVars
<1>0. PcOK /\ DataOK /\ InHand
  BY DEF TypeInv, TypeOK
<1>1. ASSUME NEW p \in AppProc, AppNext(p) \/ InCall(p) PROVE CloseInv'
  <2>1. ASSUME NEW o \in Obj, Close(p, o) PROVE CloseInv'
    BY <1>0, <2>1 DEF Close, Call, CloseInv, Closing, PcOK, DataOK
  <2>2. CASE CloseSend(p)
    BY <1>0, <2>2, CloseQuiet DEF CloseSend, Goto, Closing, PcOK
  <2>3. CASE CloseDrop(p)
    <3>1. arg[p] \in Obj
      BY <1>0, <2>3 DEF CloseDrop, Goto, InHand, HandOK, Working
    <3> QED
      BY <1>0, <2>3, <3>1 DEF CloseDrop, Goto, CloseInv, Closing, PcOK, DataOK
  <2>4. CASE OpenStream(p) \/ AcceptStream(p) \/ \E o \in Obj : Read(p, o) \/ Write(p, o) \/ SetDeadline(p, o)
    BY <1>0, <2>4, CloseQuiet
       DEF OpenStream, AcceptStream, Read, Write, SetDeadline, Call, Closing, PcOK, DataOK
  <2>5. CASE MuxClose(p)
    BY <1>0, <2>5, CloseQuiet DEF MuxClose, BeginClose, Return, Goto, Closing, PcOK
  <2>6. CASE OpenStore(p) \/ OpenSend(p) \/ AcceptRecv(p) \/ AcceptStore(p) \/ WriteSend(p)
    BY <1>0, <2>6, CloseQuiet
       DEF OpenStore, OpenSend, AcceptRecv, AcceptStore, WriteSend, Goto, Closing, PcOK, DataOK
  <2> QED
    BY <1>1, <2>1, <2>2, <2>3, <2>4, <2>5, <2>6 DEF AppNext, InCall
<1>2. ASSUME NEW p \in Proc, CloseNext(p) PROVE CloseInv'
  <2>1. CASE MuxCloseRange(p)
    BY <1>0, <2>1, CloseMany DEF MuxCloseRange, Goto, Closing, PcOK, DataOK
  <2>2. CASE MuxCloseFinish(p)
    BY <1>0, <2>2, CloseQuiet DEF MuxCloseFinish, Goto, Return, Closing, PcOK
  <2> QED
    BY <1>2, <2>1, <2>2 DEF CloseNext
<1>3. ASSUME NEW e \in Ends, ReadNext(e) PROVE CloseInv'
  <2>1. CASE ReadClose(e)
    BY <1>0, <2>1, CloseMany DEF ReadClose, ReadFrame, Entry, Goto, PcOK, DataOK
  <2>2. CASE ReadCheck(e) \/ ReadUnknown(e) \/ ReadOpen(e) \/ ReadKeepalive(e) \/ SendPong(e)
    BY <1>0, <2>2, CloseQuiet, SMTT(30)
       DEF ReadCheck, ReadUnknown, ReadOpen, ReadKeepalive, SendPong, ReadFrame, Goto, PcOK
  <2>3. CASE Deliver(e) \/ ReadError(e) \/ \E o \in Obj : ReadData(e, o)
    BY <1>0, <2>3, CloseQuiet, SMTT(30)
       DEF Deliver, ReadError, ReadData, ReadFrame, BeginClose, Goto, PcOK, DataOK
  <2> QED
    BY <1>3, <2>1, <2>2, <2>3 DEF ReadNext
<1>4. ASSUME NEW e \in Ends, WriteNext(e) PROVE CloseInv'
  <2>1. CASE WriteTake(e) \/ WriteStop(e)
    BY <1>0, <2>1, CloseQuiet DEF WriteTake, WriteStop, Goto, PcOK
  <2>2. CASE WriteFrame(e) \/ WriteError(e)
    BY <1>0, <2>2, CloseQuiet, SMTT(30) DEF WriteFrame, WriteError, BeginClose, Goto, PcOK
  <2> QED
    BY <1>4, <2>1, <2>2 DEF WriteNext
<1>5. CASE ConnBreak \/ (\E e \in Ends : Ping(e)) \/ UNCHANGED vars
  BY <1>5, CloseQuiet DEF ConnBreak, Ping, vars
<1> QED
  BY <1>1, <1>2, <1>3, <1>4, <1>5 DEF Next

\* At the start no channel of a stream is closed.
LEMMA CloseInit == Init => CloseInv
BY Indices DEF Init, CloseInv, Closing, Loops

\* On every MuxStream, close(readCh) is executed at most once, for any number of
\* goroutines that close the stream, the Mux, or receive a MuxClose for it.
THEOREM ClosedOnce == Spec => []CloseOnce
<1>1. CloseInv => CloseOnce
  BY DEF CloseInv, CloseOnce
<1> QED
  BY <1>1, TypeInit, TypeStep, CloseInit, CloseStep, PTL DEF Spec
-----------------------------------------------------------------------------
SingleOpener == \E d \in Ends : <<Peer(d), "OpenStream">> \notin Calls

\* The MuxStream value that end e can have for identifier i, if d opens.
Value(d, e, i) == [at |-> e, opener |-> d, id |-> i]

\* The frames that end e has sent and its peer has not read.
WLFrame(e) == IF pc[WL(e)] = "write" THEN {hand[WL(e)]} ELSE {}
OnItsWay(e) == Elems(writeCh[e]) \cup WLFrame(e) \cup Elems(wire[e])

\* A frame tells the truth about the end that sent it.
FrameOK(d, e, f) ==
  /\ f.type = "open" => e = d
  /\ f.type = "data" => f.n \in wrote[Value(d, e, f.stream)]
  /\ f.type = "close" => Value(d, e, f.stream) \in sclosed
SentInv(d) == \A e \in Ends : \A f \in OnItsWay(e) : FrameOK(d, e, f)

\* Whatever is in use belongs to a stream that d opened.
Opening == {"openStore", "openSend"}
OpenerInv(d) ==
  /\ \A o \in streams \cup ready : o.opener = d
  /\ \A p \in Proc : pc[p] \in Working => arg[p].opener = d
  /\ \A p \in AppProc : pc[p] \in Opening => p.end = d
  /\ acceptCh[d] = <<>>

\* Two values of one end with one identifier and one opener are the same.
LEMMA ValueUnique ==
  /\ \A d, e \in Ends, i \in Ids : Value(d, e, i) \in Obj
  /\ \A o \in Obj : /\ o = Value(o.opener, o.at, o.id)
                    /\ o.at \in Ends /\ o.id \in Ids
                    /\ PeerObj(o) = Value(o.opener, Peer(o.at), o.id)
                    /\ PeerObj(o) \in Obj /\ PeerObj(PeerObj(o)) = o
BY Indices DEF Obj, Value, PeerObj

\* The elements of a queue that has grown or shrunk.
LEMMA AppendSet ==
  ASSUME NEW S, NEW q \in Seq(S), NEW x \in S
  PROVE  Elems(Append(q, x)) = Elems(q) \cup {x}
<1>1. /\ Append(q, x) \in Seq(S) /\ Len(Append(q, x)) = Len(q) + 1 /\ Len(q) \in Nat
      /\ \A k \in 1..Len(q) : Append(q, x)[k] = q[k]
      /\ Append(q, x)[Len(q) + 1] = x
  BY AppendProperties, LenProperties
<1> QED
  BY <1>1 DEF Elems

\* The head of a queue is in it, and its tail holds nothing new.
LEMMA TailSet ==
  ASSUME NEW S, NEW q \in Seq(S), q # <<>>
  PROVE  Head(q) \in Elems(q) /\ Elems(Tail(q)) \subseteq Elems(q)
<1>1. /\ Tail(q) \in Seq(S) /\ Len(Tail(q)) = Len(q) - 1 /\ Len(q) \in Nat /\ Len(q) > 0
      /\ \A k \in 1..Len(q) - 1 : Tail(q)[k] = q[k + 1]
      /\ Head(q) = q[1]
  BY HeadTailProperties, LenProperties, EmptySeq
<1>2. \A k \in 1..Len(Tail(q)) : k + 1 \in 1..Len(q) /\ Tail(q)[k] = q[k + 1]
  BY <1>1
<1> QED
  BY <1>1, <1>2 DEF Elems

\* Closed flags stay set, and the history of what was written grows.
LEMMA Grows ==
  ASSUME TypeInv, [Next]_vars
  PROVE  sclosed \subseteq sclosed' /\ \A o \in Obj : wrote[o] \subseteq wrote'[o]
<1> USE DEF objVars, histVars
<1>1. ASSUME NEW p \in AppProc, AppNext(p) \/ InCall(p)
      PROVE  sclosed \subseteq sclosed' /\ \A o \in Obj : wrote[o] \subseteq wrote'[o]
  <2>1. CASE WriteSend(p)
    BY <2>1 DEF WriteSend, TypeInv, TypeOK, DataOK
  <2>2. CASE ~WriteSend(p)
    BY <1>1, <2>2 DEF AppNext, InCall, OpenStream, AcceptStream, MuxClose, Read, Write, Close,
       SetDeadline, OpenStore, OpenSend, AcceptRecv, AcceptStore, CloseSend, CloseDrop
  <2> QED
    BY <2>1, <2>2
<1>2. ASSUME NEW p \in Proc, CloseNext(p)
      PROVE  sclosed \subseteq sclosed' /\ UNCHANGED wrote
  BY <1>2 DEF CloseNext, MuxCloseRange, MuxCloseFinish, CloseObjs
<1>3. ASSUME NEW e \in Ends, ReadNext(e)
      PROVE  sclosed \subseteq sclosed' /\ UNCHANGED wrote
  BY <1>3 DEF ReadNext, ReadCheck, ReadUnknown, Deliver, ReadOpen, ReadClose, ReadKeepalive,
     SendPong, ReadError, ReadData, ReadFrame, CloseObjs
<1>4. ASSUME NEW e \in Ends, WriteNext(e) \/ Ping(e) PROVE UNCHANGED <<sclosed, wrote>>
  BY <1>4 DEF WriteNext, WriteTake, WriteStop, WriteFrame, WriteError, Ping
<1>5. CASE ConnBreak \/ UNCHANGED vars
  BY <1>5 DEF ConnBreak, vars
<1> QED
  BY <1>1, <1>2, <1>3, <1>4, <1>5 DEF Next

\* A step of a goroutine changes neither where the others are nor what they hold.
LEMMA AppMoves ==
  ASSUME TypeInv, NEW p \in AppProc, AppNext(p) \/ InCall(p)
  PROVE  OthersKeep(p) /\ UNCHANGED hand
<1>1. \E to : pc' = [pc EXCEPT ![p] = to]
  <2>1. CASE AppNext(p)
    BY <2>1 DEF AppNext, OpenStream, AcceptStream, MuxClose, BeginClose, Read, Write,
       Close, SetDeadline, Call, Goto
  <2>2. CASE InCall(p)
    BY <2>2 DEF InCall, OpenStore, OpenSend, AcceptRecv, AcceptStore, WriteSend, CloseSend,
       CloseDrop, Goto
  <2> QED
    BY <2>1, <2>2
<1>2. UNCHANGED hand /\ (arg' = arg \/ \E o : arg' = [arg EXCEPT ![p] = o])
  BY DEF AppNext, InCall, OpenStream, AcceptStream, MuxClose, Read, Write,
     Close, SetDeadline, OpenStore, OpenSend, AcceptRecv, AcceptStore, WriteSend, CloseSend,
     CloseDrop
<1> QED
  BY <1>1, <1>2 DEF TypeInv, TypeOK, PcOK, DataOK, OthersKeep

\* A step of Mux.Close moves one goroutine.
LEMMA CloseMoves ==
  ASSUME TypeInv, NEW p \in Proc, CloseNext(p)
  PROVE  OthersKeep(p) /\ UNCHANGED <<arg, hand>>
BY DEF CloseNext, MuxCloseRange, MuxCloseFinish, Goto, TypeInv, TypeOK, PcOK, OthersKeep

\* A step of readLoop moves that goroutine only.
LEMMA ReadMoves ==
  ASSUME TypeInv, NEW e \in Ends, ReadNext(e)
  PROVE  OthersKeep(RL(e))
<1>1. \E to : pc' = [pc EXCEPT ![RL(e)] = to]
  BY DEF ReadNext, ReadCheck, ReadUnknown, Deliver, ReadOpen, ReadClose, ReadKeepalive,
     SendPong, ReadError, BeginClose, ReadData, ReadFrame, Goto
<1>2. /\ arg' = arg \/ \E o : arg' = [arg EXCEPT ![RL(e)] = o]
      /\ hand' = hand \/ \E f : hand' = [hand EXCEPT ![RL(e)] = f]
  BY DEF ReadNext, ReadCheck, ReadUnknown, Deliver, ReadOpen, ReadClose, ReadKeepalive,
     SendPong, ReadError, ReadData
<1> QED
  BY <1>1, <1>2 DEF TypeInv, TypeOK, PcOK, DataOK, OthersKeep

\* A step of writeLoop moves that goroutine only.
LEMMA WriteMoves ==
  ASSUME TypeInv, NEW e \in Ends, WriteNext(e)
  PROVE  OthersKeep(WL(e)) /\ UNCHANGED arg
<1>1. \E to : pc' = [pc EXCEPT ![WL(e)] = to]
  BY DEF WriteNext, WriteTake, WriteStop, WriteFrame, WriteError, BeginClose, Goto
<1>2. UNCHANGED arg /\ (hand' = hand \/ \E f : hand' = [hand EXCEPT ![WL(e)] = f])
  BY DEF WriteNext, WriteTake, WriteStop, WriteFrame, WriteError
<1> QED
  BY <1>1, <1>2 DEF TypeInv, TypeOK, PcOK, DataOK, OthersKeep

\* Sending adds one frame to those on their way.
LEMMA SendWay ==
  ASSUME TypeInv, NEW s \in Ends, NEW t, NEW i,
         \/ t \in {"data", "open", "close"} /\ i \in Ids
         \/ t \in {"ping", "pong"} /\ i = 0,
         Send(s, t, i), UNCHANGED wire, \A e \in Ends : WLFrame(e)' = WLFrame(e)
  PROVE  /\ OnItsWay(s)' = OnItsWay(s) \cup {[type |-> t, stream |-> i, n |-> enq[s] + 1]}
         /\ \A e \in Ends : e # s => OnItsWay(e)' = OnItsWay(e)
<1> DEFINE f == [type |-> t, stream |-> i, n |-> enq[s] + 1]
<1>1. writeCh[s] \in Seq(Frame) /\ f \in Frame
  BY DEF TypeInv, TypeOK, DataOK, ChanOK, QueueOK, Frame
<1>2. /\ \A e \in Ends : e # s => writeCh'[e] = writeCh[e]
      /\ writeCh'[s] = Append(writeCh[s], f)
  BY DEF Send, TypeInv, TypeOK, ChanOK
<1> HIDE DEF f
<1>3. Elems(writeCh'[s]) = Elems(writeCh[s]) \cup {f}
  BY <1>1, <1>2, AppendSet
<1>4. OnItsWay(s)' = OnItsWay(s) \cup {f}
  BY <1>3 DEF OnItsWay
<1>5. \A e \in Ends : e # s => OnItsWay(e)' = OnItsWay(e)
  BY <1>2 DEF OnItsWay
<1> QED
  BY <1>4, <1>5 DEF f

\* The frame that an application goroutine or a loop has just sent.
Sent(e, f) ==
  \/ f.type \in {"ping", "pong"}
  \/ \E p \in AppProc :
       /\ p.end = e /\ f.stream = arg[p].id
       /\ \/ OpenSend(p) /\ f.type = "open"
          \/ WriteSend(p) /\ f.type = "data" /\ f.n = enq[e] + 1
          \/ CloseSend(p) /\ f.type = "close"

\* A frame that is on its way after a step was so before, or was just sent.
LEMMA WayStep ==
  ASSUME TypeInv, [Next]_vars
  PROVE  \A e \in Ends : \A f \in OnItsWay(e)' : f \in OnItsWay(e) \/ Sent(e, f)
<1> USE DEF sendVars, recvVars
<1> DEFINE Goal == \A e \in Ends : \A f \in OnItsWay(e)' : f \in OnItsWay(e) \/ Sent(e, f)
<1>0. PcOK /\ DataOK /\ ChanOK /\ InHand
  BY DEF TypeInv, TypeOK
<1>q. ASSUME UNCHANGED <<writeCh, wire>>, \A e \in Ends : WLFrame(e)' \subseteq WLFrame(e)
      PROVE  Goal
  BY <1>q DEF OnItsWay
<1>1. ASSUME NEW p \in AppProc, AppNext(p) \/ InCall(p) PROVE Goal
  <2>m. ASSUME NEW to, pc' = [pc EXCEPT ![p] = to], UNCHANGED hand
        PROVE  \A e \in Ends : WLFrame(e)' = WLFrame(e)
    BY Indices, <1>0, <2>m DEF WLFrame, PcOK
  <2>o. pc[p] \in {"openSend", "writeSend", "closeSend"} => arg[p].id \in Ids
    BY Indices, <1>0 DEF InHand, HandOK, Working, Obj
  <2> DEFINE new(t) == [type |-> t, stream |-> arg[p].id, n |-> enq[p.end] + 1]
  <2>s. ASSUME NEW t \in {"data", "open", "close"}, Send(p.end, t, arg[p].id), arg[p].id \in Ids,
               UNCHANGED <<wire, hand>>, NEW to, pc' = [pc EXCEPT ![p] = to]
        PROVE  /\ OnItsWay(p.end)' = OnItsWay(p.end) \cup {new(t)}
               /\ \A e \in Ends : e # p.end => OnItsWay(e)' = OnItsWay(e)
    BY Indices, <2>s, <2>m, SendWay
  <2>1. CASE OpenSend(p)
    <3>1. /\ OnItsWay(p.end)' = OnItsWay(p.end) \cup {new("open")}
          /\ \A e \in Ends : e # p.end => OnItsWay(e)' = OnItsWay(e)
      BY <2>1, <2>o, <2>s DEF OpenSend, Goto
    <3>2. Sent(p.end, new("open"))
      BY <2>1 DEF Sent
    <3> QED
      BY <3>1, <3>2
  <2>2. CASE WriteSend(p)
    <3>1. /\ OnItsWay(p.end)' = OnItsWay(p.end) \cup {new("data")}
          /\ \A e \in Ends : e # p.end => OnItsWay(e)' = OnItsWay(e)
      BY <2>2, <2>o, <2>s DEF WriteSend, Goto
    <3>2. Sent(p.end, new("data"))
      BY <2>2 DEF Sent
    <3> QED
      BY <3>1, <3>2
  <2>3. CASE CloseSend(p)
    <3>1. /\ OnItsWay(p.end)' = OnItsWay(p.end) \cup {new("close")}
          /\ \A e \in Ends : e # p.end => OnItsWay(e)' = OnItsWay(e)
      BY <2>3, <2>o, <2>s DEF CloseSend, Goto
    <3>2. Sent(p.end, new("close"))
      BY <2>3 DEF Sent
    <3> QED
      BY <3>1, <3>2
  <2> HIDE DEF Goal
  <2>4. CASE OpenStream(p) \/ AcceptStream(p) \/ MuxClose(p)
             \/ \E o \in Obj : Read(p, o) \/ Write(p, o) \/ Close(p, o) \/ SetDeadline(p, o)
    BY <2>4, <2>m, <1>q
       DEF OpenStream, AcceptStream, MuxClose, BeginClose, Read, Write, Close, SetDeadline, Call, Goto
  <2>5. CASE OpenStore(p) \/ AcceptRecv(p) \/ AcceptStore(p) \/ CloseDrop(p)
    BY <2>5, <2>m, <1>q DEF OpenStore, AcceptRecv, AcceptStore, CloseDrop, Goto
  <2> QED
    BY <1>1, <2>1, <2>2, <2>3, <2>4, <2>5 DEF AppNext, InCall
<1>2. ASSUME NEW p \in Proc, CloseNext(p) PROVE Goal
  <2>1. UNCHANGED <<writeCh, wire>>
    BY <1>2 DEF CloseNext, MuxCloseRange, MuxCloseFinish
  <2>2. \A e \in Ends : WLFrame(e)' \subseteq WLFrame(e)
    BY Indices, <1>0, <1>2 DEF CloseNext, MuxCloseRange, MuxCloseFinish, Return, Goto, WLFrame, PcOK
  <2> QED
    BY <2>1, <2>2, <1>q
<1>3. ASSUME NEW r \in Ends, ReadNext(r) PROVE Goal
  <2>m. ASSUME NEW to, pc' = [pc EXCEPT ![RL(r)] = to],
               hand' = hand \/ \E f : hand' = [hand EXCEPT ![RL(r)] = f]
        PROVE  \A e \in Ends : WLFrame(e)' = WLFrame(e)
    BY Indices, <1>0, <2>m DEF WLFrame, PcOK, DataOK
  <2>f. ASSUME NEW T, NEW to, ReadFrame(r, T, to),
               hand' = hand \/ \E f : hand' = [hand EXCEPT ![RL(r)] = f]
        PROVE  Goal
    <3>1. \A e \in Ends : WLFrame(e)' = WLFrame(e)
      BY <2>f, <2>m DEF ReadFrame, Goto
    <3>2. /\ wire[Peer(r)] \in Seq(Frame) /\ wire[Peer(r)] # <<>>
          /\ wire'[Peer(r)] = Tail(wire[Peer(r)])
          /\ \A e \in Ends : e # Peer(r) => wire'[e] = wire[e]
          /\ UNCHANGED writeCh
      BY Indices, <1>0, <2>f DEF ReadFrame, ChanOK, QueueOK
    <3>3. \A e \in Ends : Elems(wire'[e]) \subseteq Elems(wire[e])
      BY <3>2, TailSet
    <3> QED
      BY <3>1, <3>2, <3>3 DEF OnItsWay
  <2> HIDE DEF Goal
  <2>1. CASE ReadUnknown(r) \/ ReadOpen(r) \/ ReadClose(r) \/ ReadKeepalive(r)
             \/ \E o \in Obj : ReadData(r, o)
    BY <2>1, <2>f DEF ReadUnknown, ReadOpen, ReadClose, ReadKeepalive, ReadData
  <2>2. CASE SendPong(r)
    <3>1. \A e \in Ends : WLFrame(e)' = WLFrame(e)
      BY <2>2, <2>m DEF SendPong, Goto
    <3>2. /\ OnItsWay(r)' = OnItsWay(r) \cup {[type |-> "pong", stream |-> 0, n |-> enq[r] + 1]}
          /\ \A e \in Ends : e # r => OnItsWay(e)' = OnItsWay(e)
      BY <2>2, <3>1, SendWay DEF SendPong
    <3> QED
      BY <3>2 DEF Sent, Goal
  <2>3. CASE ReadCheck(r) \/ ReadError(r) \/ Deliver(r)
    BY <2>3, <2>m, <1>q DEF ReadCheck, ReadError, BeginClose, Deliver, Goto
  <2> QED
    BY <1>3, <2>1, <2>2, <2>3 DEF ReadNext
<1>4. ASSUME NEW s \in Ends, WriteNext(s) PROVE Goal
  <2>a. /\ \E to : pc' = [pc EXCEPT ![WL(s)] = to]
        /\ hand' = hand \/ \E f : hand' = [hand EXCEPT ![WL(s)] = f]
    BY <1>4 DEF WriteNext, WriteTake, WriteStop, WriteFrame, WriteError, BeginClose, Goto
  <2>m. \A e \in Ends : e # s => WLFrame(e)' = WLFrame(e)
    <3>1. \A p \in Proc : p # WL(s) => pc'[p] = pc[p] /\ hand'[p] = hand[p]
      BY <1>0, <2>a DEF PcOK, DataOK
    <3> QED
      BY Indices, <3>1 DEF WLFrame
  <2>1. CASE WriteTake(s)
    <3>1. /\ writeCh[s] \in Seq(Frame) /\ writeCh[s] # <<>> /\ writeCh'[s] = Tail(writeCh[s])
          /\ \A e \in Ends : e # s => writeCh'[e] = writeCh[e]
          /\ UNCHANGED wire
      BY <1>0, <2>1 DEF WriteTake, ChanOK, QueueOK
    <3>2. WLFrame(s)' \subseteq {Head(writeCh[s])}
      BY <1>0, <2>1 DEF WriteTake, Goto, WLFrame, PcOK, DataOK
    <3>3. Head(writeCh[s]) \in Elems(writeCh[s]) /\ Elems(writeCh'[s]) \subseteq Elems(writeCh[s])
      BY <3>1, TailSet
    <3> QED
      BY <2>m, <3>1, <3>2, <3>3 DEF OnItsWay
  <2>2. CASE WriteFrame(s)
    <3>1. /\ wire[s] \in Seq(Frame) /\ hand[WL(s)] \in Frame
          /\ wire'[s] = Append(wire[s], hand[WL(s)])
          /\ \A e \in Ends : e # s => wire'[e] = wire[e]
          /\ UNCHANGED writeCh
      BY Indices, <1>0, <2>2 DEF WriteFrame, Goto, ChanOK, QueueOK, InHand, HandOK
    <3>2. WLFrame(s) = {hand[WL(s)]} /\ WLFrame(s)' = {}
      BY Indices, <1>0, <2>2 DEF WriteFrame, Goto, WLFrame, PcOK, DataOK
    <3>3. Elems(wire'[s]) = Elems(wire[s]) \cup {hand[WL(s)]}
      BY <3>1, AppendSet, SMTT(30)
    <3> QED
      BY <2>m, <3>1, <3>2, <3>3 DEF OnItsWay
  <2>3. CASE WriteStop(s) \/ WriteError(s)
    <3>1. WLFrame(s)' = {}
      BY Indices, <1>0, <2>3 DEF WriteStop, WriteError, BeginClose, Return, Goto, WLFrame, PcOK
    <3> QED
      BY <2>3, <2>m, <3>1 DEF WriteStop, WriteError, OnItsWay
  <2> QED
    BY <1>4, <2>1, <2>2, <2>3 DEF WriteNext
<1>5. ASSUME NEW s \in Ends, Ping(s) PROVE Goal
  <2>1. /\ OnItsWay(s)' = OnItsWay(s) \cup {[type |-> "ping", stream |-> 0, n |-> enq[s] + 1]}
        /\ \A e \in Ends : e # s => OnItsWay(e)' = OnItsWay(e)
    BY <1>5, SendWay DEF Ping, WLFrame
  <2>2. ASSUME NEW e \in Ends, NEW f \in OnItsWay(e)', f \notin OnItsWay(e) PROVE Sent(e, f)
    <3>1. f = [type |-> "ping", stream |-> 0, n |-> enq[s] + 1]
      BY <2>1, <2>2
    <3>2. f.type = "ping"
      BY <3>1
    <3> QED
      BY <3>2 DEF Sent
  <2> QED
    BY <2>2
<1>6. CASE ConnBreak \/ UNCHANGED vars
  BY <1>6 DEF ConnBreak, vars, OnItsWay, WLFrame
<1> QED
  BY <1>1, <1>2, <1>3, <1>4, <1>5, <1>6 DEF Next

\* Frames keep telling the truth: flags stay set and the history grows, and what
\* is sent is about a stream that d opened.
LEMMA SentStep ==
  ASSUME TypeInv, CloseInv, NEW d \in Ends, SentInv(d), OpenerInv(d), [Next]_vars
  PROVE  SentInv(d)'
<1> SUFFICES ASSUME NEW e \in Ends, NEW f \in OnItsWay(e)' PROVE FrameOK(d, e, f)'
  BY DEF SentInv
<1>0. PcOK /\ DataOK /\ ChanOK /\ InHand
  BY DEF TypeInv, TypeOK
<1>1. CASE f \in OnItsWay(e)
  <2>1. f \in Frame
    <3>1. /\ \A k \in 1..Len(writeCh[e]) : writeCh[e][k] \in Frame
          /\ \A k \in 1..Len(wire[e]) : wire[e][k] \in Frame
      BY <1>0, ElementOfSeq DEF ChanOK, QueueOK
    <3>2. \A g \in WLFrame(e) : g \in Frame
      <4>1. WL(e) \in Proc
        BY Indices
      <4> QED
        BY <1>0, <4>1 DEF WLFrame, InHand, HandOK
    <3> QED
      BY <1>1, <3>1, <3>2 DEF OnItsWay, Elems
  <2>2. f.type = "data" => Value(d, e, f.stream) \in Obj
    BY <2>1, ValueUnique DEF Frame
  <2>3. FrameOK(d, e, f)
    BY <1>1 DEF SentInv
  <2> QED
    BY <2>2, <2>3, Grows DEF FrameOK
<1>2. CASE f.type \in {"ping", "pong"}
  BY <1>2 DEF FrameOK
<1>3. ASSUME NEW p \in AppProc, p.end = e, f.stream = arg[p].id,
             \/ OpenSend(p) /\ f.type = "open"
             \/ WriteSend(p) /\ f.type = "data" /\ f.n = enq[e] + 1
             \/ CloseSend(p) /\ f.type = "close"
      PROVE  FrameOK(d, e, f)'
  <2>1. arg[p] \in Obj /\ arg[p] = Value(d, e, f.stream)
    <3>1. p \in Proc /\ pc[p] \in Working
      BY <1>3, Indices DEF OpenSend, WriteSend, CloseSend, Goto, Working
    <3>2. arg[p] \in Obj /\ arg[p].at = e /\ arg[p].opener = d
      BY <1>0, <1>3, <3>1 DEF InHand, HandOK, OpenerInv
    <3> QED
      BY <1>3, <3>2, ValueUnique
  <2>2. CASE OpenSend(p) /\ f.type = "open"
    BY <1>3, <2>2 DEF OpenSend, Goto, OpenerInv, Opening, FrameOK
  <2>3. CASE WriteSend(p) /\ f.type = "data" /\ f.n = enq[e] + 1
    <3>1. f.n \in wrote'[arg[p]]
      BY <1>0, <1>3, <2>1, <2>3 DEF WriteSend, DataOK
    <3> QED
      BY <2>1, <2>3, <3>1 DEF FrameOK
  <2>4. CASE CloseSend(p) /\ f.type = "close"
    <3>1. arg[p] \in sclosed
      BY <2>4 DEF CloseSend, Goto, CloseInv, Closing
    <3> QED
      BY <2>1, <2>4, <3>1, Grows DEF FrameOK
  <2> QED
    BY <1>3, <2>2, <2>3, <2>4
<1> QED
  BY <1>1, <1>2, <1>3, WayStep DEF Sent

\* A step that stores no stream and hands none over, and takes up no other.
LEMMA OpenerQuiet ==
  ASSUME NEW d \in Ends, OpenerInv(d), streams' \subseteq streams, UNCHANGED <<ready, acceptCh>>,
         \A p \in Proc : pc'[p] \in Working =>
           arg'[p].opener = d \/ (pc[p] \in Working /\ arg'[p] = arg[p]),
         \A p \in AppProc : pc'[p] \in Opening => pc[p] \in Opening
  PROVE  OpenerInv(d)'
BY DEF OpenerInv

\* All streams remain streams of d: its peer neither opens one nor is there an
\* open frame of the peer to be accepted.
LEMMA OpenerStep ==
  ASSUME TypeInv, NEW d \in Ends, <<Peer(d), "OpenStream">> \notin Calls,
         SentInv(d), OpenerInv(d), [Next]_vars
  PROVE  OpenerInv(d)'
<1> USE DEF mapVars, recvVars, histVars
<1>0. PcOK /\ DataOK /\ ChanOK /\ InHand
  BY DEF TypeInv, TypeOK
<1>i. AppProc \subseteq Proc
  BY Indices
<1> USE <1>i
<1>e. \A e \in Ends : e = d \/ e = Peer(d)
  BY DEF Ends, Peer
<1>1. ASSUME NEW p \in AppProc, AppNext(p) \/ InCall(p) PROVE OpenerInv(d)'
  <2>i. p \in Proc /\ p.end \in Ends /\ p.name \notin Loops
    BY Indices
  <2> USE <2>i
  <2>1. CASE OpenStream(p)
    <3>1. p.end = d
      BY <2>1, <1>e DEF OpenStream, Call
    <3>2. /\ \A q \in Proc : q # p => pc'[q] = pc[q] /\ arg'[q] = arg[q]
          /\ arg'[p].opener = d
      BY <1>0, <2>1, <3>1 DEF OpenStream, Call, PcOK, DataOK
    <3> QED
      BY <2>1, <3>1, <3>2 DEF OpenStream, OpenerInv
  <2>2. CASE OpenStore(p)
    <3>1. /\ \A q \in Proc : q # p => pc'[q] = pc[q]
          /\ pc[p] = "openStore" /\ pc'[p] = "openSend" /\ UNCHANGED <<arg, ready, acceptCh>>
          /\ streams' \subseteq streams \cup {arg[p]}
      BY <1>0, <2>2 DEF OpenStore, Goto, PcOK, Store
    <3>2. arg[p].opener = d
      BY <3>1 DEF OpenerInv, Working
    <3> QED
      BY <3>1, <3>2 DEF OpenerInv, Opening, Working
  <2>3. CASE OpenSend(p)
    <3>1. /\ \A q \in Proc : q # p => pc'[q] = pc[q] /\ arg'[q] = arg[q]
          /\ pc[p] = "openSend" /\ pc'[p] = "idle" /\ UNCHANGED <<streams, acceptCh>>
          /\ ready' = ready \cup {arg[p]}
      BY <1>0, <2>3 DEF OpenSend, Goto, PcOK, DataOK
    <3>2. arg[p].opener = d
      BY <3>1 DEF OpenerInv, Working
    <3> QED
      BY <3>1, <3>2 DEF OpenerInv, Opening, Working
  <2>4. CASE AcceptRecv(p)
    <3>1. /\ \A q \in Proc : q # p => pc'[q] = pc[q] /\ arg'[q] = arg[q]
          /\ pc'[p] = "acceptStore" /\ UNCHANGED <<streams, ready>>
          /\ arg'[p].opener = Peer(p.end)
          /\ acceptCh[p.end] # <<>> /\ \A e \in Ends : e # p.end => acceptCh'[e] = acceptCh[e]
      BY <1>0, <2>4 DEF AcceptRecv, Goto, PcOK, DataOK, ChanOK
    <3>2. p.end # d /\ Peer(p.end) = d
      BY <1>e, <3>1, Indices DEF OpenerInv
    <3> QED
      BY <3>1, <3>2 DEF OpenerInv, Opening, Working
  <2>5. CASE AcceptStore(p)
    <3>1. /\ \A q \in Proc : q # p => pc'[q] = pc[q] /\ arg'[q] = arg[q]
          /\ pc[p] = "acceptStore" /\ pc'[p] = "idle" /\ UNCHANGED acceptCh
          /\ streams' \subseteq streams \cup {arg[p]} /\ ready' = ready \cup {arg[p]}
      BY <1>0, <2>5 DEF AcceptStore, Goto, PcOK, DataOK, Store
    <3>2. arg[p].opener = d
      BY <3>1 DEF OpenerInv, Working
    <3> QED
      BY <3>1, <3>2 DEF OpenerInv, Opening, Working
  <2>6. ASSUME NEW o \in Obj, Write(p, o) \/ Close(p, o) PROVE OpenerInv(d)'
    <3>1. o.opener = d
      BY <2>6 DEF Write, Close, OpenerInv
    <3>2. /\ \A q \in Proc : q # p => pc'[q] = pc[q] /\ arg'[q] = arg[q]
          /\ arg'[p] = o /\ pc'[p] \notin Opening /\ UNCHANGED <<streams, ready, acceptCh>>
      <4>1. /\ \E to \in {"writeSend", "closeSend"} : pc' = [pc EXCEPT ![p] = to]
            /\ arg' = [arg EXCEPT ![p] = o] /\ UNCHANGED <<streams, ready, acceptCh>>
        BY <2>6 DEF Write, Close, Call
      <4> QED
        BY <1>0, <4>1 DEF PcOK, DataOK, Opening
    <3> QED
      BY <3>1, <3>2, OpenerQuiet
  <2>7. CASE WriteSend(p) \/ CloseDrop(p)
    <3>1. /\ \A q \in Proc : q # p => pc'[q] = pc[q] /\ arg'[q] = arg[q]
          /\ pc'[p] = "idle"
      <4>1. pc' = [pc EXCEPT ![p] = "idle"] /\ (arg' = arg \/ \E x : arg' = [arg EXCEPT ![p] = x])
        BY <2>7 DEF WriteSend, CloseDrop, Goto
      <4> QED
        BY <1>0, <4>1 DEF PcOK, DataOK
    <3>2. streams' \subseteq streams /\ UNCHANGED <<ready, acceptCh>>
      BY <2>7 DEF WriteSend, CloseDrop, Delete
    <3> QED
      BY <3>1, <3>2, OpenerQuiet DEF Opening, Working
  <2>9. CASE CloseSend(p)
    <3>1. /\ \A q \in Proc : q # p => pc'[q] = pc[q]
          /\ pc[p] = "closeSend" /\ pc'[p] = "closeDrop"
          /\ UNCHANGED <<arg, streams, ready, acceptCh>>
      BY <1>0, <2>9 DEF CloseSend, Goto, PcOK
    <3> QED
      BY <3>1, OpenerQuiet DEF Opening, Working
  <2>8. CASE AcceptStream(p) \/ MuxClose(p) \/ \E o \in Obj : Read(p, o) \/ SetDeadline(p, o)
    <3>1. /\ \A q \in Proc : q # p => pc'[q] = pc[q]
          /\ pc'[p] \in {"accept", "closeRange", "idle"}
          /\ UNCHANGED <<arg, streams, ready, acceptCh>>
      BY <1>0, <2>8 DEF AcceptStream, MuxClose, BeginClose, Return, Read, SetDeadline, Call, Goto,
         PcOK
    <3> QED
      BY <3>1, OpenerQuiet DEF Opening, Working
  <2> QED
    BY <1>1, <2>1, <2>2, <2>3, <2>4, <2>5, <2>6, <2>7, <2>8, <2>9 DEF AppNext, InCall
<1>2. ASSUME NEW p \in Proc, CloseNext(p) PROVE OpenerInv(d)'
  <2>1. /\ \A q \in Proc : q # p => pc'[q] = pc[q]
        /\ pc'[p] \in {"closeFinish", "idle", "done"}
        /\ UNCHANGED <<arg, streams, ready, acceptCh>>
    BY <1>0, <1>2 DEF CloseNext, MuxCloseRange, MuxCloseFinish, Return, Goto, PcOK
  <2> QED
    BY <2>1, OpenerQuiet DEF Opening, Working
<1>3. ASSUME NEW e \in Ends, ReadNext(e) PROVE OpenerInv(d)'
  <2>i. /\ RL(e) \in Proc /\ RL(e) \notin AppProc /\ RL(e).name \in Loops
        /\ Peer(e) \in Ends /\ Peer(e) # e
    BY Indices
  <2> USE <2>i
  <2>1. ASSUME NEW o \in Obj, ReadData(e, o) PROVE OpenerInv(d)'
    <3>1. o.opener = d
      BY <2>1 DEF ReadData, Entry, OpenerInv
    <3>2. /\ \A q \in Proc : q # RL(e) => pc'[q] = pc[q] /\ arg'[q] = arg[q]
          /\ arg'[RL(e)] = o /\ UNCHANGED <<streams, ready, acceptCh>>
      BY <1>0, <2>1 DEF ReadData, ReadFrame, Goto, PcOK, DataOK
    <3> QED
      BY <3>1, <3>2, OpenerQuiet
  <2>2. CASE ReadOpen(e)
    <3>1. /\ \A q \in Proc : q # RL(e) => pc'[q] = pc[q]
          /\ pc'[RL(e)] = "check" /\ UNCHANGED <<arg, streams, ready>>
          /\ \A x \in Ends : x # e => acceptCh'[x] = acceptCh[x]
      BY <1>0, <2>2 DEF ReadOpen, ReadFrame, Goto, PcOK, ChanOK
    <3>2. Incoming(e) \in OnItsWay(Peer(e)) /\ Incoming(e).type = "open"
      <4>1. wire[Peer(e)] \in Seq(Frame) /\ wire[Peer(e)] # <<>>
        BY <1>0, <2>2 DEF ReadOpen, ReadFrame, ChanOK, QueueOK
      <4>2. Head(wire[Peer(e)]) \in Elems(wire[Peer(e)])
        BY <4>1, TailSet
      <4> QED
        BY <2>2, <4>2 DEF ReadOpen, ReadFrame, Incoming, OnItsWay
    <3>3. e # d
      <4>1. Peer(e) = d
        BY <3>2 DEF SentInv, FrameOK
      <4> QED
        BY <4>1
    <3> QED
      BY <3>1, <3>3 DEF OpenerInv, Opening, Working
  <2>3. CASE ReadCheck(e) \/ ReadUnknown(e) \/ Deliver(e) \/ ReadClose(e)
             \/ ReadKeepalive(e) \/ SendPong(e) \/ ReadError(e)
    <3>1. \A q \in Proc : q # RL(e) => pc'[q] = pc[q] /\ arg'[q] = arg[q]
      <4>1. OthersKeep(RL(e))
        BY <1>3, ReadMoves
      <4> QED
        BY <4>1 DEF OthersKeep
    <3>2. pc'[RL(e)] \in ReadPC \ {"deliver"}
      <4>1. \E to \in ReadPC \ {"deliver"} : pc' = [pc EXCEPT ![RL(e)] = to]
        BY <2>3 DEF ReadCheck, ReadUnknown, Deliver, ReadClose, ReadKeepalive, SendPong,
           ReadError, BeginClose, Return, ReadFrame, Goto, ReadPC
      <4> QED
        BY <1>0, <4>1 DEF PcOK
    <3>3. streams' \subseteq streams /\ UNCHANGED <<ready, acceptCh>>
      BY <2>3 DEF ReadCheck, ReadUnknown, Deliver, ReadClose, ReadKeepalive, SendPong,
         ReadError, ReadFrame, Delete
    <3> QED
      BY <3>1, <3>2, <3>3, OpenerQuiet DEF Opening, Working, ReadPC
  <2> QED
    BY <1>3, <2>1, <2>2, <2>3 DEF ReadNext
<1>4. ASSUME NEW e \in Ends, WriteNext(e) PROVE OpenerInv(d)'
  <2>i. WL(e) \in Proc /\ WL(e) \notin AppProc /\ WL(e).name \in Loops
    BY Indices
  <2> USE <2>i
  <2>1. /\ \A q \in Proc : q # WL(e) => pc'[q] = pc[q]
        /\ pc'[WL(e)] \in WritePC
        /\ UNCHANGED <<arg, streams, ready, acceptCh>>
    <3>1. \E to \in WritePC : pc' = [pc EXCEPT ![WL(e)] = to]
      BY <1>4 DEF WriteNext, WriteTake, WriteStop, WriteFrame, WriteError, BeginClose, Return,
         Goto, WritePC
    <3>2. UNCHANGED <<arg, streams, ready, acceptCh>>
      BY <1>4 DEF WriteNext, WriteTake, WriteStop, WriteFrame, WriteError
    <3> QED
      BY <1>0, <3>1, <3>2 DEF PcOK
  <2> QED
    BY <2>1, OpenerQuiet DEF Opening, Working, WritePC
<1>5. CASE ConnBreak \/ (\E e \in Ends : Ping(e)) \/ UNCHANGED vars
  BY <1>5, OpenerQuiet DEF ConnBreak, Ping, vars
<1> QED
  BY <1>1, <1>2, <1>3, <1>4, <1>5 DEF Next

\* A stream that leaves the map is closed: a store finds no other value under its
\* identifier, and a delete finds that of the caller or closes what it finds.
LEMMA Unmapped ==
  ASSUME TypeInv, CloseInv, NEW d \in Ends, OpenerInv(d), [Next]_vars
  PROVE  \A o \in streams \ streams' : o \in sclosed'
<1> USE DEF mapVars
<1>0. DataOK /\ InHand
  BY DEF TypeInv, TypeOK
<1>u. ASSUME NEW p \in AppProc, pc[p] \in Working
      PROVE  arg[p] \in Obj /\ arg[p].at = p.end /\ Entry(p.end, arg[p].id) \subseteq {arg[p]}
  <2>1. arg[p] \in Obj /\ arg[p].at = p.end /\ arg[p].opener = d
    BY Indices, <1>0, <1>u DEF InHand, HandOK, OpenerInv
  <2>2. \A o \in streams : o \in Obj /\ o.opener = d
    BY <1>0 DEF DataOK, OpenerInv
  <2>3. ASSUME NEW o \in streams, o.at = p.end, o.id = arg[p].id PROVE o = arg[p]
    BY <2>1, <2>2, <2>3, ValueUnique
  <2> QED
    BY <2>1, <2>3 DEF Entry
<1>1. ASSUME NEW p \in AppProc, OpenStore(p) \/ AcceptStore(p)
      PROVE  streams \subseteq streams'
  BY <1>1, <1>u DEF OpenStore, AcceptStore, Goto, Store, Working
<1>2. ASSUME NEW p \in AppProc, CloseDrop(p)
      PROVE  \A o \in streams \ streams' : o \in sclosed'
  <2>1. arg[p] \in sclosed /\ sclosed' = sclosed
    BY <1>2 DEF CloseDrop, Goto, CloseInv, Closing
  <2> QED
    BY <1>2, <1>u, <2>1 DEF CloseDrop, Goto, Delete, Working
<1>3. ASSUME NEW e \in Ends, ReadClose(e)
      PROVE  \A o \in streams \ streams' : o \in sclosed'
  BY <1>3 DEF ReadClose, Delete, CloseObjs
<1>4. \/ \E p \in AppProc : OpenStore(p) \/ AcceptStore(p) \/ CloseDrop(p)
      \/ \E e \in Ends : ReadClose(e)
      \/ UNCHANGED streams
  <2>1. ASSUME NEW p \in AppProc, AppNext(p) \/ InCall(p)
        PROVE  OpenStore(p) \/ AcceptStore(p) \/ CloseDrop(p) \/ UNCHANGED streams
    BY <2>1 DEF AppNext, InCall, OpenStream, AcceptStream, MuxClose, Read, Write, Close,
       SetDeadline, OpenSend, AcceptRecv, WriteSend, CloseSend
  <2>2. ASSUME NEW e \in Ends, ReadNext(e) PROVE ReadClose(e) \/ UNCHANGED streams
    BY <2>2 DEF ReadNext, ReadCheck, ReadUnknown, Deliver, ReadOpen, ReadKeepalive, SendPong,
       ReadError, ReadData
  <2>3. ASSUME NEW e \in Ends, WriteNext(e) \/ Ping(e) PROVE UNCHANGED streams
    BY <2>3 DEF WriteNext, WriteTake, WriteStop, WriteFrame, WriteError, Ping
  <2>4. ASSUME NEW p \in Proc, CloseNext(p) PROVE UNCHANGED streams
    BY <2>4 DEF CloseNext, MuxCloseRange, MuxCloseFinish
  <2> QED
    BY <2>1, <2>2, <2>3, <2>4 DEF Next, ConnBreak, vars
<1> QED
  BY <1>1, <1>2, <1>3, <1>4
=============================================================================
