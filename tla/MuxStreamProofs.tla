--------------------------- MODULE MuxStreamProofs --------------------------
(***************************************************************************)
(* Proofs about what the two ends of a stream see of each other, for a     *)
(* pair of Muxes of which only one opens streams.                          *)
(***************************************************************************)
EXTENDS MuxOrderProofs, MuxOpenerProofs

\* A stream that the application holds, or is about to get, is stored or closed.
HeldInv ==
  /\ ready \subseteq streams \cup sclosed
  /\ \A p \in AppProc : pc[p] = "openSend" => arg[p] \in streams \cup sclosed

\* What has arrived was written at the peer.
ArrivedInv ==
  /\ \A e \in Ends :
       pc[RL(e)] = "deliver" => hand[RL(e)].n \in wrote[PeerObj(arg[RL(e)])]
  /\ \A o \in Obj : Elems(got[o]) \cup Elems(readCh[o]) \subseteq wrote[PeerObj(o)]
  /\ \A o \in Obj : \A n \in wrote[o] : n <= enq[o.at]

PairInv(d) == SentInv(d) /\ OpenerInv(d) /\ HeldInv /\ ArrivedInv

\* The streams that the application holds stay stored or closed.
LEMMA HeldStep ==
  ASSUME TypeInv, CloseInv, NEW d \in Ends, OpenerInv(d), HeldInv, [Next]_vars
  PROVE  HeldInv'
<1> USE Indices DEF histVars
<1>0. PcOK /\ DataOK
  BY DEF TypeInv, TypeOK
<1>k. streams \cup sclosed \subseteq streams' \cup sclosed'
  BY Unmapped, Grows
<1>q. ASSUME UNCHANGED ready,
             \A p \in AppProc : pc'[p] = "openSend" => pc[p] = "openSend" /\ arg'[p] = arg[p]
      PROVE  HeldInv'
  BY <1>k, <1>q DEF HeldInv
<1>1. ASSUME NEW p \in AppProc, AppNext(p) \/ InCall(p) PROVE HeldInv'
  <2>m. \A q \in AppProc : q # p => pc'[q] = pc[q] /\ arg'[q] = arg[q]
    BY <1>1, AppMoves DEF OthersKeep
  <2>1. CASE OpenStore(p)
    <3>1. UNCHANGED <<ready, arg>> /\ arg[p] \in streams'
      BY <2>1 DEF OpenStore, Store
    <3> QED
      BY <1>k, <2>m, <3>1 DEF HeldInv
  <2>2. CASE OpenSend(p)
    <3>1. ready' = ready \cup {arg[p]} /\ arg[p] \in streams \cup sclosed /\ pc'[p] = "idle"
      BY <1>0, <2>2 DEF OpenSend, Goto, HeldInv, PcOK
    <3> QED
      BY <1>k, <2>m, <3>1 DEF HeldInv
  <2>3. CASE AcceptStore(p)
    <3>1. ready' = ready \cup {arg[p]} /\ arg[p] \in streams' /\ pc'[p] = "idle"
      BY <1>0, <2>3 DEF AcceptStore, Store, Goto, PcOK
    <3> QED
      BY <1>k, <2>m, <3>1 DEF HeldInv
  <2>4. CASE ~(OpenStore(p) \/ OpenSend(p) \/ AcceptStore(p))
    <3>1. UNCHANGED ready
      BY <1>1, <2>4 DEF AppNext, InCall, OpenStream, AcceptStream, MuxClose, Read, Write, Close,
         SetDeadline, AcceptRecv, WriteSend, CloseSend, CloseDrop
    <3>2. pc'[p] # "openSend"
      <4>1. \E to \in AppPC \ {"openSend"} : pc' = [pc EXCEPT ![p] = to]
        <5>1. CASE AppNext(p)
          BY <5>1 DEF AppNext, OpenStream, AcceptStream, MuxClose, BeginClose, Return, Read,
             Write, Close, SetDeadline, Call, Goto, AppPC
        <5>2. CASE InCall(p)
          BY <2>4, <5>2 DEF InCall, AcceptRecv, WriteSend, CloseSend, CloseDrop, Goto, AppPC
        <5> QED
          BY <1>1, <5>1, <5>2
      <4> QED
        BY <1>0, <4>1 DEF PcOK
    <3> QED
      BY <1>q, <2>m, <3>1, <3>2
  <2> QED
    BY <2>1, <2>2, <2>3, <2>4
<1>2. ASSUME NEW p \in Proc, CloseNext(p) PROVE HeldInv'
  <2>1. UNCHANGED <<ready, arg>> /\ \E to \in {"closeFinish", "idle", "done"} :
                                      pc' = [pc EXCEPT ![p] = to]
    BY <1>2 DEF CloseNext, MuxCloseRange, MuxCloseFinish, Return, Goto
  <2> QED
    BY <1>0, <1>q, <2>1 DEF PcOK
<1>3. ASSUME NEW e \in Ends, ReadNext(e) PROVE HeldInv'
  <2>1. UNCHANGED ready
    BY <1>3 DEF ReadNext, ReadCheck, ReadUnknown, Deliver, ReadOpen, ReadClose, ReadKeepalive,
       SendPong, ReadError, ReadData, ReadFrame
  <2>2. \A q \in AppProc : pc'[q] = pc[q] /\ arg'[q] = arg[q]
    BY <1>3, ReadMoves DEF OthersKeep
  <2> QED
    BY <1>q, <2>1, <2>2
<1>4. ASSUME NEW e \in Ends, WriteNext(e) PROVE HeldInv'
  <2>1. UNCHANGED ready
    BY <1>4 DEF WriteNext, WriteTake, WriteStop, WriteFrame, WriteError
  <2>2. \A q \in AppProc : pc'[q] = pc[q] /\ arg'[q] = arg[q]
    BY <1>4, WriteMoves DEF OthersKeep
  <2> QED
    BY <1>q, <2>1, <2>2
<1>5. CASE ConnBreak \/ (\E e \in Ends : Ping(e)) \/ UNCHANGED vars
  BY <1>5, <1>q DEF ConnBreak, Ping, vars
<1> QED
  BY <1>1, <1>2, <1>3, <1>4, <1>5 DEF Next

\* A readLoop that is about to deliver was so before, or has just looked the
\* stream up.
LEMMA DeliverStep ==
  ASSUME TypeInv, [Next]_vars, NEW e \in Ends, pc'[RL(e)] = "deliver"
  PROVE  \/ pc[RL(e)] = "deliver" /\ arg'[RL(e)] = arg[RL(e)] /\ hand'[RL(e)] = hand[RL(e)]
         \/ \E o \in Obj : ReadData(e, o)
<1> USE Indices
<1> DEFINE Same == /\ pc'[RL(e)] = pc[RL(e)] /\ arg'[RL(e)] = arg[RL(e)]
                   /\ hand'[RL(e)] = hand[RL(e)]
<1>0. PcOK /\ DataOK
  BY DEF TypeInv, TypeOK
<1>1. ASSUME NEW p \in AppProc, AppNext(p) \/ InCall(p) PROVE Same
  BY <1>1, AppMoves DEF OthersKeep
<1>2. ASSUME NEW p \in Proc, CloseNext(p) PROVE Same
  <2>1. p # RL(e)
    <3>1. \E to \in {"closeFinish", "idle", "done"} : pc' = [pc EXCEPT ![p] = to]
      BY <1>2 DEF CloseNext, MuxCloseRange, MuxCloseFinish, Return, Goto
    <3> QED
      BY <1>0, <3>1 DEF PcOK
  <2> QED
    BY <1>2, <2>1, CloseMoves DEF OthersKeep
<1>3. ASSUME NEW x \in Ends, x # e, ReadNext(x) PROVE Same
  <2>1. RL(x) # RL(e)
    BY <1>3
  <2> QED
    BY <1>3, <2>1, ReadMoves DEF OthersKeep
<1>4. CASE ReadNext(e)
  <2>1. \/ \E o \in Obj : ReadData(e, o)
        \/ \E to \in ReadPC \ {"deliver"} : pc' = [pc EXCEPT ![RL(e)] = to]
    BY <1>4 DEF ReadNext, ReadCheck, ReadUnknown, Deliver, ReadOpen, ReadClose, ReadKeepalive,
       SendPong, ReadError, BeginClose, Return, ReadFrame, Goto, ReadPC
  <2> QED
    BY <1>0, <2>1 DEF PcOK, ReadPC
<1>5. ASSUME NEW x \in Ends, WriteNext(x) PROVE Same
  <2>1. WL(x) # RL(e)
    BY DEF WL, RL
  <2> QED
    BY <1>5, <2>1, WriteMoves DEF OthersKeep
<1>6. CASE ConnBreak \/ (\E x \in Ends : Ping(x)) \/ UNCHANGED vars
  BY <1>6 DEF ConnBreak, Ping, vars
<1> QED
  BY <1>1, <1>2, <1>3, <1>4, <1>5, <1>6 DEF Next

\* Which steps touch what has arrived, and what was written.
LEMMA WhoMoves ==
  ASSUME [Next]_vars
  PROVE  /\ \/ \E e \in Ends : Deliver(e)
            \/ \E p \in AppProc, o \in Obj : Read(p, o)
            \/ UNCHANGED <<readCh, got>>
         /\ (\E p \in AppProc : WriteSend(p)) \/ UNCHANGED wrote
         /\ (\E p \in AppProc, o \in Obj : Read(p, o)) \/ UNCHANGED got
<1> USE DEF recvVars, histVars
<1>1. ASSUME NEW p \in AppProc, AppNext(p) \/ InCall(p)
      PROVE  /\ (\E o \in Obj : Read(p, o)) \/ UNCHANGED <<readCh, got>>
             /\ WriteSend(p) \/ UNCHANGED wrote
  BY <1>1 DEF AppNext, InCall, OpenStream, AcceptStream, MuxClose, Read, Write, Close,
     SetDeadline, OpenStore, OpenSend, AcceptRecv, AcceptStore, WriteSend, CloseSend, CloseDrop
<1>2. ASSUME NEW e \in Ends, ReadNext(e)
      PROVE  (Deliver(e) \/ UNCHANGED readCh) /\ UNCHANGED <<wrote, got>>
  BY <1>2 DEF ReadNext, ReadCheck, ReadUnknown, Deliver, ReadOpen, ReadClose, ReadKeepalive,
     SendPong, ReadError, ReadData, ReadFrame
<1>3. ASSUME NEW e \in Ends, WriteNext(e) \/ Ping(e) PROVE UNCHANGED <<readCh, wrote, got>>
  BY <1>3 DEF WriteNext, WriteTake, WriteStop, WriteFrame, WriteError, Ping
<1>4. ASSUME NEW p \in Proc, CloseNext(p) PROVE UNCHANGED <<readCh, wrote, got>>
  BY <1>4 DEF CloseNext, MuxCloseRange, MuxCloseFinish
<1>5. CASE ConnBreak \/ UNCHANGED vars
  BY <1>5 DEF ConnBreak, vars
<1> QED
  BY <1>1, <1>2, <1>3, <1>4, <1>5 DEF Next

\* The counter of frames never decreases.
LEMMA EnqGrows ==
  ASSUME TypeInv, [Next]_vars
  PROVE  \A e \in Ends : enq[e] \in Nat /\ enq'[e] \in Nat /\ enq[e] <= enq'[e]
<1> USE Indices DEF sendVars
<1>0. enq \in [Ends -> Nat]
  BY DEF TypeInv, TypeOK, DataOK
<1>s. ASSUME NEW s \in Ends, NEW t, NEW i, Send(s, t, i)
      PROVE  \A e \in Ends : enq[e] \in Nat /\ enq'[e] \in Nat /\ enq[e] <= enq'[e]
  BY <1>0, <1>s DEF Send
<1>1. ASSUME NEW p \in AppProc, AppNext(p) \/ InCall(p)
      PROVE  UNCHANGED enq \/ \E t, i : Send(p.end, t, i)
  BY <1>1 DEF AppNext, InCall, OpenStream, AcceptStream, MuxClose, Read, Write, Close,
     SetDeadline, OpenStore, OpenSend, AcceptRecv, AcceptStore, WriteSend, CloseSend, CloseDrop
<1>2. ASSUME NEW e \in Ends, ReadNext(e) \/ WriteNext(e) \/ Ping(e)
      PROVE  UNCHANGED enq \/ \E t, i : Send(e, t, i)
  BY <1>2 DEF ReadNext, ReadCheck, ReadUnknown, Deliver, ReadOpen, ReadClose, ReadKeepalive,
     SendPong, ReadError, ReadData, ReadFrame, WriteNext, WriteTake, WriteStop, WriteFrame,
     WriteError, Ping
<1>3. ASSUME NEW p \in Proc, CloseNext(p) PROVE UNCHANGED enq
  BY <1>3 DEF CloseNext, MuxCloseRange, MuxCloseFinish
<1>4. CASE ConnBreak \/ UNCHANGED vars
  BY <1>0, <1>4 DEF ConnBreak, vars
<1> QED
  BY <1>0, <1>s, <1>1, <1>2, <1>3, <1>4 DEF Next

\* What arrives on a stream was written at its other end.
LEMMA ArrivedStep ==
  ASSUME TypeInv, NEW d \in Ends, SentInv(d), OpenerInv(d), ArrivedInv, [Next]_vars
  PROVE  ArrivedInv'
<1>0. PcOK /\ DataOK /\ ChanOK /\ InHand
  BY DEF TypeInv, TypeOK
<1>1. ASSUME NEW e \in Ends, pc'[RL(e)] = "deliver"
      PROVE  hand'[RL(e)].n \in wrote'[PeerObj(arg'[RL(e)])]
  <2>1. ASSUME pc[RL(e)] = "deliver", arg'[RL(e)] = arg[RL(e)], hand'[RL(e)] = hand[RL(e)]
        PROVE  hand'[RL(e)].n \in wrote'[PeerObj(arg'[RL(e)])]
    <3>1. arg[RL(e)] \in Obj
      BY <1>0, <2>1, Indices DEF InHand, HandOK, Working
    <3> QED
      BY <2>1, <3>1, Grows, ValueUnique DEF ArrivedInv
  <2>2. ASSUME NEW o \in Obj, ReadData(e, o)
        PROVE  hand'[RL(e)].n \in wrote'[PeerObj(arg'[RL(e)])]
    <3>1. /\ arg'[RL(e)] = o /\ hand'[RL(e)] = Incoming(e) /\ Incoming(e).type = "data"
          /\ o \in streams /\ o.at = e /\ o.id = Incoming(e).stream
          /\ wire[Peer(e)] \in Seq(Frame) /\ wire[Peer(e)] # <<>>
      BY <1>0, <2>2, Indices DEF ReadData, ReadFrame, Entry, DataOK, ChanOK, QueueOK
    <3>2. Incoming(e) \in OnItsWay(Peer(e)) /\ Peer(e) \in Ends
      BY <3>1, TailSet, Indices DEF Incoming, OnItsWay
    <3>3. Incoming(e).n \in wrote[Value(d, Peer(e), Incoming(e).stream)]
      BY <3>1, <3>2 DEF SentInv, FrameOK
    <3>4. PeerObj(o) = Value(d, Peer(e), Incoming(e).stream) /\ PeerObj(o) \in Obj
      BY <3>1, ValueUnique DEF OpenerInv
    <3> QED
      BY <3>1, <3>3, <3>4, Grows
  <2> QED
    BY <1>1, <2>1, <2>2, DeliverStep
<1>2. ASSUME NEW o \in Obj PROVE (Elems(got[o]) \cup Elems(readCh[o]) \subseteq wrote[PeerObj(o)])'
  <2>0. /\ got[o] \in Seq(Nat) /\ readCh[o] \in Seq(Nat)
        /\ Elems(got[o]) \cup Elems(readCh[o]) \subseteq wrote[PeerObj(o)]
        /\ wrote[PeerObj(o)] \subseteq wrote'[PeerObj(o)]
    BY <1>0, ValueUnique, Grows DEF DataOK, ChanOK, QueueOK, ArrivedInv
  <2>1. ASSUME NEW e \in Ends, Deliver(e)
        PROVE  /\ got'[o] = got[o]
               /\ Elems(readCh'[o]) \subseteq wrote[PeerObj(o)]
    <3>1. /\ hand[RL(e)].n \in Nat /\ arg[RL(e)] \in Obj
          /\ hand[RL(e)].n \in wrote[PeerObj(arg[RL(e)])]
      BY <1>0, <2>1, Indices DEF Deliver, Goto, InHand, HandOK, Working, Frame, ArrivedInv
    <3>2. /\ got'[o] = got[o]
          /\ \/ readCh'[o] = readCh[o]
             \/ o = arg[RL(e)] /\ readCh'[o] = Append(readCh[o], hand[RL(e)].n)
      BY <1>0, <2>1, <3>1 DEF Deliver, histVars, ChanOK
    <3>3. Elems(Append(readCh[o], hand[RL(e)].n)) = Elems(readCh[o]) \cup {hand[RL(e)].n}
      BY <2>0, <3>1, AppendSet
    <3> QED
      BY <2>0, <3>1, <3>2, <3>3
  <2>2. ASSUME NEW p \in AppProc, NEW x \in Obj, Read(p, x)
        PROVE  Elems(got'[o]) \cup Elems(readCh'[o]) \subseteq wrote[PeerObj(o)]
    <3>1. CASE x # o
      BY <1>0, <2>0, <2>2, <3>1 DEF Read, DataOK, ChanOK
    <3>2. CASE x = o
      <4>1. /\ readCh[o] # <<>> /\ readCh'[o] = Tail(readCh[o])
            /\ got'[o] = Append(got[o], Head(readCh[o]))
        BY <1>0, <2>2, <3>2 DEF Read, DataOK, ChanOK
      <4>2. Head(readCh[o]) \in Nat /\ Head(readCh[o]) \in Elems(readCh[o])
            /\ Elems(Tail(readCh[o])) \subseteq Elems(readCh[o])
        BY <2>0, <4>1, TailSet, HeadTailProperties
      <4>3. Elems(got'[o]) = Elems(got[o]) \cup {Head(readCh[o])}
        BY <2>0, <4>1, <4>2, AppendSet
      <4> QED
        BY <2>0, <4>1, <4>2, <4>3
    <3> QED
      BY <3>1, <3>2
  <2> QED
    BY <2>0, <2>1, <2>2, WhoMoves
<1>3. ASSUME NEW o \in Obj, NEW n \in wrote'[o] PROVE n <= enq'[o.at]
  <2>0. o.at \in Ends /\ (n \in wrote[o] => n <= enq[o.at])
        /\ wrote[o] \subseteq Nat /\ enq[o.at] \in Nat /\ enq'[o.at] \in Nat
        /\ enq[o.at] <= enq'[o.at]
    BY <1>0, EnqGrows, ValueUnique DEF ArrivedInv, DataOK
  <2>1. CASE n \in wrote[o]
    <3>1. n \in Nat /\ n <= enq[o.at]
      BY <2>0, <2>1
    <3> QED
      BY <2>0, <3>1
  <2>2. ASSUME NEW p \in AppProc, WriteSend(p), n \notin wrote[o] PROVE n <= enq'[o.at]
    <3>1. arg[p] \in Obj /\ arg[p].at = p.end
      BY <1>0, <2>2, Indices DEF WriteSend, Goto, InHand, HandOK, Working
    <3>2. n = enq[p.end] + 1 /\ o = arg[p]
      BY <1>0, <1>3, <2>2, <3>1 DEF WriteSend, DataOK
    <3>3. enq'[p.end] = enq[p.end] + 1
      BY <1>0, <2>2, Indices DEF WriteSend, Send, DataOK
    <3> QED
      BY <2>0, <3>1, <3>2, <3>3
  <2> QED
    BY <1>3, <2>1, <2>2, WhoMoves
<1> QED
  BY <1>1, <1>2, <1>3 DEF ArrivedInv

\* At the start there are no streams and no frames.
LEMMA PairInit == ASSUME Init, NEW d \in Ends PROVE PairInv(d)
<1>0. \A e \in Ends : pc[WL(e)] = "select" /\ pc[RL(e)] = "check"
  BY Indices DEF Init, RL, WL
<1>1. \A p \in AppProc : pc[p] = "idle"
  BY Indices DEF Init, Loops
<1>2. SentInv(d)
  <2>1. \A e \in Ends : Elems(writeCh[e]) = {} /\ Elems(wire[e]) = {}
    BY DEF Init, Elems
  <2> QED
    BY <1>0, <2>1 DEF SentInv, OnItsWay, WLFrame
<1>3. OpenerInv(d)
  <2>1. \A p \in Proc : pc[p] \notin Working
    BY <1>0, <1>1, Indices DEF Working
  <2> QED
    BY <1>1, <2>1 DEF Init, OpenerInv, Opening
<1>4. HeldInv
  BY <1>1 DEF Init, HeldInv
<1>5. ArrivedInv
  <2>1. \A o \in Obj : Elems(got[o]) = {} /\ Elems(readCh[o]) = {} /\ wrote[o] = {}
    BY DEF Init, Elems
  <2> QED
    BY <1>0, <2>1 DEF ArrivedInv
<1> QED
  BY <1>2, <1>3, <1>4, <1>5 DEF PairInv

\* The facts that hold in every state if only d opens streams.
AllInv(d) == TypeInv /\ CloseInv /\ OrderInv /\ PairInv(d)

\* They hold before NewMux has done anything, and no step breaks them.
LEMMA AllInit == ASSUME NEW d \in Ends PROVE Init => AllInv(d)
BY TypeInit, CloseInit, OrderInit, PairInit DEF AllInv

\* The conjunction of the invariants is inductive.
LEMMA AllStep ==
  ASSUME NEW d \in Ends, <<Peer(d), "OpenStream">> \notin Calls
  PROVE  AllInv(d) /\ [Next]_vars => AllInv(d)'
BY TypeStep, CloseStep, OrderStep, SentStep, OpenerStep, HeldStep, ArrivedStep
   DEF AllInv, PairInv

\* If only one end opens streams, what the application reads from a stream was
\* written to the same stream at the peer: no session sees the data of another.
THEOREM StreamsIsolated == SingleOpener /\ Spec => []Isolated
<1> SUFFICES ASSUME NEW d \in Ends, <<Peer(d), "OpenStream">> \notin Calls
             PROVE  Spec => []Isolated
  BY DEF SingleOpener
<1>1. Init => AllInv(d)
  BY AllInit
<1>2. AllInv(d) /\ [Next]_vars => AllInv(d)'
  BY AllStep
<1>3. AllInv(d) => Isolated
  BY DEF AllInv, PairInv, ArrivedInv, Isolated, Elems
<1> QED
  BY <1>1, <1>2, <1>3, PTL DEF Spec

\* If only one end opens streams, a stream leaves Mux.streams only with its
\* closed flag set: frames find it as long as it is open.
THEOREM OpenIsMapped == SingleOpener /\ Spec => OpenStaysMapped
<1> SUFFICES ASSUME NEW d \in Ends, <<Peer(d), "OpenStream">> \notin Calls
             PROVE  Spec => OpenStaysMapped
  BY DEF SingleOpener
<1>1. Init => AllInv(d)
  BY AllInit
<1>2. AllInv(d) /\ [Next]_vars => AllInv(d)'
  BY AllStep
<1>3. AllInv(d) /\ [Next]_vars => [\A o \in streams \ streams' : o \in sclosed']_vars
  BY Unmapped DEF AllInv, PairInv
<1> QED
  BY <1>1, <1>2, <1>3, PTL DEF Spec, OpenStaysMapped

\* If only one end opens streams, a MuxClose frame closes a stream only if the
\* application at the peer has closed the other side of that very stream.
THEOREM ClosedByPeer == SingleOpener /\ Spec => RemoteCloseIsReal
<1> DEFINE A == \A e \in Ends : \A o \in sclosed' \ sclosed :
                  o.at = e /\ pc[RL(e)] = "read" /\ pc'[RL(e)] = "check"
                    => PeerObj(o) \in sclosed
<1> SUFFICES ASSUME NEW d \in Ends, <<Peer(d), "OpenStream">> \notin Calls
             PROVE  Spec => RemoteCloseIsReal
  BY DEF SingleOpener
<1>1. Init => AllInv(d)
  BY AllInit
<1>2. AllInv(d) /\ [Next]_vars => AllInv(d)'
  BY AllStep
<1>3. AllInv(d) /\ [Next]_vars => [A]_vars
  <2> SUFFICES ASSUME AllInv(d), Next, NEW e \in Ends, NEW o \in sclosed' \ sclosed,
                      o.at = e, pc[RL(e)] = "read", pc'[RL(e)] = "check"
               PROVE  PeerObj(o) \in sclosed
    OBVIOUS
  <2> USE DEF objVars
  <2>0. TypeInv /\ PcOK /\ DataOK /\ ChanOK /\ SentInv(d) /\ OpenerInv(d)
    BY DEF AllInv, PairInv, TypeInv, TypeOK
  <2>m. ASSUME NEW p, OthersKeep(p) PROVE p = RL(e)
    <3>1. RL(e) \in Proc
      BY Indices
    <3> QED
      BY <2>m, <3>1 DEF OthersKeep
  <2>1. ASSUME NEW p \in AppProc, AppNext(p) \/ InCall(p) PROVE FALSE
    <3>1. OthersKeep(p)
      BY <2>0, <2>1, AppMoves
    <3>2. p = RL(e)
      BY <2>m, <3>1
    <3> QED
      BY <3>2, Indices
  <2>2. ASSUME NEW p \in Proc, CloseNext(p) PROVE FALSE
    <3>0. OthersKeep(p)
      BY <2>0, <2>2, CloseMoves
    <3>1. p = RL(e)
      BY <2>m, <3>0
    <3> QED
      BY <2>2, <3>1 DEF CloseNext, MuxCloseRange, MuxCloseFinish, Goto
  <2>3. ASSUME NEW x \in Ends, ReadClose(x) PROVE PeerObj(o) \in sclosed
    <3>1. x = e
      <4>0. OthersKeep(RL(x))
        BY <2>0, <2>3, ReadMoves DEF ReadNext
      <4>1. RL(x) = RL(e)
        BY <2>m, <4>0
      <4> QED
        BY <4>1 DEF RL
    <3>2. /\ o \in streams /\ o \in Obj /\ o.opener = d /\ o.id = Incoming(e).stream
          /\ Incoming(e).type = "close"
          /\ wire[Peer(e)] \in Seq(Frame) /\ wire[Peer(e)] # <<>>
      <4>1. o \in streams /\ o.id = Incoming(e).stream
        BY <2>3, <3>1 DEF ReadClose, CloseObjs, Entry
      <4>2. /\ Incoming(e).type = "close" /\ wire[Peer(e)] # <<>>
            /\ wire[Peer(e)] \in Seq(Frame)
        BY <2>0, <2>3, <3>1, Indices DEF ReadClose, ReadFrame, ChanOK, QueueOK
      <4> QED
        BY <2>0, <4>1, <4>2 DEF DataOK, OpenerInv
    <3>3. Incoming(e) \in OnItsWay(Peer(e)) /\ Peer(e) \in Ends
      BY <3>2, TailSet, Indices DEF Incoming, OnItsWay
    <3>4. FrameOK(d, Peer(e), Incoming(e))
      BY <2>0, <3>3 DEF SentInv
    <3>5. Value(d, Peer(e), o.id) \in sclosed
      BY <3>2, <3>4 DEF FrameOK
    <3> QED
      BY <3>2, <3>5, ValueUnique
  <2>4. ASSUME NEW x \in Ends, ReadNext(x), ~ReadClose(x) PROVE FALSE
    BY <2>4 DEF ReadNext, ReadCheck, ReadUnknown, Deliver, ReadOpen, ReadKeepalive, SendPong,
       ReadError, ReadData
  <2>5. ASSUME NEW x \in Ends, WriteNext(x) \/ Ping(x) PROVE FALSE
    BY <2>5 DEF WriteNext, WriteTake, WriteStop, WriteFrame, WriteError, Ping
  <2> QED
    BY <2>1, <2>2, <2>3, <2>4, <2>5 DEF Next, ConnBreak
<1> QED
  BY <1>1, <1>2, <1>3, PTL DEF Spec, RemoteCloseIsReal

\* If only one end opens streams, Mux.Close closes every stream that the
\* application holds when it walks over the map, and no closed flag is reset.
THEOREM CloseReachesAll == SingleOpener /\ Spec => HeldStreamsClosed
<1> DEFINE A == /\ sclosed \subseteq sclosed'
                /\ \A p \in Proc : pc[p] = "closeRange" /\ pc'[p] = "closeFinish" =>
                     \A o \in ready : o.at = p.end => o \in sclosed'
<1> SUFFICES ASSUME NEW d \in Ends, <<Peer(d), "OpenStream">> \notin Calls
             PROVE  Spec => HeldStreamsClosed
  BY DEF SingleOpener
<1>1. Init => AllInv(d)
  BY AllInit
<1>2. AllInv(d) /\ [Next]_vars => AllInv(d)'
  BY AllStep
<1>3. AllInv(d) /\ [Next]_vars => [A]_vars
  <2> SUFFICES ASSUME AllInv(d), Next PROVE A
    OBVIOUS
  <2>0. TypeInv /\ HeldInv /\ sclosed \subseteq sclosed'
    BY Grows DEF AllInv, PairInv
  <2>1. ASSUME NEW p \in Proc, pc[p] = "closeRange", pc'[p] = "closeFinish"
        PROVE  MuxCloseRange(p)
    <3>1. ASSUME NEW q \in AppProc, AppNext(q) \/ InCall(q) PROVE FALSE
      <4>1. q = p
        <5>1. OthersKeep(q)
          BY <2>0, <3>1, AppMoves
        <5> QED
          BY <2>1, <5>1 DEF OthersKeep
      <4>2. pc[q] # "closeRange"
        BY <3>1 DEF AppNext, InCall, OpenStream, AcceptStream, MuxClose, BeginClose, Read, Write,
           Close, SetDeadline, OpenStore, OpenSend, AcceptRecv, AcceptStore, WriteSend,
           CloseSend, CloseDrop, Call, Goto
      <4> QED
        BY <2>1, <4>1, <4>2
    <3>2. ASSUME NEW q \in Proc, CloseNext(q) PROVE MuxCloseRange(p)
      <4>1. q = p
        <5>1. OthersKeep(q)
          BY <2>0, <3>2, CloseMoves
        <5> QED
          BY <2>1, <5>1 DEF OthersKeep
      <4>2. ~MuxCloseFinish(q)
        BY <2>1, <4>1 DEF MuxCloseFinish, Goto
      <4> QED
        BY <3>2, <4>1, <4>2 DEF CloseNext
    <3>3. ASSUME NEW e \in Ends, ReadNext(e) PROVE FALSE
      <4>1. RL(e) = p
        BY <2>0, <2>1, <3>3, ReadMoves DEF OthersKeep
      <4>2. pc[RL(e)] # "closeRange"
        BY <3>3 DEF ReadNext, ReadCheck, ReadUnknown, Deliver, ReadOpen, ReadClose,
           ReadKeepalive, SendPong, ReadError, BeginClose, ReadData, ReadFrame, Goto
      <4> QED
        BY <2>1, <4>1, <4>2
    <3>4. ASSUME NEW e \in Ends, WriteNext(e) PROVE FALSE
      <4>1. WL(e) = p
        BY <2>0, <2>1, <3>4, WriteMoves DEF OthersKeep
      <4>2. pc[WL(e)] # "closeRange"
        BY <3>4 DEF WriteNext, WriteTake, WriteStop, WriteFrame, WriteError, BeginClose, Goto
      <4> QED
        BY <2>1, <4>1, <4>2
    <3>5. ~ConnBreak /\ \A e \in Ends : ~Ping(e)
      BY <2>1 DEF ConnBreak, Ping
    <3> QED
      BY <3>1, <3>2, <3>3, <3>4, <3>5 DEF Next
  <2>2. ASSUME NEW p \in Proc, MuxCloseRange(p), NEW o \in ready, o.at = p.end
        PROVE  o \in sclosed'
    BY <2>0, <2>2 DEF MuxCloseRange, CloseObjs, HeldInv
  <2> QED
    BY <2>0, <2>1, <2>2
<1> QED
  BY <1>1, <1>2, <1>3, PTL DEF Spec, HeldStreamsClosed

\* If only one end opens streams, a pair of Muxes implements StreamPromise: every
\* step of the application's calls that sends or takes a payload is a Write or a
\* Read of the promise, and every other step leaves what it speaks of alone.
THEOREM PromiseKept == SingleOpener /\ Spec => KeepsPromise
<1> SUFFICES ASSUME NEW d \in Ends, <<Peer(d), "OpenStream">> \notin Calls
             PROVE  Spec => KeepsPromise
  BY DEF SingleOpener
<1>1. Init => AllInv(d)
  BY AllInit
<1>2. AllInv(d) /\ [Next]_vars => AllInv(d)'
  BY AllStep
<1>3. Init => Promise!Init
  BY DEF Init, Promise!Init
<1>4. AllInv(d) /\ [Next]_vars => [Promise!Next]_<<wrote, got>>
  <2> SUFFICES ASSUME AllInv(d), [Next]_vars, ~UNCHANGED <<wrote, got>>
               PROVE  \E o \in Obj : Promise!Write(o) \/ Promise!Read(o)
    BY DEF Promise!Next
  <2>0. DataOK /\ ChanOK /\ InHand /\ ArrivedInv /\ OrderInv
    BY DEF AllInv, PairInv, TypeInv, TypeOK
  <2>1. ASSUME NEW p \in AppProc, WriteSend(p) PROVE Promise!Write(arg[p]) /\ arg[p] \in Obj
    <3>1. arg[p] \in Obj /\ arg[p].at = p.end /\ p.end \in Ends
      BY <2>0, <2>1, Indices DEF WriteSend, Goto, InHand, HandOK, Working
    <3>2. enq[p.end] \in Nat /\ enq[p.end] < MaxFrames[p.end]
      BY <2>0, <2>1, <3>1 DEF WriteSend, Send, DataOK
    <3>3. enq[p.end] + 1 \in Payloads
      <4> DEFINE n == enq[p.end]
                 a == MaxFrames["dial"]
                 b == MaxFrames["listen"]
      <4>1. a \in Nat /\ b \in Nat /\ (MaxFrames[p.end] = a \/ MaxFrames[p.end] = b)
        BY <3>1, MuxAssumption DEF Ends
      <4>2. n \in Nat /\ (n < a \/ n < b)
        BY <3>2, <4>1
      <4> HIDE DEF n, a, b
      <4>3. n + 1 \in 1..(a + b)
        BY <4>1, <4>2
      <4> QED
        BY <4>3 DEF n, a, b, Payloads
    <3>4. \A m \in wrote[arg[p]] : m < enq[p.end] + 1
      <4>1. \A m \in wrote[arg[p]] : m \in Nat /\ m <= enq[arg[p].at]
        BY <2>0, <3>1 DEF ArrivedInv, DataOK
      <4> QED
        BY <3>1, <3>2, <4>1
    <3>5. wrote' = [wrote EXCEPT ![arg[p]] = @ \cup {enq[p.end] + 1}] /\ UNCHANGED got
      BY <2>1 DEF WriteSend
    <3> QED
      BY <3>1, <3>3, <3>4, <3>5 DEF Promise!Write
  <2>2. ASSUME NEW p \in AppProc, NEW o \in Obj, Read(p, o) PROVE Promise!Read(o)
    <3>1. readCh[o] \in Seq(Nat) /\ readCh[o] # <<>>
      BY <2>0, <2>2 DEF Read, ChanOK, QueueOK
    <3>2. Head(readCh[o]) \in Elems(readCh[o])
      BY <3>1, TailSet
    <3>3. Head(readCh[o]) \in wrote[PeerObj(o)]
      BY <2>0, <3>2 DEF ArrivedInv
    <3>4. \A k \in 1..Len(got[o]) : got[o][k] < Head(readCh[o])
      BY <2>0, <3>2 DEF OrderInv, StreamInv, Below, Elems
    <3>5. got' = [got EXCEPT ![o] = Append(@, Head(readCh[o]))] /\ UNCHANGED wrote
      BY <2>2 DEF Read
    <3> QED
      BY <3>3, <3>4, <3>5 DEF Promise!Read
  <2> QED
    BY <2>1, <2>2, WhoMoves
<1> QED
  BY <1>1, <1>2, <1>3, <1>4, PTL DEF Spec, KeepsPromise, Promise!Spec
=============================================================================
