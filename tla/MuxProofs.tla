------------------------------ MODULE MuxProofs -----------------------------
(***************************************************************************)
(* Proofs about module Mux, for any number of goroutines, streams and      *)
(* frames and any capacity of the channels.                                *)
(***************************************************************************)
EXTENDS MuxProperties, SequenceTheorems, TLAPS

(***************************************************************************)
(* A goroutine that is inside a call works on a MuxStream of its own end,  *)
(* and a loop that is about to pass a frame on holds one.                  *)
(***************************************************************************)
Working == {"openStore", "openSend", "acceptStore", "writeSend", "closeSend",
            "closeDrop", "deliver"}
HandOK(p) ==
  /\ pc[p] \in Working => arg[p] \in Obj /\ arg[p].at = p.end
  /\ pc[p] \in {"deliver", "write"} => hand[p] \in Frame
InHand == \A p \in Proc : HandOK(p)

TypeInv == TypeOK /\ InHand

\* The elements of a channel.
Elems(q) == {q[k] : k \in 1..Len(q)}

\* Facts about the sets that index the state: the goroutines of the two loops
\* are not application goroutines, and Peer is an involution on the ends.
LEMMA Indices ==
  /\ AppProc \subseteq Proc
  /\ \A p \in Proc : p.end \in Ends
  /\ \A p \in AppProc : p.end \in Ends /\ p.name \notin Loops
  /\ \A e \in Ends : /\ RL(e) \in Proc \ AppProc /\ WL(e) \in Proc \ AppProc
                     /\ RL(e).end = e /\ WL(e).end = e
                     /\ RL(e).name \in Loops /\ WL(e).name \in Loops
                     /\ RL(e) # WL(e)
  /\ \A e, f \in Ends : /\ RL(e) = RL(f) => e = f
                        /\ WL(e) = WL(f) => e = f
                        /\ RL(e) # WL(f)
  /\ \A p \in Proc \ AppProc : p = RL(p.end) \/ p = WL(p.end)
  /\ \A e \in Ends : Peer(e) \in Ends /\ Peer(e) # e /\ Peer(Peer(e)) = e
BY MuxAssumption DEF AppProc, Proc, RL, WL, Loops, Peer, Ends

\* The initial state is well typed.
LEMMA TypeInit == Init => TypeInv
<1> SUFFICES ASSUME Init PROVE TypeInv
  OBVIOUS
<1>1. /\ pc \in [Proc -> AppPC \cup ReadPC \cup WritePC]
      /\ \A p \in AppProc : pc[p] = "idle"
      /\ \A e \in Ends : pc[RL(e)] = "check" /\ pc[WL(e)] = "select"
  <2>1. \A p \in Proc : pc[p] \in {"check", "select", "idle"}
    BY DEF Init
  <2>2. \A p \in AppProc : pc[p] = "idle"
    BY Indices DEF Init, Loops
  <2>3. \A e \in Ends : pc[RL(e)] = "check" /\ pc[WL(e)] = "select"
    BY Indices DEF Init, RL, WL
  <2>4. pc = [p \in Proc |-> pc[p]]
    BY DEF Init
  <2> QED
    BY <2>1, <2>2, <2>3, <2>4 DEF AppPC, ReadPC, WritePC
<1>2. ChanOK
  BY MuxAssumption DEF Init, ChanOK, QueueOK
<1>3. DataOK
  BY MuxAssumption DEF Init, DataOK
<1>6. InHand
  <2>1. \A p \in Proc : pc[p] \notin Working
    BY <1>1, Indices DEF Working
  <2> QED
    BY <1>1, <2>1, Indices DEF InHand, HandOK
<1> QED
  BY <1>1, <1>2, <1>3, <1>6 DEF TypeInv, TypeOK, PcOK, AppPC, ReadPC, WritePC

\* A goroutine moves to a control point of its own code.
LEMMA AppMove ==
  ASSUME PcOK, NEW p \in AppProc, NEW to \in AppPC,
         pc' = [pc EXCEPT ![p] = to]
  PROVE  PcOK'
BY Indices DEF PcOK

\* The same for a readLoop.
LEMMA ReadMove ==
  ASSUME PcOK, NEW e \in Ends, NEW to \in ReadPC,
         pc' = [pc EXCEPT ![RL(e)] = to]
  PROVE  PcOK'
BY Indices DEF PcOK

\* The same for a writeLoop.
LEMMA WriteMove ==
  ASSUME PcOK, NEW e \in Ends, NEW to \in WritePC,
         pc' = [pc EXCEPT ![WL(e)] = to]
  PROVE  PcOK'
BY Indices DEF PcOK

\* A step of one goroutine leaves what the others hold alone.
OthersKeep(q) ==
  \A p \in Proc : p # q => pc'[p] = pc[p] /\ arg'[p] = arg[p] /\ hand'[p] = hand[p]

\* So it is enough to look at the goroutine that takes the step.
LEMMA HandStep ==
  ASSUME InHand, NEW q \in Proc, OthersKeep(q), HandOK(q)'
  PROVE  InHand'
BY DEF InHand, OthersKeep, HandOK

\* An element of the right kind may enter a channel that has room.
LEMMA AppendQueue ==
  ASSUME NEW S, NEW x \in S, NEW cap \in Nat, NEW q, QueueOK(q, S, cap), Len(q) < cap
  PROVE  QueueOK(Append(q, x), S, cap)
  BY AppendProperties, LenProperties DEF QueueOK

\* The first element of a channel has the kind of the channel, and taking it
\* leaves a channel of that kind.
LEMMA TailQueue ==
  ASSUME NEW S, NEW cap \in Nat, NEW q, QueueOK(q, S, cap), q # <<>>
  PROVE  Head(q) \in S /\ QueueOK(Tail(q), S, cap)
  BY HeadTailProperties, LenProperties DEF QueueOK

\* Closing a set of streams keeps their flags and counts well typed.
LEMMA CloseType ==
  ASSUME closes \in [Obj -> Nat], sclosed \subseteq Obj, NEW S, S \subseteq Obj, CloseObjs(S)
  PROVE  closes' \in [Obj -> Nat] /\ sclosed' \subseteq Obj
BY DEF CloseObjs

\* Sending a frame keeps the channels well typed.
LEMMA SendType ==
  ASSUME ChanOK, DataOK, NEW e \in Ends, NEW i, NEW t,
         \/ t \in {"data", "open", "close"} /\ i \in Ids
         \/ t \in {"ping", "pong"} /\ i = 0,
         Send(e, t, i), UNCHANGED recvVars
  PROVE  ChanOK' /\ enq' \in [Ends -> Nat]
<1> DEFINE f == [type |-> t, stream |-> i, n |-> enq[e] + 1]
<1>1. f \in Frame /\ enq' \in [Ends -> Nat]
  BY DEF DataOK, Frame, Send
<1>2. QueueOK(Append(writeCh[e], f), Frame, WriteCap)
  BY <1>1, AppendProperties, MuxAssumption DEF ChanOK, QueueOK, Send
<1>3. DOMAIN writeCh' = Ends /\ \A x \in Ends : QueueOK(writeCh'[x], Frame, WriteCap)
  BY <1>2 DEF ChanOK, Send
<1> QED
  BY <1>1, <1>3 DEF ChanOK, recvVars

\* Every call of the application keeps the state well typed.
LEMMA TypeApp ==
  ASSUME TypeInv, NEW p \in AppProc, AppNext(p) \/ InCall(p)
  PROVE  TypeInv'
<1> USE DEF mapVars, flagVars, sendVars, recvVars, objVars, histVars
<1>0. PcOK /\ ChanOK /\ DataOK /\ InHand
  BY DEF TypeInv, TypeOK
<1>a. p \in Proc /\ p.end \in Ends /\ Peer(p.end) \in Ends /\ p.name \notin Loops
  BY Indices
<1>d. /\ DOMAIN pc = Proc /\ DOMAIN arg = Proc /\ DOMAIN hand = Proc
      /\ HandOK(p)
  BY <1>0, <1>a DEF PcOK, DataOK, InHand
<1>1. CASE OpenStream(p)
  <2> DEFINE o == [at |-> p.end, opener |-> p.end, id |-> nextID[p.end] + 1]
  <2>1. PcOK'
    BY <1>0, <1>1, AppMove DEF OpenStream, Call, AppPC
  <2>2. ChanOK'
    BY <1>0, <1>1 DEF OpenStream, ChanOK
  <2>s. o \in Obj /\ o.at = p.end
    BY <1>0, <1>a, <1>1, MuxAssumption DEF OpenStream, DataOK, Obj, Ids
  <2>3. DataOK'
    <3>1. nextID' \in [Ends -> 0..MaxStreams]
      BY <1>0, <1>a, <1>1, MuxAssumption DEF OpenStream, DataOK
    <3>2. arg' \in [Proc -> Obj \cup {NoObj}]
      BY <1>0, <1>a, <1>1, <2>s DEF OpenStream, DataOK
    <3> QED
      BY <1>0, <1>1, <3>1, <3>2 DEF OpenStream, DataOK
  <2>4. OthersKeep(p)
    BY <1>a, <1>d, <1>1 DEF OpenStream, Call, OthersKeep
  <2>5. HandOK(p)'
    BY <1>a, <1>d, <1>1, <2>s DEF OpenStream, Call, HandOK, Working
  <2> QED
    BY <1>0, <1>a, <2>1, <2>2, <2>3, <2>4, <2>5, HandStep DEF TypeInv, TypeOK
<1>2. CASE OpenStore(p)
  <2>1. PcOK'
    BY <1>0, <1>2, AppMove DEF OpenStore, Goto, AppPC
  <2>2. ChanOK'
    BY <1>0, <1>2 DEF OpenStore, ChanOK
  <2>3. DataOK'
    BY <1>0, <1>a, <1>d, <1>2 DEF OpenStore, Goto, DataOK, HandOK, Working, Store, Entry
  <2>4. OthersKeep(p)
    BY <1>a, <1>d, <1>2 DEF OpenStore, Goto, OthersKeep
  <2>5. HandOK(p)'
    BY <1>a, <1>d, <1>2 DEF OpenStore, Goto, HandOK, Working
  <2> QED
    BY <1>0, <1>a, <2>1, <2>2, <2>3, <2>4, <2>5, HandStep DEF TypeInv, TypeOK
<1>3. CASE OpenSend(p)
  <2>1. PcOK'
    BY <1>0, <1>3, AppMove DEF OpenSend, Goto, AppPC
  <2>s. arg[p] \in Obj /\ arg[p].id \in Ids
    BY <1>a, <1>d, <1>3 DEF OpenSend, Goto, HandOK, Working, Obj
  <2>2. ChanOK' /\ enq' \in [Ends -> Nat]
    BY <1>0, <1>a, <2>s, <1>3, SendType DEF OpenSend
  <2>3. DataOK'
    BY <1>0, <1>a, <1>d, <1>3, <2>2, <2>s DEF OpenSend, Goto, DataOK, HandOK, Working
  <2>4. OthersKeep(p)
    BY <1>a, <1>d, <1>3 DEF OpenSend, Goto, OthersKeep
  <2>5. HandOK(p)'
    BY <1>a, <1>d, <1>3 DEF OpenSend, Goto, HandOK, Working
  <2> QED
    BY <1>0, <1>a, <2>1, <2>2, <2>3, <2>4, <2>5, HandStep DEF TypeInv, TypeOK
<1>4. CASE AcceptStream(p)
  <2>1. PcOK'
    BY <1>0, <1>4, AppMove DEF AcceptStream, Call, AppPC
  <2>2. ChanOK'
    BY <1>0, <1>4 DEF AcceptStream, ChanOK
  <2>3. DataOK'
    BY <1>0, <1>a, <1>4 DEF AcceptStream, Call, DataOK
  <2>4. OthersKeep(p)
    BY <1>a, <1>d, <1>4 DEF AcceptStream, Call, OthersKeep
  <2>5. HandOK(p)'
    BY <1>a, <1>d, <1>4 DEF AcceptStream, Call, HandOK, Working
  <2> QED
    BY <1>0, <1>a, <2>1, <2>2, <2>3, <2>4, <2>5, HandStep DEF TypeInv, TypeOK
<1>5. CASE AcceptRecv(p)
  <2>1. PcOK'
    BY <1>0, <1>5, AppMove DEF AcceptRecv, Goto, AppPC
  <2>s. Head(acceptCh[p.end]) \in Ids /\ QueueOK(Tail(acceptCh[p.end]), Ids, AcceptCap)
    <3>1. acceptCh[p.end] # <<>> /\ QueueOK(acceptCh[p.end], Ids, AcceptCap)
      BY <1>0, <1>a, <1>5 DEF AcceptRecv, ChanOK
    <3> QED
      BY <3>1, TailQueue, MuxAssumption
  <2>2. ChanOK'
    BY <1>0, <2>s, <1>5 DEF AcceptRecv, ChanOK
  <2>3. DataOK'
    BY <1>0, <1>a, <1>5, <2>s DEF AcceptRecv, Goto, DataOK, Obj
  <2>4. OthersKeep(p)
    BY <1>a, <1>d, <1>5 DEF AcceptRecv, Goto, OthersKeep
  <2>5. HandOK(p)'
    BY <1>a, <1>d, <1>5, <2>s DEF AcceptRecv, Goto, Obj, HandOK, Working
  <2> QED
    BY <1>0, <1>a, <2>1, <2>2, <2>3, <2>4, <2>5, HandStep DEF TypeInv, TypeOK
<1>6. CASE AcceptStore(p)
  <2>1. PcOK'
    BY <1>0, <1>6, AppMove DEF AcceptStore, Goto, AppPC
  <2>2. ChanOK'
    BY <1>0, <1>6 DEF AcceptStore, ChanOK
  <2>3. DataOK'
    BY <1>0, <1>a, <1>d, <1>6 DEF AcceptStore, Goto, DataOK, HandOK, Working, Store, Entry
  <2>4. OthersKeep(p)
    BY <1>a, <1>d, <1>6 DEF AcceptStore, Goto, OthersKeep
  <2>5. HandOK(p)'
    BY <1>a, <1>d, <1>6 DEF AcceptStore, Goto, HandOK, Working
  <2> QED
    BY <1>0, <1>a, <2>1, <2>2, <2>3, <2>4, <2>5, HandStep DEF TypeInv, TypeOK
<1>7. ASSUME NEW o \in Obj, Read(p, o) PROVE TypeInv'
  <2>1. PcOK'
    BY <1>0, <1>7, AppMove DEF Read, Call, AppPC
  <2>s. Head(readCh[o]) \in Nat /\ QueueOK(Tail(readCh[o]), Nat, ReadCap)
    <3>1. readCh[o] # <<>> /\ QueueOK(readCh[o], Nat, ReadCap)
      BY <1>0, <1>a, <1>7 DEF Read, ChanOK
    <3> QED
      BY <3>1, TailQueue, MuxAssumption
  <2>2. ChanOK'
    BY <1>0, <2>s, <1>7 DEF Read, ChanOK
  <2>3. DataOK'
    BY <1>0, <1>a, <1>7, <2>s, AppendProperties DEF Read, Call, DataOK
  <2>4. OthersKeep(p)
    BY <1>a, <1>d, <1>7 DEF Read, Call, OthersKeep
  <2>5. HandOK(p)'
    BY <1>a, <1>d, <1>7 DEF Read, Call, HandOK, Working
  <2> QED
    BY <1>0, <1>a, <2>1, <2>2, <2>3, <2>4, <2>5, HandStep DEF TypeInv, TypeOK
<1>8. ASSUME NEW o \in Obj, Write(p, o) PROVE TypeInv'
  <2>1. PcOK'
    BY <1>0, <1>8, AppMove DEF Write, Call, AppPC
  <2>2. ChanOK'
    BY <1>0, <1>8 DEF Write, ChanOK
  <2>3. DataOK'
    BY <1>0, <1>a, <1>8 DEF Write, Call, DataOK
  <2>4. OthersKeep(p)
    BY <1>a, <1>d, <1>8 DEF Write, Call, OthersKeep
  <2>5. HandOK(p)'
    BY <1>a, <1>d, <1>8 DEF Write, Call, HandOK, Working
  <2> QED
    BY <1>0, <1>a, <2>1, <2>2, <2>3, <2>4, <2>5, HandStep DEF TypeInv, TypeOK
<1>9. CASE WriteSend(p)
  <2>1. PcOK'
    BY <1>0, <1>9, AppMove DEF WriteSend, Goto, AppPC
  <2>s. arg[p] \in Obj /\ arg[p].id \in Ids
    BY <1>a, <1>d, <1>9 DEF WriteSend, Goto, HandOK, Working, Obj
  <2>2. ChanOK' /\ enq' \in [Ends -> Nat]
    BY <1>0, <1>a, <2>s, <1>9, SendType DEF WriteSend
  <2>3. DataOK'
    <3>1. wrote' \in [Obj -> SUBSET Nat]
      BY <1>0, <1>a, <1>9, <2>s DEF WriteSend, DataOK
    <3>2. arg' \in [Proc -> Obj \cup {NoObj}]
      BY <1>0, <1>a, <1>9 DEF WriteSend, DataOK
    <3> QED
      BY <1>0, <1>9, <2>2, <3>1, <3>2 DEF WriteSend, DataOK
  <2>4. OthersKeep(p)
    BY <1>a, <1>d, <1>9 DEF WriteSend, Goto, OthersKeep
  <2>5. HandOK(p)'
    BY <1>a, <1>d, <1>9 DEF WriteSend, Goto, HandOK, Working
  <2> QED
    BY <1>0, <1>a, <2>1, <2>2, <2>3, <2>4, <2>5, HandStep DEF TypeInv, TypeOK
<1>10. ASSUME NEW o \in Obj, Close(p, o) PROVE TypeInv'
  <2>1. PcOK'
    BY <1>0, <1>10, AppMove DEF Close, Call, AppPC
  <2>2. ChanOK'
    BY <1>0, <1>10 DEF Close, ChanOK
  <2>3. DataOK'
    BY <1>0, <1>a, <1>10 DEF Close, Call, DataOK
  <2>4. OthersKeep(p)
    BY <1>a, <1>d, <1>10 DEF Close, Call, OthersKeep
  <2>5. HandOK(p)'
    BY <1>a, <1>d, <1>10 DEF Close, Call, HandOK, Working
  <2> QED
    BY <1>0, <1>a, <2>1, <2>2, <2>3, <2>4, <2>5, HandStep DEF TypeInv, TypeOK
<1>11. CASE CloseSend(p)
  <2>1. PcOK'
    BY <1>0, <1>11, AppMove DEF CloseSend, Goto, AppPC
  <2>s. arg[p] \in Obj /\ arg[p].id \in Ids
    BY <1>a, <1>d, <1>11 DEF CloseSend, Goto, HandOK, Working, Obj
  <2>2. ChanOK' /\ enq' \in [Ends -> Nat]
    BY <1>0, <1>a, <2>s, <1>11, SendType DEF CloseSend
  <2>3. DataOK'
    BY <1>0, <1>a, <1>11, <2>2 DEF CloseSend, Goto, DataOK
  <2>4. OthersKeep(p)
    BY <1>a, <1>d, <1>11 DEF CloseSend, Goto, OthersKeep
  <2>5. HandOK(p)'
    BY <1>a, <1>d, <1>11 DEF CloseSend, Goto, HandOK, Working
  <2> QED
    BY <1>0, <1>a, <2>1, <2>2, <2>3, <2>4, <2>5, HandStep DEF TypeInv, TypeOK
<1>12. CASE CloseDrop(p)
  <2>1. PcOK'
    BY <1>0, <1>12, AppMove DEF CloseDrop, Goto, AppPC
  <2>2. ChanOK'
    BY <1>0, <1>12 DEF CloseDrop, ChanOK
  <2>3. DataOK'
    BY <1>0, <1>a, <1>d, <1>12, SMTT(30) DEF CloseDrop, Goto, DataOK, HandOK, Working, Delete, Entry
  <2>4. OthersKeep(p)
    BY <1>a, <1>d, <1>12 DEF CloseDrop, Goto, OthersKeep
  <2>5. HandOK(p)'
    BY <1>a, <1>d, <1>12 DEF CloseDrop, Goto, HandOK, Working
  <2> QED
    BY <1>0, <1>a, <2>1, <2>2, <2>3, <2>4, <2>5, HandStep DEF TypeInv, TypeOK
<1>13. ASSUME NEW o \in Obj, SetDeadline(p, o) PROVE TypeInv'
  <2>1. PcOK'
    BY <1>0, <1>13, AppMove DEF SetDeadline, Call, AppPC
  <2>2. ChanOK'
    BY <1>0, <1>13 DEF SetDeadline, ChanOK
  <2>3. DataOK'
    BY <1>0, <1>a, <1>13 DEF SetDeadline, Call, DataOK
  <2>4. OthersKeep(p)
    BY <1>a, <1>d, <1>13 DEF SetDeadline, Call, OthersKeep
  <2>5. HandOK(p)'
    BY <1>a, <1>d, <1>13 DEF SetDeadline, Call, HandOK, Working
  <2> QED
    BY <1>0, <1>a, <2>1, <2>2, <2>3, <2>4, <2>5, HandStep DEF TypeInv, TypeOK
<1>14. CASE MuxClose(p)
  <2>1. PcOK'
    BY <1>0, <1>a, <1>14, AppMove DEF MuxClose, BeginClose, Goto, Return, AppPC
  <2>2. ChanOK'
    BY <1>0, <1>14 DEF MuxClose, ChanOK
  <2>3. DataOK'
    BY <1>0, <1>a, <1>14 DEF MuxClose, BeginClose, DataOK
  <2>4. OthersKeep(p)
    BY <1>a, <1>d, <1>14 DEF MuxClose, BeginClose, Goto, Return, OthersKeep
  <2>5. HandOK(p)'
    BY <1>a, <1>d, <1>14 DEF MuxClose, BeginClose, Goto, Return, HandOK, Working
  <2> QED
    BY <1>0, <1>a, <2>1, <2>2, <2>3, <2>4, <2>5, HandStep DEF TypeInv, TypeOK
<1> QED
  BY <1>1, <1>2, <1>3, <1>4, <1>5, <1>6, <1>7, <1>8, <1>9, <1>10, <1>11, <1>12, <1>13, <1>14 DEF AppNext, InCall

\* Every step of a readLoop keeps the state well typed.
LEMMA TypeRead ==
  ASSUME TypeInv, NEW e \in Ends, ReadNext(e)
  PROVE  TypeInv'
<1> USE DEF mapVars, flagVars, sendVars, recvVars, objVars, histVars
<1>0. PcOK /\ ChanOK /\ DataOK /\ InHand
  BY DEF TypeInv, TypeOK
<1>a. RL(e) \in Proc /\ RL(e).end = e /\ RL(e).name \in Loops /\ Peer(e) \in Ends
  BY Indices
<1>d. /\ DOMAIN pc = Proc /\ DOMAIN arg = Proc /\ DOMAIN hand = Proc
      /\ HandOK(RL(e))
  BY <1>0, <1>a DEF PcOK, DataOK, InHand
<1>b. ASSUME wire[Peer(e)] # <<>>
      PROVE  Incoming(e) \in Frame /\ QueueOK(Tail(wire[Peer(e)]), Frame, WireCap)
  BY <1>0, <1>a, <1>b, TailQueue, MuxAssumption DEF ChanOK, Incoming
<1>c. ASSUME NEW T, NEW to, ReadFrame(e, T, to), UNCHANGED acceptCh
      PROVE  ChanOK'
  BY <1>0, <1>a, <1>b, <1>c DEF ReadFrame, ChanOK
<1>1. CASE ReadCheck(e)
  <2>1. PcOK'
    BY <1>0, <1>1, ReadMove DEF ReadCheck, Goto, ReadPC
  <2>2. ChanOK'
    BY <1>0, <1>1 DEF ReadCheck, ChanOK
  <2>3. DataOK'
    BY <1>0, <1>a, <1>1 DEF ReadCheck, DataOK
  <2>4. OthersKeep(RL(e))
    BY <1>a, <1>d, <1>1 DEF ReadCheck, Goto, OthersKeep
  <2>5. HandOK(RL(e))'
    BY <1>a, <1>d, <1>1 DEF ReadCheck, Goto, HandOK, Working
  <2> QED
    BY <1>0, <1>a, <2>1, <2>2, <2>3, <2>4, <2>5, HandStep DEF TypeInv, TypeOK
<1>2. CASE ReadUnknown(e)
  <2>1. PcOK'
    BY <1>0, <1>2, ReadMove DEF ReadUnknown, ReadFrame, Goto, ReadPC
  <2>2. ChanOK'
    BY <1>2, <1>c DEF ReadUnknown
  <2>3. DataOK'
    BY <1>0, <1>a, <1>2 DEF ReadUnknown, ReadFrame, DataOK
  <2>4. OthersKeep(RL(e))
    BY <1>a, <1>d, <1>2 DEF ReadUnknown, ReadFrame, Goto, OthersKeep
  <2>5. HandOK(RL(e))'
    BY <1>a, <1>d, <1>2 DEF ReadUnknown, ReadFrame, Goto, HandOK, Working
  <2> QED
    BY <1>0, <1>a, <2>1, <2>2, <2>3, <2>4, <2>5, HandStep DEF TypeInv, TypeOK
<1>3. ASSUME NEW o \in Obj, ReadData(e, o) PROVE TypeInv'
  <2>1. PcOK'
    BY <1>0, <1>3, ReadMove DEF ReadData, ReadFrame, Goto, ReadPC
  <2>2. ChanOK'
    BY <1>3, <1>c DEF ReadData
  <2>3. DataOK'
    BY <1>0, <1>a, <1>3, <1>b DEF ReadData, ReadFrame, DataOK
  <2>4. OthersKeep(RL(e))
    BY <1>a, <1>d, <1>3 DEF ReadData, ReadFrame, Goto, OthersKeep
  <2>5. HandOK(RL(e))'
    BY <1>a, <1>d, <1>3, <1>b DEF ReadData, ReadFrame, Goto, Entry, HandOK, Working
  <2> QED
    BY <1>0, <1>a, <2>1, <2>2, <2>3, <2>4, <2>5, HandStep DEF TypeInv, TypeOK
<1>4. CASE Deliver(e)
  <2>s. arg[RL(e)] \in Obj /\ hand[RL(e)].n \in Nat
    BY <1>a, <1>d, <1>4 DEF Deliver, Goto, HandOK, Working, Frame
  <2>1. PcOK'
    BY <1>0, <1>4, ReadMove DEF Deliver, Goto, ReadPC
  <2>2. ChanOK'
    <3>1. QueueOK(readCh[arg[RL(e)]], Nat, ReadCap)
      BY <1>0, <2>s DEF ChanOK
    <3>2. Len(readCh[arg[RL(e)]]) < ReadCap
            => QueueOK(Append(readCh[arg[RL(e)]], hand[RL(e)].n), Nat, ReadCap)
      BY <2>s, <3>1, AppendQueue, MuxAssumption
    <3> QED
      BY <1>0, <1>4, <2>s, <3>2 DEF Deliver, ChanOK
  <2>3. DataOK'
    BY <1>0, <1>a, <1>4 DEF Deliver, DataOK
  <2>4. OthersKeep(RL(e))
    BY <1>a, <1>d, <1>4 DEF Deliver, Goto, OthersKeep
  <2>5. HandOK(RL(e))'
    BY <1>a, <1>d, <1>4 DEF Deliver, Goto, HandOK, Working
  <2> QED
    BY <1>0, <1>a, <2>1, <2>2, <2>3, <2>4, <2>5, HandStep DEF TypeInv, TypeOK
<1>5. CASE ReadOpen(e)
  <2>1. PcOK'
    BY <1>0, <1>5, ReadMove DEF ReadOpen, ReadFrame, Goto, ReadPC
  <2>i. Incoming(e).stream \in Ids
    BY <1>a, <1>b, <1>5 DEF ReadOpen, ReadFrame, Frame
  <2>q. QueueOK(acceptCh[e], Ids, AcceptCap)
    BY <1>0 DEF ChanOK
  <2>t. Len(acceptCh[e]) < AcceptCap
          => QueueOK(Append(acceptCh[e], Incoming(e).stream), Ids, AcceptCap)
    BY <2>i, <2>q, AppendQueue, MuxAssumption
  <2>s. QueueOK(acceptCh'[e], Ids, AcceptCap)
    BY <1>0, <1>5, <2>q, <2>t DEF ReadOpen, ChanOK
  <2>2. ChanOK'
    BY <1>0, <1>a, <1>b, <1>5, <2>s DEF ReadOpen, ReadFrame, ChanOK
  <2>3. DataOK'
    BY <1>0, <1>a, <1>5 DEF ReadOpen, ReadFrame, DataOK
  <2>4. OthersKeep(RL(e))
    BY <1>a, <1>d, <1>5 DEF ReadOpen, ReadFrame, Goto, OthersKeep
  <2>5. HandOK(RL(e))'
    BY <1>a, <1>d, <1>5 DEF ReadOpen, ReadFrame, Goto, HandOK, Working
  <2> QED
    BY <1>0, <1>a, <2>1, <2>2, <2>3, <2>4, <2>5, HandStep DEF TypeInv, TypeOK
<1>6. CASE ReadClose(e)
  <2>1. PcOK'
    BY <1>0, <1>6, ReadMove DEF ReadClose, ReadFrame, Goto, ReadPC
  <2>2. ChanOK'
    BY <1>6, <1>c DEF ReadClose
  <2>s. Entry(e, Incoming(e).stream) \subseteq Obj
    BY <1>0 DEF Entry, DataOK
  <2>c. closes' \in [Obj -> Nat] /\ sclosed' \subseteq Obj
    BY <1>0, <1>6, <2>s, CloseType DEF ReadClose, DataOK
  <2>3. DataOK'
    BY <1>0, <1>a, <1>6, <2>c DEF ReadClose, ReadFrame, Delete, DataOK
  <2>4. OthersKeep(RL(e))
    BY <1>a, <1>d, <1>6 DEF ReadClose, ReadFrame, Goto, OthersKeep
  <2>5. HandOK(RL(e))'
    BY <1>a, <1>d, <1>6 DEF ReadClose, ReadFrame, Goto, HandOK, Working
  <2> QED
    BY <1>0, <1>a, <2>1, <2>2, <2>3, <2>4, <2>5, HandStep DEF TypeInv, TypeOK
<1>7. CASE ReadKeepalive(e)
  <2>1. PcOK'
    BY <1>0, <1>7, ReadMove DEF ReadKeepalive, ReadFrame, Goto, ReadPC
  <2>2. ChanOK'
    BY <1>7, <1>c DEF ReadKeepalive
  <2>3. DataOK'
    BY <1>0, <1>a, <1>7 DEF ReadKeepalive, ReadFrame, DataOK
  <2>4. OthersKeep(RL(e))
    BY <1>a, <1>d, <1>7 DEF ReadKeepalive, ReadFrame, Goto, OthersKeep
  <2>5. HandOK(RL(e))'
    BY <1>a, <1>d, <1>7 DEF ReadKeepalive, ReadFrame, Goto, HandOK, Working
  <2> QED
    BY <1>0, <1>a, <2>1, <2>2, <2>3, <2>4, <2>5, HandStep DEF TypeInv, TypeOK
<1>8. CASE SendPong(e)
  <2>1. PcOK'
    BY <1>0, <1>8, ReadMove DEF SendPong, Goto, ReadPC
  <2>2. ChanOK' /\ enq' \in [Ends -> Nat]
    BY <1>0, <1>8, SendType DEF SendPong
  <2>3. DataOK'
    BY <1>0, <1>a, <1>8, <2>2 DEF SendPong, DataOK
  <2>4. OthersKeep(RL(e))
    BY <1>a, <1>d, <1>8 DEF SendPong, Goto, OthersKeep
  <2>5. HandOK(RL(e))'
    BY <1>a, <1>d, <1>8 DEF SendPong, Goto, HandOK, Working
  <2> QED
    BY <1>0, <1>a, <2>1, <2>2, <2>3, <2>4, <2>5, HandStep DEF TypeInv, TypeOK
<1>9. CASE ReadError(e)
  <2>1. PcOK'
    BY <1>0, <1>a, <1>9, ReadMove DEF ReadError, BeginClose, Return, Goto, ReadPC
  <2>2. ChanOK'
    BY <1>0, <1>9 DEF ReadError, ChanOK
  <2>3. DataOK'
    BY <1>0, <1>a, <1>9 DEF ReadError, BeginClose, DataOK
  <2>4. OthersKeep(RL(e))
    BY <1>a, <1>d, <1>9 DEF ReadError, BeginClose, Return, Goto, OthersKeep
  <2>5. HandOK(RL(e))'
    BY <1>a, <1>d, <1>9 DEF ReadError, BeginClose, Return, Goto, HandOK, Working
  <2> QED
    BY <1>0, <1>a, <2>1, <2>2, <2>3, <2>4, <2>5, HandStep DEF TypeInv, TypeOK
<1> QED
  BY <1>1, <1>2, <1>3, <1>4, <1>5, <1>6, <1>7, <1>8, <1>9 DEF ReadNext

\* Every step of a writeLoop keeps the state well typed.
LEMMA TypeWrite ==
  ASSUME TypeInv, NEW e \in Ends, WriteNext(e)
  PROVE  TypeInv'
<1> USE DEF mapVars, flagVars, sendVars, recvVars, objVars, histVars
<1>0. PcOK /\ ChanOK /\ DataOK /\ InHand
  BY DEF TypeInv, TypeOK
<1>a. WL(e) \in Proc /\ WL(e).end = e /\ WL(e).name \in Loops
  BY Indices
<1>d. /\ DOMAIN pc = Proc /\ DOMAIN arg = Proc /\ DOMAIN hand = Proc
      /\ HandOK(WL(e))
  BY <1>0, <1>a DEF PcOK, DataOK, InHand
<1>1. CASE WriteTake(e)
  <2>s. Head(writeCh[e]) \in Frame /\ QueueOK(Tail(writeCh[e]), Frame, WriteCap)
    <3>1. writeCh[e] # <<>> /\ QueueOK(writeCh[e], Frame, WriteCap)
      BY <1>0, <1>1 DEF WriteTake, ChanOK
    <3> QED
      BY <3>1, TailQueue, MuxAssumption
  <2>1. PcOK'
    BY <1>0, <1>1, WriteMove DEF WriteTake, Goto, WritePC
  <2>2. ChanOK'
    BY <1>0, <1>1, <2>s DEF WriteTake, ChanOK
  <2>3. DataOK'
    BY <1>0, <1>a, <1>1, <2>s DEF WriteTake, DataOK
  <2>4. OthersKeep(WL(e))
    BY <1>a, <1>d, <1>1 DEF WriteTake, Goto, OthersKeep
  <2>5. HandOK(WL(e))'
    BY <1>a, <1>d, <1>1, <2>s DEF WriteTake, Goto, HandOK, Working
  <2> QED
    BY <1>0, <1>a, <2>1, <2>2, <2>3, <2>4, <2>5, HandStep DEF TypeInv, TypeOK
<1>2. CASE WriteStop(e)
  <2>1. PcOK'
    BY <1>0, <1>2, WriteMove DEF WriteStop, Goto, WritePC
  <2>2. ChanOK'
    BY <1>0, <1>2 DEF WriteStop, ChanOK
  <2>3. DataOK'
    BY <1>0, <1>a, <1>2 DEF WriteStop, DataOK
  <2>4. OthersKeep(WL(e))
    BY <1>a, <1>d, <1>2 DEF WriteStop, Goto, OthersKeep
  <2>5. HandOK(WL(e))'
    BY <1>a, <1>d, <1>2 DEF WriteStop, Goto, HandOK, Working
  <2> QED
    BY <1>0, <1>a, <2>1, <2>2, <2>3, <2>4, <2>5, HandStep DEF TypeInv, TypeOK
<1>3. CASE WriteFrame(e)
  <2>s. QueueOK(Append(wire[e], hand[WL(e)]), Frame, WireCap)
    <3>1. hand[WL(e)] \in Frame
      BY <1>a, <1>d, <1>3 DEF WriteFrame, Goto, HandOK
    <3>2. QueueOK(wire[e], Frame, WireCap) /\ Len(wire[e]) < WireCap
      BY <1>0, <1>3 DEF WriteFrame, ChanOK
    <3> QED
      BY <3>1, <3>2, AppendQueue, MuxAssumption
  <2>1. PcOK'
    BY <1>0, <1>3, WriteMove DEF WriteFrame, Goto, WritePC
  <2>2. ChanOK'
    BY <1>0, <1>3, <2>s DEF WriteFrame, ChanOK
  <2>3. DataOK'
    BY <1>0, <1>a, <1>3 DEF WriteFrame, DataOK
  <2>4. OthersKeep(WL(e))
    BY <1>a, <1>d, <1>3 DEF WriteFrame, Goto, OthersKeep
  <2>5. HandOK(WL(e))'
    BY <1>a, <1>d, <1>3 DEF WriteFrame, Goto, HandOK, Working
  <2> QED
    BY <1>0, <1>a, <2>1, <2>2, <2>3, <2>4, <2>5, HandStep DEF TypeInv, TypeOK
<1>4. CASE WriteError(e)
  <2>1. PcOK'
    BY <1>0, <1>a, <1>4, WriteMove DEF WriteError, BeginClose, Return, Goto, WritePC
  <2>2. ChanOK'
    BY <1>0, <1>4 DEF WriteError, ChanOK
  <2>3. DataOK'
    BY <1>0, <1>a, <1>4 DEF WriteError, BeginClose, DataOK
  <2>4. OthersKeep(WL(e))
    BY <1>a, <1>d, <1>4 DEF WriteError, BeginClose, Return, Goto, OthersKeep
  <2>5. HandOK(WL(e))'
    BY <1>a, <1>d, <1>4 DEF WriteError, BeginClose, Return, Goto, HandOK, Working
  <2> QED
    BY <1>0, <1>a, <2>1, <2>2, <2>3, <2>4, <2>5, HandStep DEF TypeInv, TypeOK
<1> QED
  BY <1>1, <1>2, <1>3, <1>4 DEF WriteNext

\* The steps of Mux.Close, whoever runs it, keep the state well typed.
LEMMA TypeClose ==
  ASSUME TypeInv, NEW p \in Proc, CloseNext(p)
  PROVE  TypeInv'
<1> USE DEF mapVars, flagVars, sendVars, recvVars, objVars, histVars
<1>0. PcOK /\ ChanOK /\ DataOK /\ InHand
  BY DEF TypeInv, TypeOK
<1>a. p \in Proc /\ p.end \in Ends
  BY Indices
<1>d. /\ DOMAIN pc = Proc /\ DOMAIN arg = Proc /\ DOMAIN hand = Proc
      /\ HandOK(p)
  BY <1>0, <1>a DEF PcOK, DataOK, InHand
<1>m. ASSUME NEW to \in {"closeFinish", Return(p)}, pc' = [pc EXCEPT ![p] = to]
      PROVE  PcOK'
  <2>1. CASE p \in AppProc
    BY <1>0, <1>m, <2>1, AppMove, Indices DEF Return, AppPC
  <2>2. CASE p = RL(p.end)
    BY <1>0, <1>m, <2>2, ReadMove, Indices DEF Return, ReadPC
  <2>3. CASE p = WL(p.end)
    BY <1>0, <1>m, <2>3, WriteMove, Indices DEF Return, WritePC
  <2> QED
    BY <2>1, <2>2, <2>3, Indices
<1>1. CASE MuxCloseRange(p)
  <2>1. PcOK'
    BY <1>1, <1>m DEF MuxCloseRange, Goto
  <2>2. ChanOK'
    BY <1>0, <1>1 DEF MuxCloseRange, ChanOK
  <2>3. DataOK'
    <3>1. closes' \in [Obj -> Nat] /\ sclosed' \subseteq Obj
      BY <1>0, <1>1, CloseType DEF MuxCloseRange, DataOK
    <3> QED
      BY <1>0, <1>1, <3>1 DEF MuxCloseRange, DataOK
  <2>4. OthersKeep(p)
    BY <1>a, <1>d, <1>1 DEF MuxCloseRange, Goto, OthersKeep
  <2>5. HandOK(p)'
    BY <1>a, <1>d, <1>1 DEF MuxCloseRange, Goto, HandOK, Working
  <2> QED
    BY <1>0, <1>a, <2>1, <2>2, <2>3, <2>4, <2>5, HandStep DEF TypeInv, TypeOK
<1>2. CASE MuxCloseFinish(p)
  <2>1. PcOK'
    BY <1>2, <1>m DEF MuxCloseFinish, Goto
  <2>2. ChanOK'
    BY <1>0, <1>2 DEF MuxCloseFinish, ChanOK
  <2>3. DataOK'
    BY <1>0, <1>a, <1>2 DEF MuxCloseFinish, DataOK
  <2>4. OthersKeep(p)
    BY <1>a, <1>d, <1>2 DEF MuxCloseFinish, Goto, Return, OthersKeep
  <2>5. HandOK(p)'
    BY <1>a, <1>d, <1>2 DEF MuxCloseFinish, Goto, Return, HandOK, Working
  <2> QED
    BY <1>0, <1>a, <2>1, <2>2, <2>3, <2>4, <2>5, HandStep DEF TypeInv, TypeOK
<1> QED
  BY <1>1, <1>2 DEF CloseNext

\* Every step keeps the state well typed.
LEMMA TypeStep == TypeInv /\ [Next]_vars => TypeInv'
<1> USE DEF mapVars, flagVars, sendVars, recvVars, objVars, histVars
<1> SUFFICES ASSUME TypeInv, [Next]_vars PROVE TypeInv'
  OBVIOUS
<1>0. PcOK /\ ChanOK /\ DataOK /\ InHand
  BY DEF TypeInv, TypeOK
<1>1. ASSUME NEW e \in Ends, Ping(e) PROVE TypeInv'
  <2>1. ChanOK' /\ enq' \in [Ends -> Nat]
    BY <1>0, <1>1, SendType DEF Ping
  <2>2. PcOK' /\ DataOK' /\ InHand'
    BY <1>0, <1>1, <2>1 DEF Ping, PcOK, DataOK, InHand, HandOK
  <2> QED
    BY <2>1, <2>2 DEF TypeInv, TypeOK
<1>2. CASE ConnBreak
  BY <1>0, <1>2 DEF ConnBreak, TypeInv, TypeOK, PcOK, ChanOK, DataOK, InHand, HandOK
<1>3. CASE UNCHANGED vars
  BY <1>0, <1>3 DEF vars, TypeInv, TypeOK, PcOK, ChanOK, DataOK, InHand, HandOK
<1> QED
  BY <1>1, <1>2, <1>3, TypeApp, TypeRead, TypeWrite, TypeClose DEF Next

\* In every reachable state goroutines are where their code can be, channels
\* stay within their capacity, and every variable has its type.
THEOREM TypeCorrect == Spec => []TypeOK
<1>1. TypeInv => TypeOK
  BY DEF TypeInv
<1> QED
  BY <1>1, TypeInit, TypeStep, PTL DEF Spec
=============================================================================
