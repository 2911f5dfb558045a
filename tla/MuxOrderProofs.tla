--------------------------- MODULE MuxOrderProofs ---------------------------
(***************************************************************************)
(* Proof that the application reads payloads in the order in which the     *)
(* peer put them into writeCh.  A payload moves through writeCh, the hand  *)
(* of the writeLoop, the connection, the hand of the readLoop, the readCh  *)
(* of a MuxStream and the application.  OrderInv says that every place     *)
(* holds numbers in increasing order, and that whatever is further along   *)
(* is smaller.                                                             *)
(***************************************************************************)
EXTENDS MuxProofs

Nums(q) == {q[k].n : k \in 1..Len(q)}
Sorted(q) == \A i, j \in 1..Len(q) : i < j => q[i].n < q[j].n
Below(S, T) == \A x \in S, y \in T : x < y

\* The number in the hand of a loop.
WLNum(e) == IF pc[WL(e)] = "write" THEN {hand[WL(e)].n} ELSE {}
RLNum(e) == IF pc[RL(e)] = "deliver" THEN {hand[RL(e)].n} ELSE {}
\* What end e has sent and its peer has not yet read from the connection.
Coming(e) == Nums(writeCh[e]) \cup WLNum(e) \cup Nums(wire[e])

SendInv(e) ==
  /\ Sorted(writeCh[e]) /\ Sorted(wire[e])
  /\ Below(WLNum(e), Nums(writeCh[e]))
  /\ Below(Nums(wire[e]), WLNum(e) \cup Nums(writeCh[e]))
  /\ Coming(e) \subseteq 1..enq[e]

\* The frames of the peer at the receiving end e.
RecvInv(e) ==
  /\ RLNum(e) \subseteq 1..enq[Peer(e)]
  /\ Below(RLNum(e), Coming(Peer(e)))

StreamInv(o) ==
  /\ Increasing(got[o]) /\ Increasing(readCh[o])
  /\ Below(Elems(got[o]), Elems(readCh[o]))
  /\ Elems(got[o]) \cup Elems(readCh[o]) \subseteq 1..enq[Peer(o.at)]
  /\ Below(Elems(got[o]) \cup Elems(readCh[o]), RLNum(o.at) \cup Coming(Peer(o.at)))

OrderInv ==
  /\ \A e \in Ends : SendInv(e) /\ RecvInv(e)
  /\ \A o \in Obj : StreamInv(o)

\* Appending to a queue of frames, seen as a set of numbers.
LEMMA AppendNums ==
  ASSUME NEW S, NEW q \in Seq(S), NEW f \in S
  PROVE  /\ Nums(Append(q, f)) = Nums(q) \cup {f.n}
         /\ Sorted(q) /\ Below(Nums(q), {f.n}) => Sorted(Append(q, f))
<1>1. /\ Append(q, f) \in Seq(S) /\ Len(Append(q, f)) = Len(q) + 1 /\ Len(q) \in Nat
      /\ \A k \in 1..Len(q) : Append(q, f)[k] = q[k]
      /\ Append(q, f)[Len(q) + 1] = f
  BY AppendProperties, LenProperties
<1>2. Nums(Append(q, f)) = Nums(q) \cup {f.n}
  BY <1>1 DEF Nums
<1>3. Sorted(q) /\ Below(Nums(q), {f.n}) => Sorted(Append(q, f))
  BY <1>1 DEF Sorted, Below, Nums
<1> QED
  BY <1>2, <1>3

\* Taking the first of a queue of frames, seen as a set of numbers.
LEMMA TailNums ==
  ASSUME NEW S, NEW q \in Seq(S), q # <<>>
  PROVE  /\ Nums(q) = {Head(q).n} \cup Nums(Tail(q))
         /\ Sorted(q) => Sorted(Tail(q)) /\ Below({Head(q).n}, Nums(Tail(q)))
<1>1. /\ Tail(q) \in Seq(S) /\ Len(Tail(q)) = Len(q) - 1 /\ Len(q) \in Nat /\ Len(q) > 0
      /\ \A k \in 1..Len(q) - 1 : Tail(q)[k] = q[k + 1]
      /\ Head(q) = q[1]
  BY HeadTailProperties, LenProperties, EmptySeq
<1>2. ASSUME NEW k \in 1..Len(q), k # 1
      PROVE  k - 1 \in 1..Len(q) - 1 /\ Tail(q)[k - 1] = q[k]
  BY <1>1, <1>2
<1>3. Nums(q) = {Head(q).n} \cup Nums(Tail(q))
  BY <1>1, <1>2 DEF Nums
<1>4. Sorted(q) => Sorted(Tail(q)) /\ Below({Head(q).n}, Nums(Tail(q)))
  BY <1>1 DEF Sorted, Below, Nums
<1> QED
  BY <1>3, <1>4

\* Appending to a queue of payloads.
LEMMA AppendElems ==
  ASSUME NEW q \in Seq(Nat), NEW n \in Nat
  PROVE  /\ Elems(Append(q, n)) = Elems(q) \cup {n}
         /\ Increasing(q) /\ Below(Elems(q), {n}) => Increasing(Append(q, n))
<1>1. /\ Append(q, n) \in Seq(Nat) /\ Len(Append(q, n)) = Len(q) + 1 /\ Len(q) \in Nat
      /\ \A k \in 1..Len(q) : Append(q, n)[k] = q[k]
      /\ Append(q, n)[Len(q) + 1] = n
  BY AppendProperties, LenProperties
<1>2. Elems(Append(q, n)) = Elems(q) \cup {n}
  BY <1>1 DEF Elems
<1>3. Increasing(q) /\ Below(Elems(q), {n}) => Increasing(Append(q, n))
  BY <1>1 DEF Increasing, Below, Elems
<1> QED
  BY <1>2, <1>3

\* Taking the first of a queue of payloads.
LEMMA TailElems ==
  ASSUME NEW q \in Seq(Nat), q # <<>>
  PROVE  /\ Elems(q) = {Head(q)} \cup Elems(Tail(q))
         /\ Increasing(q) => Increasing(Tail(q)) /\ Below({Head(q)}, Elems(Tail(q)))
<1>1. /\ Tail(q) \in Seq(Nat) /\ Len(Tail(q)) = Len(q) - 1 /\ Len(q) \in Nat /\ Len(q) > 0
      /\ \A k \in 1..Len(q) - 1 : Tail(q)[k] = q[k + 1]
      /\ Head(q) = q[1]
  BY HeadTailProperties, LenProperties, EmptySeq
<1>2. ASSUME NEW k \in 1..Len(q), k # 1
      PROVE  k - 1 \in 1..Len(q) - 1 /\ Tail(q)[k - 1] = q[k]
  BY <1>1, <1>2
<1>3. Elems(q) = {Head(q)} \cup Elems(Tail(q))
  <2>1. \A k \in 1..Len(Tail(q)) : k + 1 \in 1..Len(q) /\ Tail(q)[k] = q[k + 1]
    BY <1>1
  <2>2. \A k \in 1..Len(q) : q[k] = Head(q) \/ q[k] \in Elems(Tail(q))
    BY <1>1, <1>2 DEF Elems
  <2>3. Head(q) \in Elems(q) /\ Elems(Tail(q)) \subseteq Elems(q)
    BY <1>1, <2>1 DEF Elems
  <2>4. Elems(q) \subseteq {Head(q)} \cup Elems(Tail(q))
    BY <2>2 DEF Elems
  <2> QED
    BY <2>3, <2>4
<1>4. Increasing(q) => Increasing(Tail(q)) /\ Below({Head(q)}, Elems(Tail(q)))
  BY <1>1 DEF Increasing, Below, Elems
<1> QED
  BY <1>3, <1>4

\* A step that delivers nothing: what the receiving end has read stays below
\* what is still to come.
LEMMA OrderKept ==
  ASSUME OrderInv, UNCHANGED <<enq, readCh, got>>,
         \A e \in Ends : /\ SendInv(e)'
                         /\ Coming(e)' \subseteq Coming(e)
                         /\ RLNum(e)' \subseteq RLNum(e)
  PROVE  OrderInv'
<1>1. \A e \in Ends : Peer(e) \in Ends
  BY Indices
<1>2. \A e \in Ends : RecvInv(e)'
  BY <1>1 DEF OrderInv, RecvInv, Below
<1>3. ASSUME NEW o \in Obj PROVE StreamInv(o)'
  <2>1. o.at \in Ends
    BY DEF Obj
  <2> QED
    BY <1>1, <2>1 DEF OrderInv, StreamInv, Below
<1> QED
  BY <1>2, <1>3 DEF OrderInv

\* A step that moves no frame.
LEMMA OrderQuiet ==
  ASSUME OrderInv, UNCHANGED <<writeCh, enq, wire, readCh, got>>,
         \A e \in Ends : WLNum(e)' \subseteq WLNum(e) /\ RLNum(e)' \subseteq RLNum(e)
  PROVE  OrderInv'
<1>1. \A e \in Ends : Coming(e)' \subseteq Coming(e)
  BY DEF Coming
<1>2. \A e \in Ends : SendInv(e)'
  BY <1>1 DEF OrderInv, SendInv, Below
<1> QED
  BY <1>1, <1>2, OrderKept

\* A frame enters writeCh with a number larger than all before it.
LEMMA OrderSend ==
  ASSUME TypeInv, OrderInv, NEW s \in Ends, NEW t, NEW i,
         \/ t \in {"data", "open", "close"} /\ i \in Ids
         \/ t \in {"ping", "pong"} /\ i = 0,
         Send(s, t, i), UNCHANGED <<wire, readCh, got>>,
         \A e \in Ends : WLNum(e)' = WLNum(e) /\ RLNum(e)' = RLNum(e)
  PROVE  OrderInv'
<1> DEFINE f == [type |-> t, stream |-> i, n |-> enq[s] + 1]
<1>1. enq \in [Ends -> Nat] /\ writeCh[s] \in Seq(Frame) /\ f \in Frame
  BY DEF TypeInv, TypeOK, DataOK, ChanOK, QueueOK, Frame
<1>2. /\ enq' \in [Ends -> Nat] /\ enq'[s] = enq[s] + 1
      /\ \A e \in Ends : e # s => enq'[e] = enq[e] /\ writeCh'[e] = writeCh[e]
      /\ writeCh'[s] = Append(writeCh[s], f)
  BY <1>1 DEF Send, TypeInv, TypeOK, ChanOK
<1>3. /\ Nums(writeCh'[s]) = Nums(writeCh[s]) \cup {enq[s] + 1}
      /\ Sorted(writeCh[s]) /\ Below(Nums(writeCh[s]), {enq[s] + 1}) => Sorted(writeCh'[s])
  <2>1. f.n = enq[s] + 1
    OBVIOUS
  <2> HIDE DEF f
  <2>2. /\ Nums(Append(writeCh[s], f)) = Nums(writeCh[s]) \cup {f.n}
        /\ Sorted(writeCh[s]) /\ Below(Nums(writeCh[s]), {f.n}) => Sorted(Append(writeCh[s], f))
    BY <1>1, AppendNums
  <2> QED
    BY <1>2, <2>1, <2>2
<1>4. \A e \in Ends : e # s => Coming(e)' = Coming(e)
  BY <1>2 DEF Coming
<1>5. Coming(s)' = Coming(s) \cup {enq[s] + 1}
  BY <1>3 DEF Coming
<1>6. Coming(s) \subseteq 1..enq[s] /\ Below(Coming(s), {enq[s] + 1})
  BY <1>1 DEF OrderInv, SendInv, Below
<1>7. \A e \in Ends : SendInv(e)'
  <2>1. SendInv(s)'
    <3>1. Sorted(writeCh[s])'
      BY <1>3, <1>6 DEF OrderInv, SendInv, Coming, Below
    <3>2. Below(WLNum(s), Nums(writeCh[s]))' /\ Below(Nums(wire[s]), WLNum(s) \cup Nums(writeCh[s]))'
      BY <1>3, <1>6 DEF OrderInv, SendInv, Coming, Below
    <3>3. (Coming(s) \subseteq 1..enq[s])'
      BY <1>1, <1>2, <1>5, <1>6
    <3> QED
      BY <3>1, <3>2, <3>3 DEF OrderInv, SendInv
  <2>2. ASSUME NEW e \in Ends, e # s PROVE SendInv(e)'
    BY <1>2, <1>4, <2>2 DEF OrderInv, SendInv
  <2> QED
    BY <2>1, <2>2
<1>8. ASSUME NEW S \in SUBSET Nat, NEW e \in Ends, S \subseteq 1..enq[e], Below(S, Coming(e))
      PROVE  S \subseteq 1..enq'[e] /\ Below(S, Coming(e)')
  BY <1>1, <1>2, <1>4, <1>5, <1>8 DEF Below
<1>9. \A e \in Ends : RecvInv(e)'
  <2>1. ASSUME NEW e \in Ends PROVE RecvInv(e)'
    <3>1. Peer(e) \in Ends /\ RecvInv(e) /\ RLNum(e) \subseteq Nat
      BY <1>1, Indices DEF OrderInv, RecvInv
    <3> QED
      BY <1>8, <3>1 DEF RecvInv
  <2> QED
    BY <2>1
<1>10. \A o \in Obj : StreamInv(o)'
  <2>1. ASSUME NEW o \in Obj PROVE StreamInv(o)'
    <3> DEFINE S == Elems(got[o]) \cup Elems(readCh[o])
    <3>1. o.at \in Ends /\ Peer(o.at) \in Ends
      BY Indices DEF Obj
    <3>a. StreamInv(o)
      BY DEF OrderInv
    <3>b. S \subseteq 1..enq[Peer(o.at)] /\ Below(S, RLNum(o.at) \cup Coming(Peer(o.at)))
      BY <3>a DEF StreamInv
    <3>2. S \in SUBSET Nat /\ S \subseteq 1..enq[Peer(o.at)]
          /\ Below(S, Coming(Peer(o.at))) /\ Below(S, RLNum(o.at))
      BY <1>1, <3>1, <3>b DEF Below
    <3>3. S \subseteq 1..enq'[Peer(o.at)] /\ Below(S, Coming(Peer(o.at))')
      BY <1>8, <3>1, <3>2
    <3>4. Below(S, RLNum(o.at)' \cup Coming(Peer(o.at))')
      BY <3>1, <3>2, <3>3 DEF Below
    <3> QED
      BY <3>a, <3>3, <3>4 DEF StreamInv
  <2> QED
    BY <2>1
<1> QED
  BY <1>7, <1>9, <1>10 DEF OrderInv

\* The writeLoop takes the first frame of writeCh, or drops it.
LEMMA OrderTake ==
  ASSUME TypeInv, OrderInv, NEW s \in Ends, WriteTake(s)
  PROVE  OrderInv'
<1> USE Indices
<1> DEFINE h == Head(writeCh[s])
<1>1. /\ writeCh[s] \in Seq(Frame) /\ writeCh[s] # <<>>
      /\ pc \in [Proc -> AppPC \cup ReadPC \cup WritePC] /\ hand \in [Proc -> Frame \cup {NoFrame}]
      /\ writeCh'[s] = Tail(writeCh[s]) /\ \A e \in Ends : e # s => writeCh'[e] = writeCh[e]
  BY DEF TypeInv, TypeOK, PcOK, DataOK, ChanOK, QueueOK, WriteTake
<1>2. /\ Nums(writeCh[s]) = {h.n} \cup Nums(writeCh'[s])
      /\ Sorted(writeCh[s]) => Sorted(writeCh'[s]) /\ Below({h.n}, Nums(writeCh'[s]))
  <2>1. /\ Nums(writeCh[s]) = {Head(writeCh[s]).n} \cup Nums(Tail(writeCh[s]))
        /\ Sorted(writeCh[s]) => /\ Sorted(Tail(writeCh[s]))
                                /\ Below({Head(writeCh[s]).n}, Nums(Tail(writeCh[s])))
    BY <1>1, TailNums
  <2> QED
    BY <1>1, <2>1
<1>3. WLNum(s) = {} /\ WLNum(s)' \subseteq {h.n}
  BY <1>1 DEF WriteTake, Goto, WLNum
<1>4. /\ \A e \in Ends : e # s => WLNum(e)' = WLNum(e)
      /\ \A e \in Ends : RLNum(e)' = RLNum(e)
      /\ UNCHANGED <<wire, enq, readCh, got>>
  BY <1>1 DEF WriteTake, Goto, WLNum, RLNum, recvVars, histVars
<1>5. \A e \in Ends : Coming(e)' \subseteq Coming(e)
  BY <1>1, <1>2, <1>3, <1>4 DEF Coming
<1>6. SendInv(s)'
  <2>1. SendInv(s)
    BY DEF OrderInv
  <2> QED
    BY <1>2, <1>3, <1>4, <1>5, <2>1 DEF SendInv, Below
<1>7. ASSUME NEW e \in Ends, e # s PROVE SendInv(e)'
  <2>1. UNCHANGED <<writeCh[e], wire[e], enq[e]>> /\ WLNum(e)' = WLNum(e) /\ Coming(e)' = Coming(e)
    BY <1>1, <1>4, <1>7 DEF Coming
  <2> QED
    BY <2>1 DEF OrderInv, SendInv
<1> QED
  BY <1>4, <1>5, <1>6, <1>7, OrderKept

\* The writeLoop writes the frame in its hand to the connection.
LEMMA OrderWrite ==
  ASSUME TypeInv, OrderInv, NEW s \in Ends, WriteFrame(s)
  PROVE  OrderInv'
<1> USE Indices
<1> DEFINE f == hand[WL(s)]
<1>1. /\ wire[s] \in Seq(Frame) /\ f \in Frame
      /\ pc \in [Proc -> AppPC \cup ReadPC \cup WritePC] /\ hand \in [Proc -> Frame \cup {NoFrame}]
      /\ wire'[s] = Append(wire[s], f) /\ \A e \in Ends : e # s => wire'[e] = wire[e]
  BY DEF TypeInv, TypeOK, PcOK, DataOK, ChanOK, QueueOK, InHand, HandOK, WriteFrame, Goto
<1>2. WLNum(s) = {f.n} /\ WLNum(s)' = {}
  BY <1>1 DEF WriteFrame, Goto, WLNum
<1>3. /\ \A e \in Ends : e # s => WLNum(e)' = WLNum(e)
      /\ \A e \in Ends : RLNum(e)' = RLNum(e)
      /\ UNCHANGED <<writeCh, enq, readCh, got>>
  BY <1>1 DEF WriteFrame, Goto, WLNum, RLNum, sendVars, histVars
<1> HIDE DEF f
<1>4. /\ Nums(wire'[s]) = Nums(wire[s]) \cup {f.n}
      /\ Sorted(wire[s]) /\ Below(Nums(wire[s]), {f.n}) => Sorted(wire'[s])
  <2>1. /\ Nums(Append(wire[s], f)) = Nums(wire[s]) \cup {f.n}
        /\ Sorted(wire[s]) /\ Below(Nums(wire[s]), {f.n}) => Sorted(Append(wire[s], f))
    BY <1>1, AppendNums
  <2> QED
    BY <1>1, <2>1
<1>5. \A e \in Ends : Coming(e)' \subseteq Coming(e)
  BY <1>1, <1>2, <1>3, <1>4 DEF Coming
<1>6. SendInv(s)'
  <2>1. SendInv(s)
    BY DEF OrderInv
  <2> QED
    BY <1>2, <1>3, <1>4, <1>5, <2>1 DEF SendInv, Below
<1>7. ASSUME NEW e \in Ends, e # s PROVE SendInv(e)'
  <2>1. UNCHANGED <<writeCh[e], wire[e], enq[e]>> /\ WLNum(e)' = WLNum(e) /\ Coming(e)' = Coming(e)
    BY <1>1, <1>3, <1>7 DEF Coming
  <2> QED
    BY <2>1 DEF OrderInv, SendInv
<1> QED
  BY <1>3, <1>5, <1>6, <1>7, OrderKept

\* The readLoop takes the first frame off the connection, into its hand or not.
LEMMA OrderReadFrame ==
  ASSUME TypeInv, OrderInv, NEW r \in Ends, NEW T, NEW to, ReadFrame(r, T, to),
         UNCHANGED readCh,
         \A e \in Ends : WLNum(e)' = WLNum(e),
         \A e \in Ends : e # r => RLNum(e)' = RLNum(e),
         RLNum(r)' \subseteq {Incoming(r).n}
  PROVE  OrderInv'
<1> DEFINE s == Peer(r)
           n == Incoming(r).n
<1>1. /\ s \in Ends /\ Peer(s) = r
      /\ \A e \in Ends : Peer(e) \in Ends /\ (Peer(e) = s => e = r)
  BY Indices
<1>2. /\ wire[s] \in Seq(Frame) /\ wire[s] # <<>> /\ enq \in [Ends -> Nat]
      /\ wire'[s] = Tail(wire[s]) /\ \A e \in Ends : e # s => wire'[e] = wire[e]
      /\ UNCHANGED <<writeCh, enq, readCh, got>>
  BY <1>1 DEF TypeInv, TypeOK, DataOK, ChanOK, QueueOK, ReadFrame, sendVars, histVars
<1>3. /\ Nums(wire[s]) = {n} \cup Nums(wire'[s])
      /\ Sorted(wire[s]) => Sorted(wire'[s]) /\ Below({n}, Nums(wire'[s]))
  <2>1. /\ Nums(wire[s]) = {Head(wire[s]).n} \cup Nums(Tail(wire[s]))
        /\ Sorted(wire[s]) => /\ Sorted(Tail(wire[s]))
                              /\ Below({Head(wire[s]).n}, Nums(Tail(wire[s])))
    BY <1>2, TailNums
  <2> QED
    BY <1>2, <2>1 DEF Incoming
<1> HIDE DEF n
<1>4. SendInv(s) /\ SendInv(s)' /\ Coming(s)' \subseteq Coming(s) /\ n \in Coming(s)
      /\ Below({n}, Coming(s)')
  <2>1. SendInv(s)
    BY <1>1 DEF OrderInv
  <2>2. Coming(s)' \subseteq Coming(s) /\ n \in Coming(s)
    BY <1>1, <1>2, <1>3 DEF Coming
  <2>3. SendInv(s)'
    BY <1>1, <1>2, <1>3, <2>1, <2>2 DEF SendInv, Below
  <2>4. Below({n}, Coming(s)')
    BY <1>1, <1>2, <1>3, <2>1 DEF SendInv, Coming, Below
  <2> QED
    BY <2>1, <2>2, <2>3, <2>4
<1>5. ASSUME NEW e \in Ends, e # s
      PROVE  SendInv(e)' /\ Coming(e)' = Coming(e)
  <2>1. UNCHANGED <<writeCh[e], wire[e], enq[e]>> /\ WLNum(e)' = WLNum(e) /\ Coming(e)' = Coming(e)
    BY <1>2, <1>5 DEF Coming
  <2> QED
    BY <2>1 DEF OrderInv, SendInv
<1>6. n \in 1..enq[s] /\ RLNum(r)' \subseteq {n}
  BY <1>4 DEF SendInv, n
<1>7. ASSUME NEW e \in Ends PROVE RecvInv(e)'
  <2>1. CASE e = r
    BY <1>2, <1>4, <1>6, <2>1 DEF RecvInv, Below
  <2>2. CASE e # r
    <3>1. Peer(e) # s /\ Peer(e) \in Ends
      BY <1>1, <2>2
    <3> QED
      BY <1>2, <1>5, <2>2, <3>1 DEF OrderInv, RecvInv
  <2> QED
    BY <2>1, <2>2
<1>8. ASSUME NEW o \in Obj PROVE StreamInv(o)'
  <2>1. o.at \in Ends /\ StreamInv(o)
    BY DEF Obj, OrderInv
  <2>2. CASE o.at = r
    BY <1>2, <1>4, <1>6, <2>1, <2>2 DEF StreamInv, Below
  <2>3. CASE o.at # r
    <3>1. Peer(o.at) # s /\ Peer(o.at) \in Ends
      BY <1>1, <2>1, <2>3
    <3> QED
      BY <1>2, <1>5, <2>1, <2>3, <3>1 DEF StreamInv
  <2> QED
    BY <2>2, <2>3
<1> QED
  BY <1>4, <1>5, <1>7, <1>8 DEF OrderInv

\* The readLoop passes the payload in its hand to a MuxStream, or drops it.
LEMMA OrderDeliver ==
  ASSUME TypeInv, OrderInv, NEW r \in Ends, Deliver(r)
  PROVE  OrderInv'
<1> DEFINE n == hand[RL(r)].n
<1>0. PICK o \in Obj : o = arg[RL(r)]
  BY Indices DEF TypeInv, TypeOK, PcOK, InHand, HandOK, Working, Deliver, Goto
<1>1. /\ o.at = r /\ n \in Nat
      /\ pc \in [Proc -> AppPC \cup ReadPC \cup WritePC] /\ hand \in [Proc -> Frame \cup {NoFrame}]
      /\ readCh[o] \in Seq(Nat) /\ DOMAIN readCh = Obj
  BY <1>0, Indices DEF TypeInv, TypeOK, PcOK, DataOK, ChanOK, QueueOK, InHand, HandOK, Working, Frame, Deliver, Goto
<1>2. RLNum(r) = {n} /\ RLNum(r)' = {}
  BY <1>1, Indices DEF Deliver, Goto, RLNum
<1>3. /\ \A e \in Ends : e # r => RLNum(e)' = RLNum(e)
      /\ \A e \in Ends : WLNum(e)' = WLNum(e)
      /\ UNCHANGED <<writeCh, enq, wire, got>>
  BY <1>1, Indices DEF Deliver, Goto, WLNum, RLNum, sendVars, histVars
<1>4. /\ readCh'[o] \in {readCh[o], Append(readCh[o], n)}
      /\ \A x \in Obj : x # o => readCh'[x] = readCh[x]
  BY <1>0, <1>1 DEF Deliver
<1> HIDE DEF n
<1>5. /\ Elems(Append(readCh[o], n)) = Elems(readCh[o]) \cup {n}
      /\ Increasing(readCh[o]) /\ Below(Elems(readCh[o]), {n}) => Increasing(Append(readCh[o], n))
  BY <1>1, AppendElems
<1>6. \A e \in Ends : UNCHANGED <<writeCh[e], wire[e], enq[e]>> /\ Coming(e)' = Coming(e)
  BY <1>3 DEF Coming
<1>7. \A e \in Ends : SendInv(e)' /\ RecvInv(e)'
  <2> TAKE e \in Ends
  <2>1. SendInv(e) /\ RecvInv(e) /\ Peer(e) \in Ends
    BY Indices DEF OrderInv
  <2>2. SendInv(e)'
    BY <1>3, <1>6, <2>1 DEF SendInv
  <2>3. RLNum(e)' \subseteq RLNum(e)
    BY <1>2, <1>3
  <2>4. RecvInv(e)'
    BY <1>3, <1>6, <2>1, <2>3 DEF RecvInv, Below
  <2> QED
    BY <2>2, <2>4
<1>8. StreamInv(o) /\ RecvInv(r)
  BY <1>1 DEF OrderInv
<1>9. StreamInv(o)'
  <2>1. Below(Elems(got[o]) \cup Elems(readCh[o]), {n} \cup Coming(Peer(r)))
    BY <1>1, <1>2, <1>8 DEF StreamInv
  <2>2. n \in 1..enq[Peer(r)] /\ Below({n}, Coming(Peer(r)))
    BY <1>2, <1>8 DEF RecvInv
  <2>3. Increasing(readCh'[o]) /\ Elems(readCh'[o]) \subseteq Elems(readCh[o]) \cup {n}
    BY <1>4, <1>5, <1>8, <2>1 DEF StreamInv, Below
  <2> QED
    <3>1. Peer(r) \in Ends /\ Coming(Peer(r))' = Coming(Peer(r)) /\ enq'[Peer(r)] = enq[Peer(r)]
      BY <1>6, Indices
    <3>2. Elems(readCh'[o]) \subseteq 1..enq[Peer(r)]
      BY <1>1, <1>8, <2>2, <2>3 DEF StreamInv
    <3>3. Below(Elems(got[o]), Elems(readCh'[o]))
      BY <1>8, <2>1, <2>3 DEF StreamInv, Below
    <3>4. Below(Elems(got[o]) \cup Elems(readCh'[o]), Coming(Peer(r)))
      BY <2>1, <2>2, <2>3 DEF Below
    <3> QED
      BY <1>1, <1>2, <1>3, <1>8, <2>3, <3>1, <3>2, <3>3, <3>4 DEF StreamInv
<1>10. ASSUME NEW x \in Obj, x # o PROVE StreamInv(x)'
  <2>1. x.at \in Ends /\ StreamInv(x) /\ RLNum(x.at)' \subseteq RLNum(x.at)
    BY <1>2, <1>3 DEF Obj, OrderInv
  <2>2. Peer(x.at) \in Ends
    BY <2>1, Indices
  <2> QED
    BY <1>3, <1>4, <1>6, <1>10, <2>1, <2>2 DEF StreamInv, Below
<1> QED
  BY <1>7, <1>9, <1>10 DEF OrderInv

\* The application takes the first payload of a readCh.
LEMMA OrderRead ==
  ASSUME TypeInv, OrderInv, NEW o \in Obj, readCh[o] # <<>>,
         readCh' = [readCh EXCEPT ![o] = Tail(@)],
         got' = [got EXCEPT ![o] = Append(@, Head(readCh[o]))],
         UNCHANGED <<writeCh, enq, wire>>,
         \A e \in Ends : WLNum(e)' = WLNum(e) /\ RLNum(e)' = RLNum(e)
  PROVE  OrderInv'
<1> DEFINE n == Head(readCh[o])
<1>1. /\ got[o] \in Seq(Nat) /\ readCh[o] \in Seq(Nat) /\ n \in Nat
      /\ got'[o] = Append(got[o], n) /\ readCh'[o] = Tail(readCh[o])
      /\ \A x \in Obj : x # o => got'[x] = got[x] /\ readCh'[x] = readCh[x]
  BY HeadTailProperties DEF TypeInv, TypeOK, DataOK, ChanOK, QueueOK
<1>2. /\ Elems(readCh[o]) = {n} \cup Elems(Tail(readCh[o]))
      /\ Increasing(readCh[o]) => /\ Increasing(Tail(readCh[o]))
                                  /\ Below({n}, Elems(Tail(readCh[o])))
  BY <1>1, TailElems
<1> HIDE DEF n
<1>3. /\ Elems(Append(got[o], n)) = Elems(got[o]) \cup {n}
      /\ Increasing(got[o]) /\ Below(Elems(got[o]), {n}) => Increasing(Append(got[o], n))
  BY <1>1, AppendElems
<1>4. \A e \in Ends : UNCHANGED <<writeCh[e], wire[e], enq[e]>> /\ Coming(e)' = Coming(e)
  BY DEF Coming
<1>5. ASSUME NEW e \in Ends PROVE Peer(e) \in Ends /\ SendInv(e)' /\ RecvInv(e)'
  <2>1. Peer(e) \in Ends
    BY Indices
  <2>2. SendInv(e)'
    BY <1>4 DEF OrderInv, SendInv
  <2>3. RecvInv(e)'
    BY <1>4, <2>1 DEF OrderInv, RecvInv
  <2> QED
    BY <2>1, <2>2, <2>3
<1>6. StreamInv(o)'
  <2>1. StreamInv(o) /\ o.at \in Ends
    BY DEF OrderInv, Obj
  <2>2. Elems(got'[o]) = Elems(got[o]) \cup {n} /\ Elems(readCh[o]) = {n} \cup Elems(readCh'[o])
    BY <1>1, <1>2, <1>3
  <2>3. Increasing(got'[o]) /\ Increasing(readCh'[o]) /\ Below(Elems(got'[o]), Elems(readCh'[o]))
    BY <1>1, <1>2, <1>3, <2>1, <2>2 DEF StreamInv, Below
  <2>4. Elems(got'[o]) \cup Elems(readCh'[o]) = Elems(got[o]) \cup Elems(readCh[o])
    BY <2>2
  <2> QED
    BY <1>4, <1>5, <2>1, <2>3, <2>4 DEF StreamInv
<1>7. ASSUME NEW x \in Obj, x # o PROVE StreamInv(x)'
  <2>1. StreamInv(x) /\ x.at \in Ends
    BY DEF OrderInv, Obj
  <2> QED
    BY <1>1, <1>4, <1>5, <1>7, <2>1 DEF StreamInv
<1> QED
  BY <1>5, <1>6, <1>7 DEF OrderInv

\* Every step preserves OrderInv.
LEMMA OrderStep == TypeInv /\ OrderInv /\ [Next]_vars => OrderInv'
<1> SUFFICES ASSUME TypeInv, OrderInv, [Next]_vars PROVE OrderInv'
  OBVIOUS
<1> USE Indices DEF sendVars, recvVars, histVars
<1>0. PcOK /\ DataOK /\ InHand
  BY DEF TypeInv, TypeOK
<1>1. ASSUME NEW p \in AppProc, AppNext(p) \/ InCall(p) PROVE OrderInv'
  <2>m. ASSUME NEW to, pc' = [pc EXCEPT ![p] = to], UNCHANGED hand
        PROVE  \A e \in Ends : WLNum(e)' = WLNum(e) /\ RLNum(e)' = RLNum(e)
    BY <1>0, <2>m DEF WLNum, RLNum, PcOK
  <2>o. pc[p] \in {"openSend", "writeSend", "closeSend"} => arg[p].id \in Ids
    BY <1>0 DEF InHand, HandOK, Working, Obj
  <2>1. CASE OpenSend(p)
    BY <2>1, <2>m, <2>o, OrderSend DEF OpenSend, Goto
  <2>2. CASE WriteSend(p)
    BY <2>2, <2>m, <2>o, OrderSend DEF WriteSend, Goto
  <2>3. CASE CloseSend(p)
    BY <2>3, <2>m, <2>o, OrderSend DEF CloseSend, Goto
  <2>4. ASSUME NEW o \in Obj, Read(p, o) PROVE OrderInv'
    BY <2>4, <2>m, OrderRead DEF Read, Call
  <2>5. CASE OpenStream(p) \/ AcceptStream(p) \/ MuxClose(p)
             \/ \E o \in Obj : Write(p, o) \/ Close(p, o) \/ SetDeadline(p, o)
    <3>1. UNCHANGED hand /\ \E to : pc' = [pc EXCEPT ![p] = to]
      BY <2>5, Zenon
         DEF OpenStream, AcceptStream, MuxClose, BeginClose, Write, Close, SetDeadline, Call, Goto
    <3>2. UNCHANGED <<writeCh, enq, wire, readCh, got>>
      BY <2>5 DEF OpenStream, AcceptStream, MuxClose, Write, Close, SetDeadline
    <3>3. \A e \in Ends : WLNum(e)' = WLNum(e) /\ RLNum(e)' = RLNum(e)
      BY <3>1, <2>m
    <3> QED
      BY <3>2, <3>3, OrderQuiet
  <2>6. CASE OpenStore(p) \/ AcceptRecv(p) \/ AcceptStore(p) \/ CloseDrop(p)
    BY <2>6, <2>m, OrderQuiet DEF OpenStore, AcceptRecv, AcceptStore, CloseDrop, Goto
  <2> QED
    BY <1>1, <2>1, <2>2, <2>3, <2>4, <2>5, <2>6 DEF AppNext, InCall
<1>2. ASSUME NEW p \in Proc, CloseNext(p) PROVE OrderInv'
  <2>1. UNCHANGED <<writeCh, enq, wire, readCh, got>>
    BY <1>2 DEF CloseNext, MuxCloseRange, MuxCloseFinish
  <2>2. \A e \in Ends : WLNum(e)' \subseteq WLNum(e) /\ RLNum(e)' \subseteq RLNum(e)
    <3>1. PICK to \in {"closeFinish", "done", "idle"} : pc' = [pc EXCEPT ![p] = to]
      BY <1>2 DEF CloseNext, MuxCloseRange, MuxCloseFinish, Return, Goto
    <3>2. UNCHANGED hand
      BY <1>2 DEF CloseNext, MuxCloseRange, MuxCloseFinish
    <3>3. \A e \in Ends : /\ pc'[WL(e)] = "write" => pc[WL(e)] = "write"
                          /\ pc'[RL(e)] = "deliver" => pc[RL(e)] = "deliver"
      BY <1>0, <3>1 DEF PcOK
    <3> QED
      BY <3>2, <3>3 DEF WLNum, RLNum
  <2> QED
    BY <2>1, <2>2, OrderQuiet
<1>3. ASSUME NEW e \in Ends, ReadNext(e) PROVE OrderInv'
  <2>m. ASSUME NEW to, pc' = [pc EXCEPT ![RL(e)] = to],
               hand' = hand \/ \E f : hand' = [hand EXCEPT ![RL(e)] = f]
        PROVE  /\ \A x \in Ends : WLNum(x)' = WLNum(x)
               /\ \A x \in Ends : x # e => RLNum(x)' = RLNum(x)
               /\ to # "deliver" => RLNum(e)' = {}
    BY <1>0, <2>m, ZenonT(30) DEF WLNum, RLNum, PcOK, DataOK
  <2>1. ASSUME NEW o \in Obj, ReadData(e, o) PROVE OrderInv'
    <3>1. RLNum(e)' = {Incoming(e).n}
      BY <1>0, <2>1 DEF ReadData, ReadFrame, Goto, RLNum, PcOK, DataOK
    <3> QED
      BY <2>1, <2>m, <3>1, OrderReadFrame DEF ReadData, ReadFrame, Goto
  <2>2. CASE Deliver(e)
    BY <2>2, OrderDeliver
  <2>f. ASSUME NEW T, NEW to, to # "deliver", ReadFrame(e, T, to), UNCHANGED hand
        PROVE  OrderInv'
    <3>1. pc' = [pc EXCEPT ![RL(e)] = to] /\ UNCHANGED readCh
      BY <2>f DEF ReadFrame, Goto
    <3>2. /\ \A x \in Ends : WLNum(x)' = WLNum(x)
          /\ \A x \in Ends : x # e => RLNum(x)' = RLNum(x)
          /\ RLNum(e)' = {}
      BY <2>f, <2>m, <3>1
    <3> QED
      BY <2>f, <3>1, <3>2, OrderReadFrame
  <2>3. CASE ReadUnknown(e)
    BY <2>3, <2>f DEF ReadUnknown
  <2>4. CASE ReadOpen(e)
    BY <2>4, <2>f DEF ReadOpen
  <2>5. CASE ReadClose(e)
    BY <2>5, <2>f DEF ReadClose
  <2>6. CASE ReadKeepalive(e)
    BY <2>6, <2>f DEF ReadKeepalive
  <2>7. CASE SendPong(e)
    <3>1. \A x \in Ends : WLNum(x)' = WLNum(x) /\ RLNum(x)' = RLNum(x)
      BY <1>0, <2>7 DEF SendPong, Goto, WLNum, RLNum, PcOK
    <3> QED
      BY <2>7, <3>1, OrderSend DEF SendPong
  <2>8. CASE ReadCheck(e) \/ ReadError(e)
    <3>1. \A x \in Ends : WLNum(x)' = WLNum(x) /\ RLNum(x)' \subseteq RLNum(x)
      BY <1>0, <2>8, ZenonT(30) DEF ReadCheck, ReadError, BeginClose, Return, Goto, WLNum, RLNum, PcOK
    <3> QED
      BY <2>8, <3>1, OrderQuiet DEF ReadCheck, ReadError
  <2> QED
    BY <1>3, <2>1, <2>2, <2>3, <2>4, <2>5, <2>6, <2>7, <2>8 DEF ReadNext
<1>4. ASSUME NEW e \in Ends, WriteNext(e) PROVE OrderInv'
  <2>1. CASE WriteTake(e)
    BY <2>1, OrderTake
  <2>2. CASE WriteFrame(e)
    BY <2>2, OrderWrite
  <2>3. CASE WriteStop(e) \/ WriteError(e)
    <3>1. \A x \in Ends : WLNum(x)' \subseteq WLNum(x) /\ RLNum(x)' \subseteq RLNum(x)
      <4>1. CASE WriteStop(e)
        BY <1>0, <4>1 DEF WriteStop, Goto, WLNum, RLNum, PcOK, DataOK
      <4>2. CASE WriteError(e)
        BY <1>0, <4>2 DEF WriteError, BeginClose, Return, Goto, WLNum, RLNum, PcOK, DataOK
      <4> QED
        BY <2>3, <4>1, <4>2
    <3> QED
      BY <2>3, <3>1, OrderQuiet DEF WriteStop, WriteError
  <2> QED
    BY <1>4, <2>1, <2>2, <2>3 DEF WriteNext
<1>5. ASSUME NEW e \in Ends, Ping(e) PROVE OrderInv'
  BY <1>5, OrderSend DEF Ping, WLNum, RLNum
<1>6. CASE ConnBreak \/ UNCHANGED vars
  BY <1>6, OrderQuiet DEF ConnBreak, vars, WLNum, RLNum
<1> QED
  BY <1>1, <1>2, <1>3, <1>4, <1>5, <1>6 DEF Next

\* At the start nothing is on its way.
LEMMA OrderInit == Init => OrderInv
<1> SUFFICES ASSUME Init PROVE OrderInv
  OBVIOUS
<1>0. \A e \in Ends : pc[WL(e)] = "select" /\ pc[RL(e)] = "check"
  BY Indices DEF Init, RL, WL
<1>1. \A e \in Ends : WLNum(e) = {} /\ RLNum(e) = {} /\ Coming(e) = {}
  <2>1. \A e \in Ends : Nums(writeCh[e]) = {} /\ Nums(wire[e]) = {}
    BY DEF Init, Nums
  <2> QED
    BY <1>0, <2>1 DEF WLNum, RLNum, Coming
<1>2. \A e \in Ends : SendInv(e)
  <2>1. \A e \in Ends : Len(writeCh[e]) = 0 /\ Len(wire[e]) = 0 /\ enq[e] = 0
    BY DEF Init
  <2>2. \A e \in Ends : Nums(writeCh[e]) = {} /\ Nums(wire[e]) = {}
    BY <2>1 DEF Nums
  <2>3. \A e \in Ends : Sorted(writeCh[e]) /\ Sorted(wire[e])
    BY <2>1 DEF Sorted
  <2> QED
    BY <1>1, <2>2, <2>3 DEF SendInv, Below
<1>5. \A e \in Ends : RecvInv(e)
  BY <1>1 DEF RecvInv, Below
<1>3. \A o \in Obj : Elems(got[o]) = {} /\ Elems(readCh[o]) = {}
  BY DEF Init, Elems
<1>4. \A o \in Obj : StreamInv(o)
  BY <1>3 DEF Init, StreamInv, Below, Increasing
<1> QED
  BY <1>2, <1>4, <1>5 DEF OrderInv

\* The application reads the payloads of a MuxStream in the order in which the
\* peer's frames entered writeCh, and none of them twice, for any capacity of
\* the channels and whatever is dropped on the way.
THEOREM ReadsInOrder == Spec => []ReadInOrder
<1>1. TypeInv /\ OrderInv => ReadInOrder
  <2> SUFFICES ASSUME TypeInv, OrderInv, NEW o \in Obj PROVE Increasing(got[o] \o readCh[o])
    BY DEF ReadInOrder
  <2>1. got[o] \in Seq(Nat) /\ readCh[o] \in Seq(Nat) /\ StreamInv(o)
    BY DEF TypeInv, TypeOK, DataOK, ChanOK, QueueOK, OrderInv
  <2>2. /\ Len(got[o] \o readCh[o]) = Len(got[o]) + Len(readCh[o])
        /\ Len(got[o]) \in Nat /\ Len(readCh[o]) \in Nat
        /\ \A k \in 1..(Len(got[o]) + Len(readCh[o])) :
             (got[o] \o readCh[o])[k] = IF k <= Len(got[o]) THEN got[o][k]
                                        ELSE readCh[o][k - Len(got[o])]
    BY <2>1, ConcatProperties, LenProperties
  <2> DEFINE a == Len(got[o])
             b == Len(readCh[o])
             q == got[o] \o readCh[o]
  <2>3. /\ a \in Nat /\ b \in Nat /\ Len(q) = a + b
        /\ \A k \in 1..a : q[k] = got[o][k]
        /\ \A k \in (a + 1)..(a + b) : q[k] = readCh[o][k - a]
    <3>1. a \in Nat /\ b \in Nat /\ Len(q) = a + b
          /\ \A k \in 1..(a + b) : q[k] = IF k <= a THEN got[o][k] ELSE readCh[o][k - a]
      BY <2>2
    <3> HIDE DEF a, b, q
    <3> QED
      BY <3>1
  <2>4. /\ \A k \in 1..a : got[o][k] \in Elems(got[o])
        /\ \A k \in 1..b : readCh[o][k] \in Elems(readCh[o])
        /\ \A i, j \in 1..a : i < j => got[o][i] < got[o][j]
        /\ \A i, j \in 1..b : i < j => readCh[o][i] < readCh[o][j]
        /\ Below(Elems(got[o]), Elems(readCh[o]))
    BY <2>1 DEF StreamInv, Increasing, Elems
  <2> HIDE DEF a, b, q
  <2>5. ASSUME NEW i \in 1..(a + b), NEW j \in 1..(a + b), i < j PROVE q[i] < q[j]
    <3>1. CASE j <= a
      BY <2>3, <2>4, <2>5, <3>1
    <3>2. CASE i > a
      <4>1. i - a \in 1..b /\ j - a \in 1..b /\ i - a < j - a
        BY <2>3, <2>5, <3>2
      <4>2. i \in (a + 1)..(a + b) /\ j \in (a + 1)..(a + b)
        BY <2>3, <2>5, <3>2
      <4> QED
        BY <2>3, <2>4, <4>1, <4>2
    <3>3. CASE i <= a /\ j > a
      <4>1. i \in 1..a /\ j \in (a + 1)..(a + b) /\ j - a \in 1..b
        BY <2>3, <2>5, <3>3
      <4> QED
        BY <2>3, <2>4, <4>1 DEF Below
    <3> QED
      BY <2>3, <3>1, <3>2, <3>3
  <2> QED
    BY <2>3, <2>5 DEF Increasing, q
<1> QED
  BY <1>1, TypeInit, TypeStep, OrderInit, OrderStep, PTL DEF Spec
=============================================================================
