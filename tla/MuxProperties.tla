---------------------------- MODULE MuxProperties ---------------------------
(***************************************************************************)
(* What the two Mux values of module Mux guarantee to the application, and *)
(* what they do not.                                                       *)
(***************************************************************************)
EXTENDS Mux

AppPC == {"idle", "openStore", "openSend", "accept", "acceptStore", "writeSend",
          "closeSend", "closeDrop", "closeRange", "closeFinish"}
ReadPC == {"check", "read", "deliver", "pong", "panicked", "closeRange",
           "closeFinish", "done"}
WritePC == {"select", "write", "closeRange", "closeFinish", "done"}

PcOK ==
  /\ pc \in [Proc -> AppPC \cup ReadPC \cup WritePC]
  /\ \A p \in AppProc : pc[p] \in AppPC
  /\ \A e \in Ends : pc[RL(e)] \in ReadPC /\ pc[WL(e)] \in WritePC

QueueOK(q, S, cap) == q \in Seq(S) /\ Len(q) <= cap
ChanOK ==
  /\ DOMAIN acceptCh = Ends /\ \A e \in Ends : QueueOK(acceptCh[e], Ids, AcceptCap)
  /\ DOMAIN writeCh = Ends /\ \A e \in Ends : QueueOK(writeCh[e], Frame, WriteCap)
  /\ DOMAIN wire = Ends /\ \A e \in Ends : QueueOK(wire[e], Frame, WireCap)
  /\ DOMAIN readCh = Obj /\ \A o \in Obj : QueueOK(readCh[o], Nat, ReadCap)

DataOK ==
  /\ arg \in [Proc -> Obj \cup {NoObj}] /\ hand \in [Proc -> Frame \cup {NoFrame}]
  /\ nextID \in [Ends -> 0..MaxStreams] /\ enq \in [Ends -> Nat]
  /\ closed \subseteq Ends /\ stopped \subseteq Ends /\ down \subseteq Ends
  /\ streams \subseteq Obj /\ sclosed \subseteq Obj /\ ready \subseteq Obj
  /\ closes \in [Obj -> Nat]
  /\ wrote \in [Obj -> SUBSET Nat] /\ got \in [Obj -> Seq(Nat)]

\* Every variable has its type: goroutines are at control points of their own
\* code, and no channel holds more than its capacity.
TypeOK == PcOK /\ ChanOK /\ DataOK

\* close(readCh) runs at most once on a MuxStream, whichever of the
\* application's Close, a MuxClose frame and Mux.Close come together on it.  A
\* second one would panic in a goroutine that does not recover (mux.go:255-270).
CloseOnce == \A o \in Obj : closes[o] <= 1

\* The application reads from a MuxStream in the order in which the peer's
\* frames entered writeCh, each payload at most once, although payloads pass
\* two loops and are dropped on the way (mux.go:139-147, 235-253).
Increasing(s) == \A i, j \in 1..Len(s) : i < j => s[i] < s[j]
ReadInOrder == \A o \in Obj : Increasing(got[o] \o readCh[o])

\* What arrives on a MuxStream was written to the same stream at the peer: no
\* session sees the data of another one (mux.go:34, 139-147).
Isolated ==
  \A o \in Obj : \A k \in 1..Len(got[o]) : got[o][k] \in wrote[PeerObj(o)]

\* A MuxStream leaves Mux.streams only with its closed flag set: while it is
\* open, frames find it (mux.go:75, 97, 154, 260).
OpenStaysMapped == [][\A o \in streams \ streams' : o \in sclosed']_vars

\* The readLoop closes a MuxStream on a MuxClose frame only if the application
\* closed the other side of that very stream (mux.go:153-156).
RemoteCloseIsReal ==
  [][\A e \in Ends : \A o \in sclosed' \ sclosed :
       o.at = e /\ pc[RL(e)] = "read" /\ pc'[RL(e)] = "check"
         => PeerObj(o) \in sclosed]_vars

\* The streams of a pair of Muxes keep the promise of module StreamPromise, if
\* only one of the ends opens streams.
Payloads == 1..(MaxFrames["dial"] + MaxFrames["listen"])
Promise == INSTANCE StreamPromise WITH End <- Obj, Other <- PeerObj, Payload <- Payloads
KeepsPromise == Promise!Spec

\* The readLoop runs for as long as the Mux is open: one session does not stop
\* the frames of the others (mux.go:120-163).
ReadLoopSurvives == \A e \in Ends : pc[RL(e)] \in {"done", "panicked"} => e \in closed

\* Once a Mux is closed both of its loops end (mux.go:104-118, 128, 133, 169, 176).
LoopsStop ==
  \A e \in Ends : e \in closed ~>
    pc[RL(e)] \in {"done", "panicked"} /\ pc[WL(e)] = "done"

\* Closing one Mux closes the other, unless its readLoop has panicked
\* (mux.go:133-136).
CloseSpreads ==
  \A e \in Ends : e \in closed ~> Peer(e) \in closed \/ pc[RL(Peer(e))] = "panicked"

\* A frame that entered writeCh is dispatched by the peer's readLoop, unless one
\* of the two stops working: a slow application blocks no loop (mux.go:120-180).
InFlight(e, n) ==
  \/ hand[WL(e)].n = n \/ hand[RL(Peer(e))].n = n
  \/ \E k \in 1..Len(writeCh[e]) : writeCh[e][k].n = n
  \/ \E k \in 1..Len(wire[e]) : wire[e][k].n = n
FramesArrive ==
  \A e \in Ends : \A n \in 1..MaxFrames[e] : InFlight(e, n) ~>
    ~InFlight(e, n) \/ closed # {} \/ pc[RL(Peer(e))] = "panicked"

\* Mux.Close closes every stream that the application holds when it walks over
\* Mux.streams, for good, whatever Close calls and frames have changed the map
\* before: none is open and out of the walk's reach (mux.go:104-118).
HeldStreamsClosed ==
  [][/\ sclosed \subseteq sclosed'
     /\ \A p \in Proc : pc[p] = "closeRange" /\ pc'[p] = "closeFinish" =>
          \A o \in ready : o.at = p.end => o \in sclosed']_vars
=============================================================================
