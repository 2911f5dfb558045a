-------------------------------- MODULE Relay -------------------------------
(***************************************************************************)
(* The relays of tunnel/relay.go: DirectRelay and RelayWithMetrics copy    *)
(* bytes, Relay copies packets.  Each runs two pumps, one per direction,   *)
(* that read from one connection and write to the other.  What the two     *)
(* remote peers send is numbered.  (What Relay makes of the bytes of a     *)
(* packet is in module Wire.)                                              *)
(***************************************************************************)
EXTENDS Naturals, Sequences

CONSTANT RelayItems   \* bound: items that each peer sends

Sides == {"client", "server"}
Other(s) == IF s = "client" THEN "server" ELSE "client"

VARIABLES
  rlConf,   \* [mode, net]: the relay, and the transport of its connections
  rlPeer,   \* for each side [sent, ended]: its remote peer
  rlConn,   \* for each side [read, out, open]: its connection, with what was written to it
  rlPump,   \* for each side [pc, buf]: the pump that reads from it
  rlStat    \* [closed, count, errors, failed]: Relay.closed, what was counted, errors,
            \* and whether a peer was lost or a write failed

RelayVars == <<rlConf, rlPeer, rlConn, rlPump, rlStat>>

RelayInit ==
  /\ rlConf \in [mode: {"direct", "metrics", "packet"}, net: {"tcp", "quic"}]
  /\ rlPeer = [s \in Sides |-> [sent |-> 0, ended |-> FALSE]]
  /\ rlConn = [s \in Sides |-> [read |-> 0, out |-> <<>>, open |-> TRUE]]
  /\ rlPump = [s \in Sides |-> [pc |-> "loop", buf |-> <<>>]]
  /\ rlStat = [closed |-> FALSE, count |-> [s \in Sides |-> 0], errors |-> 0, failed |-> FALSE]

At(s, from, to) == rlPump[s].pc = from /\ rlPump' = [rlPump EXCEPT ![s].pc = to]

\* A peer sends, and hangs up or is lost.
PeerSend(s) ==
  /\ ~rlPeer[s].ended /\ rlPeer[s].sent < RelayItems
  /\ rlPeer' = [rlPeer EXCEPT ![s].sent = @ + 1]
  /\ UNCHANGED <<rlConf, rlConn, rlPump, rlStat>>
PeerEnd(s) ==
  /\ ~rlPeer[s].ended /\ rlPeer' = [rlPeer EXCEPT ![s].ended = TRUE]
  /\ UNCHANGED <<rlConf, rlConn, rlPump, rlStat>>

\* The head of the loop; only Relay looks at the flag.
PumpLoop(s) ==
  /\ At(s, "loop", IF rlConf.mode = "packet" /\ rlStat.closed THEN "close" ELSE "read")
  /\ UNCHANGED <<rlConf, rlPeer, rlConn, rlStat>>

\* A read of a closed TCP connection fails; Close of a QUICConn ends only what
\* is sent on it, and its reader goes on.
CanRead(s) == rlConn[s].open \/ rlConf.net = "quic"
PumpRead(s) ==
  /\ rlPump[s].pc = "read" /\ CanRead(s)
  /\ \E n \in (rlConn[s].read + 1)..rlPeer[s].sent :
       /\ rlConf.mode = "packet" => n = rlConn[s].read + 1
       /\ rlConn' = [rlConn EXCEPT ![s].read = n]
       /\ rlPump' = [rlPump EXCEPT ![s] = [pc |-> "write",
                       buf |-> [i \in 1..(n - rlConn[s].read) |-> rlConn[s].read + i]]]
  /\ UNCHANGED <<rlConf, rlPeer, rlStat>>
\* A closed MineConn refuses the next read also over QUIC.
ReadFails(s) == ~rlConn[s].open /\ (rlConf.net # "quic" \/ rlConf.mode = "packet")
\* The end of what the peer sent is no error, a lost peer or a closed connection
\* is one; it is counted unless the relay itself is closing.  A MineConn whose
\* read fails closes itself.
PumpReadEnds(s) ==
  /\ At(s, "read", "close")
  /\ \E lost \in BOOLEAN :
       /\ \/ ~lost /\ ReadFails(s)
          \/ CanRead(s) /\ rlPeer[s].ended /\ (lost \/ rlConn[s].read = rlPeer[s].sent)
       /\ rlStat' = [rlStat EXCEPT !.failed = @ \/ lost,
                        !.errors = IF rlConf.mode = "packet" /\ ~rlStat.closed
                                      /\ (lost \/ ReadFails(s)) THEN @ + 1 ELSE @]
  /\ rlConn' = [rlConn EXCEPT ![s].open = @ /\ rlConf.mode # "packet"]
  /\ UNCHANGED <<rlConf, rlPeer>>

\* A write to a connection that is closed, or whose peer is lost, fails.
PumpWrite(s) ==
  LET to == Other(s) IN
  /\ rlConn[to].open
  /\ rlPump[s].pc = "write"
  /\ rlPump' = [rlPump EXCEPT ![s].pc = IF rlConf.mode = "direct" THEN "loop" ELSE "count"]
  /\ rlConn' = [rlConn EXCEPT ![to].out = @ \o rlPump[s].buf]
  /\ UNCHANGED <<rlConf, rlPeer, rlStat>>
PumpWriteFails(s) ==
  /\ ~rlConn[Other(s)].open \/ rlPeer[Other(s)].ended
  /\ At(s, "write", "close")
  /\ rlStat' = [rlStat EXCEPT !.failed = TRUE,
                              !.errors = IF rlConf.mode = "packet" /\ ~rlStat.closed
                                         THEN @ + 1 ELSE @]
  /\ UNCHANGED <<rlConf, rlPeer, rlConn>>

\* onByte, or the counter of Relay.
PumpCountRead(s) ==  \* mutant of PumpCount: counts what was read so far
  /\ At(s, "count", "loop")
  /\ rlStat' = [rlStat EXCEPT !.count[s] = @ + rlConn[s].read]
  /\ UNCHANGED <<rlConf, rlPeer, rlConn>>
PumpCount(s) ==
  /\ At(s, "count", "loop")
  /\ rlStat' = [rlStat EXCEPT !.count[s] = @ + Len(rlPump[s].buf)]
  /\ UNCHANGED <<rlConf, rlPeer, rlConn>>

\* A pump that ends closes both connections, the one it writes to first.  In
\* Relay the pump that sets the flag closes the client first, the other nothing.
PumpCloseUnset(s) ==  \* mutant of PumpClose: closes a connection before it sets the flag
  /\ \/ rlStat.closed /\ At(s, "close", "done") /\ UNCHANGED rlConn
     \/ ~rlStat.closed /\ At(s, "close", "close2")
        /\ rlConn' = [rlConn EXCEPT !["client"].open = FALSE]
  /\ UNCHANGED <<rlConf, rlPeer, rlStat>>
PumpCloseOne(s) ==  \* mutant of PumpClose: closes one connection
  /\ At(s, "close", "done")
  /\ rlConn' = [rlConn EXCEPT ![s].open = FALSE]
  /\ UNCHANGED <<rlConf, rlPeer, rlStat>>
PumpClose(s) ==
  /\ IF rlConf.mode # "packet"
     THEN /\ At(s, "close", "close2")
          /\ rlConn' = [rlConn EXCEPT ![Other(s)].open = FALSE] /\ UNCHANGED rlStat
     ELSE /\ At(s, "close", IF rlStat.closed THEN "done" ELSE "closeBoth")
          /\ rlStat' = [rlStat EXCEPT !.closed = TRUE] /\ UNCHANGED rlConn
  /\ UNCHANGED <<rlConf, rlPeer>>
closeBoth(s) ==
  /\ At(s, "closeBoth", "close2")
  /\ rlConn' = [rlConn EXCEPT !["client"].open = FALSE]
  /\ UNCHANGED <<rlConf, rlPeer, rlStat>>
PumpCloseSecond(s) ==
  /\ At(s, "close2", "done")
  /\ rlConn' = [rlConn EXCEPT ![IF rlConf.mode = "packet" THEN "server" ELSE s].open = FALSE]
  /\ UNCHANGED <<rlConf, rlPeer, rlStat>>

PumpStep(s) ==
  \/ PumpLoop(s) \/ PumpRead(s) \/ PumpReadEnds(s) \/ PumpWrite(s) \/ PumpWriteFails(s)
  \/ PumpCount(s) \/ PumpClose(s) \/ closeBoth(s) \/ PumpCloseSecond(s)

RelayNext == \E s \in Sides : PeerSend(s) \/ PeerEnd(s) \/ PumpStep(s)

RelaySpec == RelayInit /\ [][RelayNext]_RelayVars
-----------------------------------------------------------------------------
\* What is written to one side is what the other side sent, from the start and
\* in order, however the end of one direction closes the other; and a relay
\* that counts has counted what it wrote (relay.go:55-89, 101-166).
RelayInOrder ==
  \A s \in Sides :
    LET out == rlConn[Other(s)].out IN
    /\ out = [i \in 1..Len(out) |-> i] /\ Len(out) <= rlPeer[s].sent
    /\ rlConf.mode # "direct" /\ rlPump[s].pc # "count" => rlStat.count[s] = Len(out)

\* The shutdown of a Relay counts no error of its own: the pump whose connection
\* it closes finds the flag set, so an error is counted only when a peer was
\* lost or a write failed (relay.go:64-69, 91-97).
QuietShutdown == rlStat.errors > 0 => rlStat.failed

\* When one pump has ended the other one ends and both connections are closed,
\* over TCP whatever the peers do, over QUIC if they hang up (relay.go:91-120,
\* quic.go:40-42).
RelayDone == \A s \in Sides : rlPump[s].pc = "done" /\ ~rlConn[s].open
RelayStops ==
  /\ rlConf.net = "tcp" /\ (\E s \in Sides : rlPump[s].pc = "done") ~> RelayDone
  /\ (\A s \in Sides : rlPeer[s].ended) ~> RelayDone
=============================================================================
