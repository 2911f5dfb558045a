-------------------------------- MODULE Batch -------------------------------
(***************************************************************************)
(* BatchWriter (conn/batch.go): the writers, the timer and flushLoop.      *)
(* Write, Flush, Close and a round of flushLoop run under the mutex and    *)
(* are one step each.  Bytes are numbered in the order they are accepted.  *)
(***************************************************************************)
EXTENDS Integers, Sequences, FiniteSetsExt

CONSTANTS
  BufLen,       \* bufferSize, the length of buf
  BufCaps,      \* capacities a recycled buffer may have
  WriteSizes,   \* lengths of data
  BatchBytes    \* bound: bytes written in all

ASSUME BatchAssumption ==
  /\ BufLen \in Nat /\ BufCaps \subseteq Nat /\ WriteSizes \subseteq Nat

VARIABLES
  bw,       \* the BatchWriter: [buf, out, sent, timer, closed, err, failed]
  bwConf,   \* [cap, timed]: capacity of buf, and whether flushInterval > 0
  bwLoop    \* flushLoop: waits for the timer, or has a tick and wants the mutex

BatchVars == <<bw, bwConf, bwLoop>>

BatchInit ==
  /\ bwConf \in [cap: BufCaps, timed: BOOLEAN]
  /\ bw = [buf |-> <<>>, out |-> <<>>, sent |-> 0, timer |-> "off", closed |-> FALSE,
           err |-> FALSE, failed |-> FALSE]
  /\ bwLoop = "wait"

\* dst.Write succeeds, or once fails after a part of the data.
DstWrite(b, data) ==
  {[b EXCEPT !.out = @ \o data, !.err = FALSE]} \cup
  IF b.failed THEN {}
  ELSE {[b EXCEPT !.out = @ \o SubSeq(data, 1, k), !.err = TRUE, !.failed = TRUE] :
          k \in 0..(Len(data) - 1)}

\* The buffer is empty afterwards even if the write failed.
flushKeeps(b) ==  \* mutant of flushLocked: a failed flush keeps the buffer
  IF b.buf = <<>> THEN {[b EXCEPT !.err = FALSE]}
  ELSE {IF d.err THEN d ELSE [d EXCEPT !.buf = <<>>, !.timer = "off"] :
          d \in DstWrite(b, b.buf)}
flushLocked(b) ==
  IF b.buf = <<>> THEN {[b EXCEPT !.err = FALSE]}
  ELSE {[d EXCEPT !.buf = <<>>, !.timer = "off"] : d \in DstWrite(b, b.buf)}

BatchWriteOnce(n) ==  \* mutant of BatchWrite: starts the timer for the first bytes only
  /\ ~bw.closed /\ bw.sent + n <= BatchBytes
  /\ LET b == [bw EXCEPT !.buf = @ \o [i \in 1..n |-> bw.sent + i], !.sent = @ + n] IN
     IF Len(b.buf) >= BufLen \div 2 THEN bw' \in flushLocked(b)
     ELSE bw' = [b EXCEPT !.timer = IF bwConf.timed /\ bw.sent = 0 THEN "on" ELSE @]
  /\ UNCHANGED <<bwConf, bwLoop>>
\* The room is computed from the capacity of buf, the copy ends at its length.
BatchWrite(n) ==
  /\ ~bw.closed /\ bw.sent + n <= BatchBytes
  /\ LET data == [i \in 1..n |-> bw.sent + i]
         before == IF n > bwConf.cap - Len(bw.buf) THEN flushLocked(bw)
                   ELSE {[bw EXCEPT !.err = FALSE]}
         copied(b) == SubSeq(data, 1, Min({n, BufLen - Len(b.buf)}))
         added(b) == [b EXCEPT !.buf = @ \o copied(b), !.sent = @ + n]
     IN  \E b \in before :
           IF b.err THEN bw' = b
           ELSE IF n > bwConf.cap
           THEN \E d \in DstWrite(b, data) : bw' = [d EXCEPT !.sent = @ + n]
           ELSE IF Len(added(b).buf) >= BufLen \div 2 THEN bw' \in flushLocked(added(b))
           ELSE bw' = [added(b) EXCEPT !.timer = IF bwConf.timed THEN "on" ELSE @]
  /\ UNCHANGED <<bwConf, bwLoop>>

BatchFlush == bw' \in flushLocked(bw) /\ UNCHANGED <<bwConf, bwLoop>>

\* The timer expires; flushLoop receives the tick (a Stop or Reset before that
\* takes it back) and then competes for the mutex.
TimerFires ==
  /\ bw.timer = "on" /\ bw' = [bw EXCEPT !.timer = "due"]
  /\ UNCHANGED <<bwConf, bwLoop>>
LoopTick ==
  /\ bwLoop = "wait" /\ bw.timer = "due"
  /\ bw' = [bw EXCEPT !.timer = "off"] /\ bwLoop' = "tick"
  /\ UNCHANGED bwConf
flushLoop ==
  /\ bwLoop = "tick" /\ bwLoop' = "wait"
  /\ IF ~bw.closed /\ bw.buf # <<>> THEN bw' \in flushLocked(bw) ELSE UNCHANGED bw
  /\ UNCHANGED bwConf

BatchCloseForgets ==  \* mutant of BatchClose: the buffer is not written
  /\ bw' = [bw EXCEPT !.closed = TRUE, !.timer = "off", !.err = FALSE]
  /\ UNCHANGED <<bwConf, bwLoop>>
\* Close may be called again: there is nothing left to write then.
BatchClose ==
  /\ bw' \in flushLocked([bw EXCEPT !.closed = TRUE, !.timer = "off"])
  /\ UNCHANGED <<bwConf, bwLoop>>

BatchNext ==
  \/ \E n \in WriteSizes : BatchWrite(n)
  \/ BatchFlush \/ TimerFires \/ LoopTick \/ flushLoop \/ BatchClose

BatchSpec == BatchInit /\ [][BatchNext]_BatchVars

BatchTimer == TimerFires \/ LoopTick \/ flushLoop
-----------------------------------------------------------------------------
Stream == bw.out \o bw.buf

\* What reaches dst and what waits in the buffer are bytes in the order they
\* were written, each at most once, also after a failed write and whether
\* Write, Flush, Close or the timer flushes (batch.go:49-121).
BatchInOrder == \A i \in 1..(Len(Stream) - 1) : Stream[i] < Stream[i + 1]

\* Unless dst fails, no accepted byte is missing, and after Close all of them
\* are written (batch.go:48, 110).  This needs a buffer as large as its capacity:
\* the copy into a larger recycled one loses bytes.
BatchComplete ==
  ~bw.failed /\ bwConf.cap = BufLen => Len(Stream) = bw.sent /\ (bw.closed => bw.buf = <<>>)

\* With a flush interval, buffered bytes do not wait for ever: each Write puts
\* the timer off, and no step loses it (batch.go:74-76, 100-108).
BatchFlushed == bwConf.timed /\ bw.buf # <<>> ~> bw.buf = <<>>
=============================================================================
