-------------------------------- MODULE Queues ------------------------------
(***************************************************************************)
(* The other queues of conn/flow.go.  A DroppableQueue works under its     *)
(* mutex; a BoundedQueue is a channel, on which goroutines may wait.       *)
(***************************************************************************)
EXTENDS Naturals, Sequences

CONSTANTS
  DqSizes,    \* values of maxSize
  DqPushes,   \* bound: calls of DroppableQueue.Push
  Producers,  \* goroutines that push into a BoundedQueue
  BqCap,      \* its capacity
  BqPushes    \* bound: pushes of each producer

\* NewDroppableQueue makes a slice of capacity maxSize, which must not be negative.
ASSUME DroppableAssumption == DqSizes \subseteq Nat

VARIABLES
  dq,   \* [max, items, dropped, pushed, popped, crashed]
  bq    \* [ch, closed, sent, waiting, got, crashed]

QueueVars == <<dq, bq>>

QueueInit ==
  /\ dq \in [max: DqSizes, items: {<<>>}, dropped: {0}, pushed: {0}, popped: {<<>>},
             crashed: {FALSE}]
  /\ bq = [ch |-> <<>>, closed |-> FALSE, sent |-> [p \in Producers |-> 0], waiting |-> <<>>,
           got |-> <<>>, crashed |-> FALSE]

\* The slice of an empty queue has no first item to drop.
DroppableNewest ==  \* mutant of DroppablePush: a full queue drops the new item
  /\ ~dq.crashed /\ dq.pushed < DqPushes
  /\ dq' = [dq EXCEPT !.pushed = @ + 1,
                      !.items = IF Len(@) < dq.max THEN Append(@, dq.pushed + 1) ELSE @,
                      !.dropped = @ + IF Len(dq.items) < dq.max THEN 0 ELSE 1]
  /\ UNCHANGED bq
DroppablePush ==
  /\ ~dq.crashed /\ dq.pushed < DqPushes
  /\ IF Len(dq.items) < dq.max
     THEN dq' = [dq EXCEPT !.items = Append(@, dq.pushed + 1), !.pushed = @ + 1]
     ELSE IF dq.items = <<>> THEN dq' = [dq EXCEPT !.crashed = TRUE]
     ELSE dq' = [dq EXCEPT !.items = Append(Tail(@), dq.pushed + 1), !.pushed = @ + 1,
                           !.dropped = @ + 1]
  /\ UNCHANGED bq
DroppablePop ==
  /\ ~dq.crashed /\ dq.items # <<>>
  /\ dq' = [dq EXCEPT !.items = Tail(@), !.popped = Append(@, Head(dq.items))]
  /\ UNCHANGED bq

\* ch <- item waits while the channel is full; the receive that makes room
\* moves the item of the first goroutine that waits.
Room == Len(bq.ch) < BqCap
CanPush(p) ==
  /\ ~bq.crashed /\ bq.sent[p] < BqPushes
  /\ \A i \in 1..Len(bq.waiting) : bq.waiting[i] # p
Enter(b, p) == [b EXCEPT !.ch = Append(@, <<p, b.sent[p] + 1>>), !.sent[p] = @ + 1]
\* On a closed channel a send panics.
BoundedPush(p) ==
  /\ CanPush(p)
  /\ bq' = IF bq.closed THEN [bq EXCEPT !.crashed = TRUE]
           ELSE IF Room THEN Enter(bq, p)
           ELSE [bq EXCEPT !.waiting = Append(@, p)]
  /\ UNCHANGED dq
\* A TryPush that returns false changes nothing.
TryPush(p) ==
  /\ CanPush(p)
  /\ Room \/ bq.closed
  /\ bq' = IF bq.closed THEN [bq EXCEPT !.crashed = TRUE] ELSE Enter(bq, p)
  /\ UNCHANGED dq
\* Pop and TryPop take an item.  On an empty channel Pop waits and TryPop returns
\* false; on one that is closed too both return nil.  None of these changes it.
BoundedPop ==
  /\ ~bq.crashed /\ bq.ch # <<>>
  /\ LET b == [bq EXCEPT !.ch = Tail(@), !.got = Append(@, Head(bq.ch))] IN
     bq' = IF b.waiting = <<>> THEN b
           ELSE Enter([b EXCEPT !.waiting = Tail(@)], Head(b.waiting))
  /\ UNCHANGED dq
\* A second Close panics, and so do the goroutines that wait to send.
BoundedCloseDrops ==  \* mutant of BoundedClose: empties the channel
  /\ ~bq.crashed /\ bq' = [bq EXCEPT !.closed = TRUE, !.ch = <<>>] /\ UNCHANGED dq
BoundedClose ==
  /\ ~bq.crashed
  /\ bq' = [bq EXCEPT !.closed = TRUE, !.crashed = bq.closed \/ bq.waiting # <<>>]
  /\ UNCHANGED dq

DroppableNext == DroppablePush \/ DroppablePop
BoundedNext ==
  \/ BoundedPop \/ BoundedClose
  \/ \E p \in Producers : BoundedPush(p) \/ TryPush(p)

DroppableSpec == QueueInit /\ [][DroppableNext]_QueueVars
BoundedSpec == QueueInit /\ [][BoundedNext]_QueueVars
-----------------------------------------------------------------------------
\* A DroppableQueue keeps the newest items in order, never more than its size,
\* and its counter accounts for every item it dropped (flow.go:97-123).
DroppableKeepsNewest ==
  LET n == Len(dq.items) IN
  /\ n <= dq.max /\ dq.items = [i \in 1..n |-> dq.pushed - n + i]
  /\ dq.pushed = n + Len(dq.popped) + dq.dropped

\* The items that entered the channel, the oldest first.
Passed == bq.got \o bq.ch
\* A BoundedQueue hands every item of a producer out once and in order, whether
\* Push waited or not and across Close (flow.go:150-183).
BoundedFifo ==
  \A p \in Producers :
    /\ \A i \in DOMAIN Passed : Passed[i][1] = p => Passed[i][2] \in 1..bq.sent[p]
    /\ \A n \in 1..bq.sent[p] : \E i \in DOMAIN Passed : Passed[i] = <<p, n>>
    /\ \A i, j \in DOMAIN Passed :
         i < j /\ Passed[i][1] = p /\ Passed[j][1] = p => Passed[i][2] < Passed[j][2]
=============================================================================
