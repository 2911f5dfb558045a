---------------------------- MODULE PriorityQueue ---------------------------
(***************************************************************************)
(* PriorityQueue (conn/priority.go) with goroutines that push, pop, wait   *)
(* in PopBlock and close.  Push, Pop and Close run under the mutex from    *)
(* end to end and are one step each; PopBlock gives the mutex up before it *)
(* waits on the one-token channel notify.  The field cap is left out: the  *)
(* constructor sets it and no code reads it.                               *)
(***************************************************************************)
EXTENDS Naturals, Sequences

CONSTANTS
  Consumers,   \* goroutines that call PopBlock
  Levels,      \* number of levels (3 in MineConn)
  Priorities,  \* the priorities that callers pass
  MaxPushes    \* bound: calls of Push

ASSUME QueueAssumption ==
  /\ Levels \in Nat \ {0} /\ Priorities \subseteq Nat
  /\ MaxPushes \in Nat

Level == 1..Levels

VARIABLES
  pqPc,       \* control point of each consumer
  levels,   \* PriorityQueue.levels: the items, numbered as they are pushed
  notify,   \* tokens in the channel notify, which holds at most one
  closed,   \* PriorityQueue.closed; the channel notify is then closed too
  pqMu,       \* whether a goroutine holds the mutex for ever
  crashed,  \* whether a call has panicked
  pushed,   \* history: how many items have been pushed
  taken     \* history: for each level the items taken, in order

pqVars == <<pqPc, levels, notify, closed, pqMu, crashed, pushed, taken>>

PqInit ==
  /\ pqPc = [c \in Consumers |-> "idle"]
  /\ levels = [l \in Level |-> <<>>]
  /\ notify = 0
  /\ closed = FALSE /\ pqMu = FALSE /\ crashed = FALSE
  /\ pushed = 0 /\ taken = [l \in Level |-> <<>>]

Empty == \A l \in Level : levels[l] = <<>>

\* The level of a priority: those beyond the last level go to the last.
LevelOf(priority) == IF priority >= Levels THEN Levels ELSE priority + 1

\* Push appends and puts a token into notify unless one is there.
Push(priority) ==
  /\ ~pqMu /\ ~crashed /\ ~closed
  /\ pushed < MaxPushes
  /\ pushed' = pushed + 1
  /\ levels' = [levels EXCEPT ![LevelOf(priority)] = Append(@, pushed + 1)]
  /\ notify' = 1
  /\ UNCHANGED <<pqPc, closed, pqMu, crashed, taken>>

\* The first item of the first level that has one.
TakeAny ==  \* mutant of Take: the first item of some level
  \E l \in Level :
    /\ levels[l] # <<>>
    /\ levels' = [levels EXCEPT ![l] = Tail(@)]
    /\ taken' = [taken EXCEPT ![l] = Append(@, Head(levels[l]))]
TakeNewest ==  \* mutant of Take: the last item of the level
  \E l \in Level :
    /\ levels[l] # <<>> /\ \A k \in 1..l-1 : levels[k] = <<>>
    /\ levels' = [levels EXCEPT ![l] = SubSeq(@, 1, Len(@) - 1)]
    /\ taken' = [taken EXCEPT ![l] = Append(@, levels[l][Len(levels[l])])]
Take ==
  \E l \in Level :
    /\ levels[l] # <<>> /\ \A k \in 1..l-1 : levels[k] = <<>>
    /\ levels' = [levels EXCEPT ![l] = Tail(@)]
    /\ taken' = [taken EXCEPT ![l] = Append(@, Head(levels[l]))]

\* A Pop of an empty queue returns an error and changes nothing.
PopDrains ==  \* mutant of Pop: also takes the token
  /\ ~pqMu /\ ~crashed
  /\ Take
  /\ notify' = 0
  /\ UNCHANGED <<pqPc, closed, pqMu, crashed, pushed>>
Pop ==
  /\ ~pqMu /\ ~crashed
  /\ Take
  /\ UNCHANGED <<pqPc, notify, closed, pqMu, crashed, pushed>>

PopBlock(c) ==
  /\ ~crashed
  /\ pqPc[c] = "idle"
  /\ pqPc' = [pqPc EXCEPT ![c] = "look"]
  /\ UNCHANGED <<levels, notify, closed, pqMu, crashed, pushed, taken>>

\* On a closed queue the call of Len locks the mutex that PopBlock holds: the
\* goroutine waits for itself.
PopBlockLook(c) ==
  /\ ~pqMu /\ ~crashed
  /\ pqPc[c] = "look"
  /\ IF closed
     THEN /\ pqPc' = [pqPc EXCEPT ![c] = "stuck"]
          /\ pqMu' = TRUE
          /\ UNCHANGED <<levels, taken>>
     ELSE /\ UNCHANGED pqMu
          /\ \/ Take /\ pqPc' = [pqPc EXCEPT ![c] = "idle"]
             \/ Empty /\ pqPc' = [pqPc EXCEPT ![c] = "recv"] /\ UNCHANGED <<levels, taken>>
  /\ UNCHANGED <<notify, closed, crashed, pushed>>

\* <-notify: a token, or the channel is closed.
PopBlockRecv(c) ==
  /\ ~crashed
  /\ pqPc[c] = "recv"
  /\ notify = 1 \/ closed
  /\ notify' = 0
  /\ pqPc' = [pqPc EXCEPT ![c] = "look"]
  /\ UNCHANGED <<levels, closed, pqMu, crashed, pushed, taken>>

\* A second Close closes the channel again and panics.
Close ==
  /\ ~pqMu /\ ~crashed
  /\ closed' = TRUE
  /\ crashed' = closed
  /\ UNCHANGED <<pqPc, levels, notify, pqMu, pushed, taken>>

InPopBlock(c) == PopBlockLook(c) \/ PopBlockRecv(c)

PqNext ==
  \/ \E priority \in Priorities : Push(priority)
  \/ \E c \in Consumers : PopBlock(c) \/ InPopBlock(c)
  \/ Pop \/ Close

PqSpec == PqInit /\ [][PqNext]_pqVars

\* A goroutine inside PopBlock runs on; it competes for the mutex and for the
\* token, which both are handed over in order of arrival.
PqFairness == \A c \in Consumers : SF_pqVars(InPopBlock(c))
PqFairSpec == PqSpec /\ PqFairness

-----------------------------------------------------------------------------
\* Every variable has its type, and notify holds at most its one token.
PqTypeOK ==
  /\ pqPc \in [Consumers -> {"idle", "look", "recv", "stuck"}]
  /\ levels \in [Level -> Seq(1..pushed)] /\ taken \in [Level -> Seq(1..pushed)]
  /\ notify \in {0, 1} /\ pushed \in 0..MaxPushes
  /\ closed \in BOOLEAN /\ pqMu \in BOOLEAN /\ crashed \in BOOLEAN

\* Each level delivers its items in the order of the pushes, and an item is in
\* exactly one place: no item is lost or taken twice, whichever of Pop and
\* PopBlock takes it and also after Close (priority.go:52-123).
History(l) == taken[l] \o levels[l]
FifoPerLevel ==
  /\ \A l \in Level : \A i, j \in DOMAIN History(l) : i < j => History(l)[i] < History(l)[j]
  /\ \A n \in 1..pushed : \E l \in Level : \E i \in DOMAIN History(l) : History(l)[i] = n

\* What is taken is the oldest item of the most urgent level that has one
\* (priority.go:28).
UrgentFirst ==
  [][\A l \in Level : taken'[l] # taken[l] => \A k \in 1..l-1 : levels[k] = <<>>]_pqVars

\* The consumers never all wait beside an item without a token: Push may drop
\* its token only because one is there, and Pop takes items without taking
\* tokens (priority.go:67-70, 92-98, 121).
AllWait == \A c \in Consumers : pqPc[c] = "recv"
WakeupPending == AllWait /\ ~Empty => notify = 1

\* If all consumers wait and there is an item, one of them gets on, unless Pop
\* takes the items first or a second Close panics (priority.go:103).
SomeoneWakes == AllWait /\ ~Empty ~> ~AllWait \/ Empty \/ crashed

\* A consumer in PopBlock returns once the queue is closed (priority.go:107-110),
\* the panic of a second Close apart.
CloseWakes ==
  \A c \in Consumers : closed /\ pqPc[c] # "idle" ~> pqPc[c] = "idle" \/ crashed
=============================================================================
