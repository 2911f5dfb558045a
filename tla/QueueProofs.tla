---------------------------- MODULE QueueProofs ----------------------------
(***************************************************************************)
(* Proofs about the queues and the buffers of conn: PriorityQueue for any  *)
(* number of levels, consumers, pushes and priorities; DroppableQueue and  *)
(* BoundedQueue for any size and any producers; MineConn's pooled buffers  *)
(* for any writers. For each queue the invariant speaks of what was handed *)
(* out and what is still queued put together; for the buffers, of who      *)
(* holds which one.                                                        *)
(***************************************************************************)
EXTENDS PriorityQueue, Queues, MineConn, SequenceTheorems, FiniteSetTheorems, TLAPS

\* A priority has a level.
LEMMA LevelOfType == \A priority \in Priorities : LevelOf(priority) \in Level
BY QueueAssumption DEF LevelOf, Level

\* What Take does: one level loses its first item, and that item is recorded.
LEMMA TakeType ==
  ASSUME NEW S, levels \in [Level -> Seq(S)], taken \in [Level -> Seq(S)], Take
  PROVE  levels' \in [Level -> Seq(S)] /\ taken' \in [Level -> Seq(S)]
<1>1. PICK l \in Level : /\ levels[l] # <<>>
                         /\ levels' = [levels EXCEPT ![l] = Tail(@)]
                         /\ taken' = [taken EXCEPT ![l] = Append(@, Head(levels[l]))]
  BY DEF Take
<1>2. Tail(levels[l]) \in Seq(S) /\ Head(levels[l]) \in S
  BY <1>1, HeadTailProperties
<1>3. Append(taken[l], Head(levels[l])) \in Seq(S)
  BY <1>2, AppendProperties
<1> QED
  BY <1>1, <1>2, <1>3

\* Every step keeps the state well typed.
LEMMA TypeStep == PqTypeOK /\ [PqNext]_pqVars => PqTypeOK'
<1> SUFFICES ASSUME PqTypeOK, [PqNext]_pqVars PROVE PqTypeOK'
  OBVIOUS
<1>1. ASSUME NEW priority \in Priorities, Push(priority) PROVE PqTypeOK'
  <2> DEFINE l == LevelOf(priority)
  <2>1. l \in Level /\ pushed + 1 \in 1..pushed' /\ pushed' \in 0..MaxPushes
    BY <1>1, LevelOfType, QueueAssumption DEF Push, PqTypeOK
  <2>2. \A s \in Seq(1..pushed) : s \in Seq(1..pushed')
    BY <1>1, SeqDef, QueueAssumption DEF Push, PqTypeOK
  <2>3. taken' \in [Level -> Seq(1..pushed')] /\ levels \in [Level -> Seq(1..pushed')]
    BY <1>1, <2>2 DEF Push, PqTypeOK
  <2>4. Append(levels[l], pushed + 1) \in Seq(1..pushed')
    BY <2>1, <2>3, AppendProperties
  <2>5. levels' \in [Level -> Seq(1..pushed')]
    BY <1>1, <2>1, <2>3, <2>4 DEF Push
  <2> QED
    BY <1>1, <2>1, <2>3, <2>5 DEF Push, PqTypeOK
<1>2. CASE Pop
  BY <1>2, TakeType DEF Pop, PqTypeOK
<1>3. ASSUME NEW c \in Consumers, PopBlock(c) PROVE PqTypeOK'
  BY <1>3 DEF PopBlock, PqTypeOK
<1>4. ASSUME NEW c \in Consumers, PopBlockLook(c) PROVE PqTypeOK'
  <2>1. levels' \in [Level -> Seq(1..pushed)] /\ taken' \in [Level -> Seq(1..pushed)]
    BY <1>4, TakeType DEF PopBlockLook, PqTypeOK
  <2> QED
    BY <1>4, <2>1 DEF PopBlockLook, PqTypeOK
<1>5. ASSUME NEW c \in Consumers, PopBlockRecv(c) PROVE PqTypeOK'
  BY <1>5 DEF PopBlockRecv, PqTypeOK
<1>6. CASE Close
  BY <1>6 DEF Close, PqTypeOK
<1>7. CASE UNCHANGED pqVars
  BY <1>7 DEF pqVars, PqTypeOK
<1> QED
  BY <1>1, <1>2, <1>3, <1>4, <1>5, <1>6, <1>7 DEF PqNext, InPopBlock

\* The initial state is well typed.
LEMMA TypeInit == PqInit => PqTypeOK
<1> SUFFICES ASSUME PqInit PROVE PqTypeOK
  OBVIOUS
<1>1. closed \in BOOLEAN /\ pqMu \in BOOLEAN /\ crashed \in BOOLEAN
  BY Zenon DEF PqInit
<1>2. levels \in [Level -> Seq(1..pushed)] /\ taken \in [Level -> Seq(1..pushed)]
  BY DEF PqInit
<1>3. notify \in {0, 1} /\ pushed \in 0..MaxPushes
  BY QueueAssumption DEF PqInit
<1>4. pqPc \in [Consumers -> {"idle", "look", "recv", "stuck"}]
  BY DEF PqInit
<1> QED
  BY <1>1, <1>2, <1>3, <1>4, Zenon DEF PqTypeOK

\* In every reachable state the variables have their types, and notify holds at
\* most one token.
THEOREM TypeCorrect == PqSpec => []PqTypeOK
  BY TypeInit, TypeStep, PTL DEF PqSpec

\* Take never makes an empty queue look filled.
LEMMA TakeEmpty ==
  ASSUME PqTypeOK, Take
  PROVE  ~Empty
BY DEF Take, Empty

\* Every step keeps WakeupPending: whoever takes the token stops waiting, and a
\* consumer starts to wait only when there is no item.
LEMMA WakeupStep ==
  ASSUME Consumers # {}, PqTypeOK, WakeupPending, [PqNext]_pqVars
  PROVE  WakeupPending'
<1> SUFFICES ASSUME AllWait', ~Empty' PROVE notify' = 1
  BY DEF WakeupPending
<1>1. ASSUME NEW priority \in Priorities, Push(priority) PROVE notify' = 1
  BY <1>1 DEF Push
<1>2. CASE Pop
  BY <1>2, TakeEmpty DEF Pop, WakeupPending, AllWait
<1>3. ASSUME NEW c \in Consumers, PopBlock(c) PROVE FALSE
  BY <1>3 DEF PopBlock, PqTypeOK, AllWait
<1>4. ASSUME NEW c \in Consumers, PopBlockLook(c) PROVE FALSE
  BY <1>4 DEF PopBlockLook, PqTypeOK, AllWait, Empty
<1>5. ASSUME NEW c \in Consumers, PopBlockRecv(c) PROVE FALSE
  BY <1>5 DEF PopBlockRecv, PqTypeOK, AllWait
<1>6. CASE Close \/ UNCHANGED pqVars
  BY <1>6 DEF Close, pqVars, WakeupPending, AllWait, Empty
<1> QED
  BY <1>1, <1>2, <1>3, <1>4, <1>5, <1>6 DEF PqNext, InPopBlock

\* For any positive number of consumers: whenever all of them wait in PopBlock
\* beside an item, the token that ends the wait of one is in notify.
THEOREM NoLostWakeup == Consumers # {} /\ PqSpec => []WakeupPending
<1> SUFFICES ASSUME Consumers # {} PROVE PqSpec => []WakeupPending
  OBVIOUS
<1>1. PqInit => WakeupPending
  BY DEF PqInit, WakeupPending, Empty
<1>2. PqTypeOK /\ WakeupPending /\ [PqNext]_pqVars => WakeupPending'
  BY WakeupStep
<1> QED
  BY <1>1, <1>2, TypeInit, TypeStep, PTL DEF PqSpec

\* Every item taken, by Pop or PopBlock, comes from the most urgent level that
\* has one.
THEOREM MostUrgentFirst == PqSpec => UrgentFirst
<1> DEFINE Urgent == \A l \in Level : taken'[l] # taken[l] => \A k \in 1..l-1 : levels[k] = <<>>
<1>1. PqTypeOK /\ [PqNext]_pqVars => [Urgent]_pqVars
  <2> SUFFICES ASSUME PqTypeOK, PqNext PROVE Urgent
    OBVIOUS
  <2>1. ASSUME Take PROVE Urgent
    BY <2>1 DEF Take, PqTypeOK
  <2>2. CASE UNCHANGED taken
    BY <2>2
  <2>3. Take \/ UNCHANGED taken
    BY DEF PqNext, InPopBlock, Push, Pop, PopBlock, PopBlockLook, PopBlockRecv, Close
  <2> QED
    BY <2>1, <2>2, <2>3
<1> QED
  BY <1>1, TypeCorrect, PTL DEF PqSpec, UrgentFirst

-----------------------------------------------------------------------------
\* An item that moves from the front of a queue to the end of what was taken
\* does not change the two put together.
LEMMA MovesOver ==
  ASSUME NEW S, NEW s \in Seq(S), NEW q \in Seq(S), q # <<>>
  PROVE  Append(s, Head(q)) \o Tail(q) = s \o q
<1> DEFINE a == Append(s, Head(q))
           b == Tail(q)
<1>1. /\ a \in Seq(S) /\ Len(a) = Len(s) + 1 /\ \A i \in 1..Len(s) : a[i] = s[i]
      /\ a[Len(s) + 1] = q[1] /\ Len(s) \in Nat
  BY HeadTailProperties, AppendProperties, LenProperties
<1>2. /\ b \in Seq(S) /\ Len(b) = Len(q) - 1 /\ \A i \in 1..Len(b) : b[i] = q[i + 1]
      /\ Len(q) \in Nat /\ Len(q) > 0
  BY HeadTailProperties, LenProperties, EmptySeq
<1> HIDE DEF a, b
<1>c. /\ a \o b \in Seq(S) /\ Len(a \o b) = Len(a) + Len(b)
      /\ \A i \in 1..(Len(a) + Len(b)) : (a \o b)[i] = IF i <= Len(a) THEN a[i] ELSE b[i - Len(a)]
  BY <1>1, <1>2, ConcatProperties
<1> DEFINE c == a \o b
           d == s \o q
<1> HIDE DEF c, d
<1>3. /\ c \in Seq(S) /\ Len(c) = Len(s) + Len(q)
      /\ \A i \in 1..(Len(s) + Len(q)) :
           c[i] = IF i <= Len(s) + 1 THEN a[i] ELSE b[i - (Len(s) + 1)]
  BY <1>1, <1>2, <1>c DEF c
<1>4. /\ d \in Seq(S) /\ Len(d) = Len(s) + Len(q)
      /\ \A i \in 1..(Len(s) + Len(q)) : d[i] = IF i <= Len(s) THEN s[i] ELSE q[i - Len(s)]
  BY ConcatProperties DEF d
<1>5. \A i \in 1..(Len(s) + Len(q)) : c[i] = d[i]
  <2> TAKE i \in 1..(Len(s) + Len(q))
  <2>1. CASE i <= Len(s)
    BY <1>1, <1>3, <1>4, <2>1
  <2>2. CASE i = Len(s) + 1
    BY <1>1, <1>2, <1>3, <1>4, <2>2
  <2>3. CASE i > Len(s) + 1
    <3> DEFINE j == i - (Len(s) + 1)
    <3>1. j \in 1..Len(b) /\ j + 1 = i - Len(s)
      BY <1>1, <1>2, <2>3
    <3>2. c[i] = b[j] /\ d[i] = q[j + 1]
      BY <1>1, <1>3, <1>4, <2>3, <3>1
    <3> QED
      BY <1>2, <3>1, <3>2
  <2> QED
    BY <1>1, <2>1, <2>2, <2>3
<1>6. c = d
  BY <1>3, <1>4, <1>5, SeqEqual
<1> QED
  BY <1>6 DEF a, b, c, d

\* An item that enters a queue is the last of the two put together.
LEMMA EntersLast ==
  ASSUME NEW S, NEW s \in Seq(S), NEW q \in Seq(S), NEW x \in S
  PROVE  /\ s \o Append(q, x) \in Seq(S) /\ Len(s \o Append(q, x)) = Len(s \o q) + 1
         /\ \A i \in 1..Len(s \o q) : (s \o Append(q, x))[i] = (s \o q)[i]
         /\ (s \o Append(q, x))[Len(s \o q) + 1] = x
         /\ s \o q \in Seq(S) /\ Len(s \o q) \in Nat
<1> DEFINE a == Append(q, x)
<1>1. /\ a \in Seq(S) /\ Len(a) = Len(q) + 1 /\ \A i \in 1..Len(q) : a[i] = q[i]
      /\ a[Len(q) + 1] = x /\ Len(s) \in Nat /\ Len(q) \in Nat
  BY AppendProperties, LenProperties
<1> HIDE DEF a
<1>c. /\ s \o a \in Seq(S) /\ Len(s \o a) = Len(s) + Len(a)
      /\ \A i \in 1..(Len(s) + Len(a)) : (s \o a)[i] = IF i <= Len(s) THEN s[i] ELSE a[i - Len(s)]
  BY <1>1, ConcatProperties
<1> DEFINE c == s \o a
           d == s \o q
<1> HIDE DEF c, d
<1>2. /\ c \in Seq(S) /\ Len(c) = Len(s) + Len(q) + 1
      /\ \A i \in 1..(Len(s) + Len(q) + 1) : c[i] = IF i <= Len(s) THEN s[i] ELSE a[i - Len(s)]
  BY <1>1, <1>c DEF c
<1>3. /\ d \in Seq(S) /\ Len(d) = Len(s) + Len(q)
      /\ \A i \in 1..(Len(s) + Len(q)) : d[i] = IF i <= Len(s) THEN s[i] ELSE q[i - Len(s)]
  BY ConcatProperties DEF d
<1>n. Len(s) \in Nat /\ Len(q) \in Nat
  BY <1>1
<1>4. ASSUME NEW i \in 1..(Len(s) + Len(q)) PROVE c[i] = d[i]
  <2>1. CASE i <= Len(s)
    <3>1. i \in 1..(Len(s) + Len(q) + 1)
      BY <1>n
    <3>2. c[i] = s[i]
      BY <1>2, <2>1, <3>1
    <3>3. d[i] = s[i]
      BY <1>3, <2>1
    <3> QED
      BY <3>2, <3>3
  <2>2. CASE i > Len(s)
    <3> DEFINE j == i - Len(s)
    <3>1. j \in 1..Len(q)
      BY <1>1, <2>2
    <3>2. c[i] = a[j] /\ d[i] = q[j]
      BY <1>1, <1>2, <1>3, <2>2
    <3> QED
      BY <1>1, <3>1, <3>2
  <2> QED
    BY <1>1, <2>1, <2>2
<1>5. c[Len(s) + Len(q) + 1] = x
  <2> DEFINE i == Len(s) + Len(q) + 1
  <2>1. i \in 1..i /\ ~(i <= Len(s)) /\ i - Len(s) = Len(q) + 1
    BY <1>n
  <2>2. c[i] = a[i - Len(s)]
    BY <1>2, <2>1
  <2> QED
    BY <1>1, <2>1, <2>2
<1>6. /\ c \in Seq(S) /\ Len(c) = Len(d) + 1 /\ \A i \in 1..Len(d) : c[i] = d[i]
      /\ c[Len(d) + 1] = x /\ d \in Seq(S) /\ Len(d) \in Nat
  BY <1>1, <1>2, <1>3, <1>4, <1>5
<1> QED
  BY <1>6 DEF a, c, d

\* The histories of the levels do not change when an item is taken.
LEMMA TakeHistory ==
  ASSUME PqTypeOK, Take
  PROVE  \A l \in Level : History(l)' = History(l)
<1>1. PICK l \in Level : /\ levels[l] # <<>>
                         /\ levels' = [levels EXCEPT ![l] = Tail(@)]
                         /\ taken' = [taken EXCEPT ![l] = Append(@, Head(levels[l]))]
  BY DEF Take
<1>2. taken[l] \in Seq(1..pushed) /\ levels[l] \in Seq(1..pushed)
  BY DEF PqTypeOK
<1>3. Append(taken[l], Head(levels[l])) \o Tail(levels[l]) = taken[l] \o levels[l]
  BY <1>1, <1>2, MovesOver
<1>4. levels'[l] = Tail(levels[l]) /\ taken'[l] = Append(taken[l], Head(levels[l]))
  BY <1>1 DEF PqTypeOK
<1>5. \A k \in Level : k # l => levels'[k] = levels[k] /\ taken'[k] = taken[k]
  BY <1>1 DEF PqTypeOK
<1> QED
  BY <1>3, <1>4, <1>5 DEF History

\* FifoPerLevel survives a step that leaves the histories alone.
LEMMA FifoSame ==
  ASSUME FifoPerLevel, UNCHANGED pushed, \A l \in Level : History(l)' = History(l)
  PROVE  FifoPerLevel'
BY DEF FifoPerLevel

\* A push puts the greatest number at the end of one history.
LEMMA FifoPush ==
  ASSUME PqTypeOK, FifoPerLevel, NEW priority \in Priorities, Push(priority)
  PROVE  FifoPerLevel'
<1> DEFINE l == LevelOf(priority)
           n == pushed + 1
<1>1. l \in Level /\ pushed \in Nat
  BY LevelOfType, QueueAssumption DEF PqTypeOK
<1>2. taken[l] \in Seq(1..n) /\ levels[l] \in Seq(1..n) /\ n \in 1..n
  BY <1>1, SeqMonotonic DEF PqTypeOK
<1>3. /\ levels'[l] = Append(levels[l], n) /\ taken' = taken /\ pushed' = n
      /\ \A k \in Level : k # l => levels'[k] = levels[k]
  BY <1>1 DEF Push, PqTypeOK
<1>4. \A k \in Level : k # l => History(k)' = History(k)
  BY <1>3 DEF History
<1> DEFINE h == History(l)
           g == History(l)'
<1>5. /\ g \in Seq(1..n) /\ Len(g) = Len(h) + 1 /\ \A i \in 1..Len(h) : g[i] = h[i]
      /\ g[Len(h) + 1] = n /\ h \in Seq(1..n) /\ Len(h) \in Nat
  <2>1. h = taken[l] \o levels[l] /\ g = taken[l] \o Append(levels[l], n)
    BY <1>3 DEF History
  <2> DEFINE s == taken[l]
             q == levels[l]
  <2>2. s \in Seq(1..n) /\ q \in Seq(1..n) /\ n \in 1..n
    BY <1>2
  <2>3. h = s \o q /\ g = s \o Append(q, n)
    BY <2>1
  <2> HIDE DEF h, g, l, n, s, q
  <2>4. /\ s \o Append(q, n) \in Seq(1..n) /\ Len(s \o Append(q, n)) = Len(s \o q) + 1
        /\ \A i \in 1..Len(s \o q) : (s \o Append(q, n))[i] = (s \o q)[i]
        /\ (s \o Append(q, n))[Len(s \o q) + 1] = n
        /\ s \o q \in Seq(1..n) /\ Len(s \o q) \in Nat
    BY <2>2, EntersLast
  <2> QED
    BY <2>3, <2>4
<1>6. DOMAIN h = 1..Len(h) /\ DOMAIN g = 1..Len(g)
  BY <1>5, LenProperties
<1>7. \A i \in 1..Len(h) : h[i] \in 1..pushed
  <2>1. taken[l] \in Seq(1..pushed) /\ levels[l] \in Seq(1..pushed)
    BY <1>1 DEF PqTypeOK
  <2>2. h \in Seq(1..pushed)
    BY <2>1, ConcatProperties DEF History
  <2> QED
    BY <2>2, ElementOfSeq
<1>8. \A i, j \in DOMAIN h : i < j => h[i] < h[j]
  BY <1>1 DEF FifoPerLevel
<1> HIDE DEF h, g, l
<1>9. ASSUME NEW i \in DOMAIN g, NEW j \in DOMAIN g, i < j PROVE g[i] < g[j]
  <2>1. i \in 1..Len(h) /\ g[i] = h[i] /\ h[i] \in 1..pushed
    BY <1>5, <1>6, <1>7, <1>9
  <2>2. CASE j \in 1..Len(h)
    BY <1>5, <1>6, <1>8, <1>9, <2>1, <2>2
  <2>3. CASE j = Len(h) + 1
    BY <1>1, <1>5, <2>1, <2>3
  <2> QED
    BY <1>5, <1>6, <2>2, <2>3
<1>10. ASSUME NEW m \in 1..n PROVE \E k \in Level : \E i \in DOMAIN History(k)' : History(k)'[i] = m
  <2>1. CASE m = n
    <3>1. Len(h) + 1 \in DOMAIN g /\ g[Len(h) + 1] = m
      BY <1>5, <1>6, <2>1
    <3> QED
      BY <1>1, <3>1 DEF g
  <2>2. CASE m \in 1..pushed
    <3>1. PICK k \in Level : \E i \in DOMAIN History(k) : History(k)[i] = m
      BY <2>2 DEF FifoPerLevel
    <3>2. CASE k # l
      BY <1>4, <3>1, <3>2
    <3>3. CASE k = l
      <4>1. PICK i \in DOMAIN h : h[i] = m
        BY <3>1, <3>3 DEF h
      <4>2. i \in DOMAIN g /\ g[i] = m
        BY <1>5, <1>6, <4>1
      <4> QED
        BY <1>1, <4>2 DEF g
    <3> QED
      BY <3>2, <3>3
  <2> QED
    BY <1>1, <2>1, <2>2
<1> QED
  <2>1. \A k \in Level : \A i, j \in DOMAIN History(k)' : i < j => History(k)'[i] < History(k)'[j]
    <3> SUFFICES ASSUME NEW k \in Level
                 PROVE  \A i, j \in DOMAIN History(k)' : i < j => History(k)'[i] < History(k)'[j]
      OBVIOUS
    <3>1. CASE k = l
      BY <1>9, <3>1 DEF g
    <3>2. CASE k # l
      <4>1. \A i, j \in DOMAIN History(k) : i < j => History(k)[i] < History(k)[j]
        BY DEF FifoPerLevel
      <4> QED
        BY <1>4, <3>2, <4>1
    <3> QED
      BY <3>1, <3>2
  <2> QED
    BY <1>3, <1>10, <2>1 DEF FifoPerLevel

\* Every level hands its items out in the order of the pushes, and no item is
\* lost or handed out twice, for any number of levels, consumers and pushes.
THEOREM FifoLevels == PqSpec => []FifoPerLevel
<1>1. PqInit => FifoPerLevel
  <2> SUFFICES ASSUME PqInit PROVE FifoPerLevel
    OBVIOUS
  <2>1. \A l \in Level : History(l) = <<>>
    BY DEF PqInit, History
  <2> QED
    BY <2>1 DEF PqInit, FifoPerLevel
<1>2. PqTypeOK /\ FifoPerLevel /\ [PqNext]_pqVars => FifoPerLevel'
  <2> SUFFICES ASSUME PqTypeOK, FifoPerLevel, [PqNext]_pqVars PROVE FifoPerLevel'
    OBVIOUS
  <2>1. ASSUME Take, UNCHANGED pushed PROVE FifoPerLevel'
    BY <2>1, TakeHistory, FifoSame
  <2>2. ASSUME UNCHANGED <<levels, taken, pushed>> PROVE FifoPerLevel'
    BY <2>2, FifoSame DEF History
  <2>3. \/ \E priority \in Priorities : Push(priority)
        \/ Take /\ UNCHANGED pushed
        \/ UNCHANGED <<levels, taken, pushed>>
    BY DEF PqNext, InPopBlock, Pop, PopBlock, PopBlockLook, PopBlockRecv, Close, pqVars
  <2> QED
    BY <2>1, <2>2, <2>3, FifoPush
<1> QED
  BY <1>1, <1>2, TypeInit, TypeStep, PTL DEF PqSpec

-----------------------------------------------------------------------------
\* s holds the last Len(s) of the numbers 1 to m, in order.
Newest(s, m) ==
  /\ s \in Seq(Nat) /\ Len(s) <= m
  /\ \A i \in 1..Len(s) : s[i] = m - Len(s) + i

DqType ==
  dq \in [max: Nat, items: Seq(Nat), dropped: Nat, pushed: Nat, popped: Seq(Nat), crashed: BOOLEAN]
DqInv ==
  /\ DqType
  /\ Newest(dq.items, dq.pushed)
  /\ Len(dq.items) <= dq.max
  /\ dq.pushed = Len(dq.items) + Len(dq.popped) + dq.dropped

\* A push adds the newest item.
LEMMA NewestAppend ==
  ASSUME NEW s, NEW m \in Nat, Newest(s, m)
  PROVE  /\ Newest(Append(s, m + 1), m + 1) /\ Len(Append(s, m + 1)) = Len(s) + 1
         /\ Append(s, m + 1) \in Seq(Nat)
<1> DEFINE t == Append(s, m + 1)
<1>0. s \in Seq(Nat) /\ Len(s) \in Nat /\ m + 1 \in Nat
  BY LenProperties DEF Newest
<1>1. /\ t \in Seq(Nat) /\ Len(t) = Len(s) + 1 /\ \A i \in 1..Len(s) : t[i] = s[i]
      /\ t[Len(s) + 1] = m + 1
  BY <1>0, AppendProperties
<1> HIDE DEF t
<1>2. \A i \in 1..Len(t) : t[i] = (m + 1) - Len(t) + i
  <2> TAKE i \in 1..Len(t)
  <2>1. CASE i \in 1..Len(s)
    <3>1. t[i] = m - Len(s) + i
      BY <1>1, <2>1 DEF Newest
    <3> QED
      BY <1>0, <1>1, <3>1
  <2>2. CASE i = Len(s) + 1
    <3>1. t[i] = m + 1
      BY <1>1, <2>2
    <3> QED
      BY <1>0, <1>1, <2>2, <3>1
  <2> QED
    BY <1>0, <1>1, <2>1, <2>2
<1>3. Len(s) <= m
  BY DEF Newest
<1>4. Newest(t, m + 1)
  BY <1>0, <1>1, <1>2, <1>3 DEF Newest
<1> QED
  BY <1>1, <1>4 DEF t

\* Without its first item a queue still holds the newest ones.
LEMMA NewestTail ==
  ASSUME NEW s, NEW m \in Nat, Newest(s, m), s # <<>>
  PROVE  Newest(Tail(s), m) /\ Len(Tail(s)) + 1 = Len(s) /\ Head(s) \in Nat
<1> DEFINE t == Tail(s)
<1>0. s \in Seq(Nat) /\ Len(s) \in Nat /\ Len(s) > 0
  BY LenProperties, EmptySeq DEF Newest
<1>1. /\ t \in Seq(Nat) /\ Len(t) = Len(s) - 1 /\ \A i \in 1..Len(t) : t[i] = s[i + 1]
      /\ Head(s) \in Nat
  BY <1>0, HeadTailProperties
<1> HIDE DEF t
<1>2. \A i \in 1..Len(t) : i + 1 \in 1..Len(s)
  BY <1>0, <1>1
<1>3. \A i \in 1..Len(t) : t[i] = m - Len(t) + i
  BY <1>0, <1>1, <1>2 DEF Newest
<1> QED
  BY <1>0, <1>1, <1>3 DEF Newest, t

\* A push keeps the newest items, dropping the oldest of a full queue; a pop takes
\* the oldest.
LEMMA DqStep == DqInv /\ [DroppableNext]_QueueVars => DqInv'
<1> SUFFICES ASSUME DqInv, [DroppableNext]_QueueVars PROVE DqInv'
  OBVIOUS
<1> DEFINE s == dq.items
           m == dq.pushed
           k == Len(s)
           l == Len(dq.popped)
<1>0. s \in Seq(Nat) /\ m \in Nat /\ dq.popped \in Seq(Nat) /\ Newest(s, m)
  BY DEF DqInv, DqType
<1>n. /\ k \in Nat /\ l \in Nat /\ dq.max \in Nat /\ m \in Nat /\ dq.dropped \in Nat
      /\ k <= dq.max /\ m = k + l + dq.dropped
  BY <1>0, LenProperties DEF DqInv, DqType
<1>m. m + 1 \in Nat /\ dq.dropped + 1 \in Nat
  <2>1. m \in Nat /\ dq.dropped \in Nat
    BY <1>n
  <2> QED
    BY <2>1
<1>1. CASE DroppablePush /\ Len(s) < dq.max
  <2>1. dq' = [dq EXCEPT !.items = Append(@, dq.pushed + 1), !.pushed = @ + 1]
    BY <1>1 DEF DroppablePush
  <2>2. /\ Newest(Append(s, m + 1), m + 1) /\ Len(Append(s, m + 1)) = Len(s) + 1
        /\ Append(s, m + 1) \in Seq(Nat)
    BY <1>0, NewestAppend
  <2>3. m + 1 \in Nat
    BY <1>m
  <2>4. /\ DqType' /\ dq'.items = Append(s, m + 1) /\ dq'.pushed = m + 1
        /\ dq'.max = dq.max /\ dq'.dropped = dq.dropped /\ dq'.popped = dq.popped
    BY <2>1, <2>2, <2>3 DEF DqInv, DqType
  <2> HIDE DEF s, m, k, l
  <2>5. Newest(dq'.items, dq'.pushed) /\ Len(dq'.items) = k + 1 /\ Len(dq'.popped) = l
    BY <2>2, <2>4 DEF k, l
  <2>a. k < dq.max
    BY <1>1 DEF k
  <2>6. k + 1 <= dq.max /\ m + 1 = (k + 1) + l + dq.dropped
    BY <1>n, <2>a
  <2> QED
    BY <2>4, <2>5, <2>6 DEF DqInv
<1>2. CASE DroppablePush /\ ~(Len(s) < dq.max) /\ s = <<>>
  <2>1. dq' = [dq EXCEPT !.crashed = TRUE]
    BY <1>2 DEF DroppablePush
  <2> QED
    BY <2>1 DEF DqInv, DqType
<1>3. CASE DroppablePush /\ ~(Len(s) < dq.max) /\ s # <<>>
  <2>1. dq' = [dq EXCEPT !.items = Append(Tail(@), dq.pushed + 1), !.pushed = @ + 1,
                         !.dropped = @ + 1]
    BY <1>3 DEF DroppablePush
  <2> DEFINE t == Tail(s)
  <2>2. Newest(t, m) /\ Len(t) + 1 = Len(s)
    BY <1>0, <1>3, NewestTail
  <2> HIDE DEF t
  <2>3. /\ Newest(Append(t, m + 1), m + 1) /\ Len(Append(t, m + 1)) = Len(t) + 1
        /\ Append(t, m + 1) \in Seq(Nat)
    BY <1>0, <2>2, NewestAppend
  <2>4. m + 1 \in Nat /\ dq.dropped + 1 \in Nat
    BY <1>m
  <2>5. /\ DqType' /\ dq'.items = Append(t, m + 1) /\ dq'.pushed = m + 1
        /\ dq'.max = dq.max /\ dq'.dropped = dq.dropped + 1 /\ dq'.popped = dq.popped
    BY <2>1, <2>3, <2>4 DEF DqInv, DqType, t
  <2> HIDE DEF s, m, k, l
  <2>6. Newest(dq'.items, dq'.pushed) /\ Len(dq'.items) = k /\ Len(dq'.popped) = l
    BY <2>2, <2>3, <2>5 DEF k, l
  <2>7. k <= dq.max /\ m + 1 = k + l + (dq.dropped + 1)
    BY <1>n
  <2> QED
    BY <2>5, <2>6, <2>7 DEF DqInv
<1>4. CASE DroppablePop
  <2>1. s # <<>> /\ dq' = [dq EXCEPT !.items = Tail(@), !.popped = Append(@, Head(dq.items))]
    BY <1>4 DEF DroppablePop
  <2>2. Newest(Tail(s), m) /\ Len(Tail(s)) + 1 = Len(s) /\ Head(s) \in Nat
    BY <1>0, <2>1, NewestTail
  <2>3. /\ Append(dq.popped, Head(s)) \in Seq(Nat)
        /\ Len(Append(dq.popped, Head(s))) = Len(dq.popped) + 1
    BY <1>0, <2>2, AppendProperties
  <2>4. Tail(s) \in Seq(Nat)
    BY <2>2 DEF Newest
  <2>5. /\ DqType' /\ dq'.items = Tail(s) /\ dq'.pushed = m /\ dq'.max = dq.max
        /\ dq'.dropped = dq.dropped /\ dq'.popped = Append(dq.popped, Head(s))
    BY <2>1, <2>3, <2>4 DEF DqInv, DqType
  <2>6. Len(Tail(s)) \in Nat
    BY <2>4, LenProperties
  <2> HIDE DEF s, m, k, l
  <2> DEFINE h == Len(Tail(s))
  <2> HIDE DEF h
  <2>7. Newest(dq'.items, dq'.pushed) /\ Len(dq'.items) = h /\ Len(dq'.popped) = l + 1
    BY <2>2, <2>3, <2>5 DEF h, l
  <2>a. h \in Nat /\ h + 1 = k
    BY <2>2, <2>6 DEF h, k
  <2>8. h <= dq.max /\ m = h + (l + 1) + dq.dropped
    BY <1>n, <2>a
  <2> QED
    BY <2>5, <2>7, <2>8 DEF DqInv
<1>5. CASE UNCHANGED QueueVars
  BY <1>5 DEF QueueVars, DqInv, DqType
<1> QED
  BY <1>1, <1>2, <1>3, <1>4, <1>5 DEF DroppableNext

\* A DroppableQueue of any size keeps the newest items in order, and accounts for
\* every item that was pushed.
THEOREM KeepsNewest == DroppableSpec => []DroppableKeepsNewest
<1>1. QueueInit => DqInv
  <2> SUFFICES ASSUME QueueInit PROVE DqInv
    OBVIOUS
  <2>1. PICK n \in DqSizes : dq = [max |-> n, items |-> <<>>, dropped |-> 0, pushed |-> 0,
                                  popped |-> <<>>, crashed |-> FALSE]
    BY DEF QueueInit
  <2>2. n \in Nat /\ <<>> \in Seq(Nat) /\ Len(<<>>) = 0
    BY DroppableAssumption
  <2> QED
    BY <2>1, <2>2 DEF DqInv, DqType, Newest
<1>2. DqInv => DroppableKeepsNewest
  <2> SUFFICES ASSUME DqInv PROVE DroppableKeepsNewest
    OBVIOUS
  <2> DEFINE n == Len(dq.items)
  <2>1. dq.items \in Seq(Nat) /\ n \in Nat
    BY LenProperties DEF DqInv, DqType
  <2>2. dq.items = [i \in 1..n |-> dq.items[i]]
    BY <2>1, LenProperties
  <2>3. dq.items = [i \in 1..n |-> dq.pushed - n + i]
    BY <2>2 DEF DqInv, Newest
  <2> QED
    BY <2>3 DEF DqInv, DroppableKeepsNewest
<1> QED
  BY <1>1, <1>2, DqStep, PTL DEF DroppableSpec

-----------------------------------------------------------------------------
Item == Producers \X Nat
BqRecord ==
  [ch: Seq(Item), closed: BOOLEAN, sent: [Producers -> Nat], waiting: Seq(Producers),
   got: Seq(Item), crashed: BOOLEAN]
\* s holds the items 1 to sent[p] of every producer p, in order.
Numbered(s, sent) ==
  \A p \in Producers :
    /\ \A i \in DOMAIN s : s[i][1] = p => s[i][2] \in 1..sent[p]
    /\ \A n \in 1..sent[p] : \E i \in DOMAIN s : s[i] = <<p, n>>
    /\ \A i, j \in DOMAIN s : i < j /\ s[i][1] = p /\ s[j][1] = p => s[i][2] < s[j][2]
BqInv == bq \in BqRecord /\ Numbered(bq.got \o bq.ch, bq.sent)

\* The next item of a producer, at the end, keeps the items numbered.
LEMMA NumberedMore ==
  ASSUME NEW s \in Seq(Item), NEW sent \in [Producers -> Nat], NEW q \in Producers,
         NEW t \in Seq(Item), Len(t) = Len(s) + 1, \A i \in 1..Len(s) : t[i] = s[i],
         t[Len(s) + 1] = <<q, sent[q] + 1>>, Numbered(s, sent)
  PROVE  Numbered(t, [sent EXCEPT ![q] = @ + 1])
<1> DEFINE m == Len(s)
           more == [sent EXCEPT ![q] = @ + 1]
<1>0. m \in Nat /\ DOMAIN s = 1..m /\ DOMAIN t = 1..(m + 1)
  BY LenProperties
<1>1. \A i \in 1..(m + 1) : i \in 1..m \/ i = m + 1
  BY <1>0
<1>3. \A p \in Producers : /\ sent[p] \in Nat
                           /\ more[p] = IF p = q THEN sent[q] + 1 ELSE sent[p]
  OBVIOUS
<1>4. t[m + 1][1] = q /\ t[m + 1][2] = sent[q] + 1 /\ t[m + 1] = <<q, sent[q] + 1>>
  OBVIOUS
<1>5. \A i \in 1..m : t[i] = s[i]
  OBVIOUS
<1> HIDE DEF m, more
<1> SUFFICES ASSUME NEW p \in Producers
             PROVE  /\ \A i \in DOMAIN t : t[i][1] = p => t[i][2] \in 1..more[p]
                    /\ \A n \in 1..more[p] : \E i \in DOMAIN t : t[i] = <<p, n>>
                    /\ \A i, j \in DOMAIN t :
                         i < j /\ t[i][1] = p /\ t[j][1] = p => t[i][2] < t[j][2]
  BY DEF Numbered, more
<1>6. /\ \A i \in 1..m : s[i][1] = p => s[i][2] \in 1..sent[p]
      /\ \A n \in 1..sent[p] : \E i \in 1..m : s[i] = <<p, n>>
      /\ \A i, j \in 1..m : i < j /\ s[i][1] = p /\ s[j][1] = p => s[i][2] < s[j][2]
  BY <1>0 DEF Numbered
<1>7. ASSUME NEW i \in DOMAIN t, t[i][1] = p PROVE t[i][2] \in 1..more[p]
  <2>1. CASE i \in 1..m
    <3>1. t[i][2] \in 1..sent[p]
      BY <1>5, <1>6, <1>7, <2>1
    <3> QED
      BY <1>3, <3>1
  <2>2. CASE i = m + 1
    <3>1. p = q /\ t[i][2] = sent[q] + 1
      BY <1>4, <1>7, <2>2
    <3> QED
      BY <1>3, <3>1
  <2> QED
    BY <1>0, <1>1, <2>1, <2>2
<1>8. ASSUME NEW n \in 1..more[p] PROVE \E i \in DOMAIN t : t[i] = <<p, n>>
  <2>1. CASE n \in 1..sent[p]
    <3>1. PICK i \in 1..m : s[i] = <<p, n>>
      BY <1>6, <2>1
    <3>2. i \in DOMAIN t
      BY <1>0
    <3> QED
      BY <1>5, <3>1, <3>2
  <2>2. CASE n \notin 1..sent[p]
    <3>1. p = q /\ n = sent[q] + 1
      BY <1>3, <2>2
    <3>2. m + 1 \in DOMAIN t
      BY <1>0
    <3> QED
      BY <1>4, <3>1, <3>2
  <2> QED
    BY <2>1, <2>2
<1>9. ASSUME NEW i \in DOMAIN t, NEW j \in DOMAIN t, i < j, t[i][1] = p, t[j][1] = p
      PROVE  t[i][2] < t[j][2]
  <2>0. i \in 1..m
    BY <1>0, <1>9
  <2>1. CASE j \in 1..m
    BY <1>5, <1>6, <1>9, <2>0, <2>1
  <2>2. CASE j = m + 1
    <3>1. p = q /\ t[j][2] = sent[q] + 1
      BY <1>4, <1>9, <2>2
    <3>2. t[i][2] \in 1..sent[p]
      BY <1>5, <1>6, <1>9, <2>0
    <3> QED
      BY <1>3, <3>1, <3>2
  <2> QED
    BY <1>0, <1>1, <2>1, <2>2
<1> QED
  BY <1>7, <1>8, <1>9

\* An item that enters the channel is the next one of its producer.
LEMMA EnterOK ==
  ASSUME NEW b \in BqRecord, Numbered(b.got \o b.ch, b.sent), NEW q \in Producers
  PROVE  /\ Enter(b, q) \in BqRecord
         /\ Numbered(Enter(b, q).got \o Enter(b, q).ch, Enter(b, q).sent)
<1> DEFINE x == <<q, b.sent[q] + 1>>
           c == Append(b.ch, x)
           more == [b.sent EXCEPT ![q] = @ + 1]
<1>1. b.sent \in [Producers -> Nat] /\ b.sent[q] \in Nat /\ b.ch \in Seq(Item) /\ b.got \in Seq(Item)
  BY DEF BqRecord
<1>2. x \in Item /\ more \in [Producers -> Nat]
  BY <1>1 DEF Item
<1>3. c \in Seq(Item)
  BY <1>1, <1>2, AppendProperties
<1>4. Enter(b, q) = [b EXCEPT !.ch = c, !.sent = more]
  BY DEF Enter, BqRecord
<1>5. /\ Enter(b, q) \in BqRecord
      /\ Enter(b, q).got = b.got /\ Enter(b, q).ch = c /\ Enter(b, q).sent = more
  BY <1>2, <1>3, <1>4 DEF BqRecord
<1> DEFINE s == b.got \o b.ch
           t == b.got \o c
<1>6. /\ t \in Seq(Item) /\ Len(t) = Len(s) + 1 /\ \A i \in 1..Len(s) : t[i] = s[i]
      /\ t[Len(s) + 1] = x /\ s \in Seq(Item)
  <2> DEFINE g == b.got
             k == b.ch
  <2>1. g \in Seq(Item) /\ k \in Seq(Item) /\ x \in Item
    BY <1>1, <1>2
  <2> HIDE DEF g, k, x
  <2>2. /\ g \o Append(k, x) \in Seq(Item) /\ Len(g \o Append(k, x)) = Len(g \o k) + 1
        /\ \A i \in 1..Len(g \o k) : (g \o Append(k, x))[i] = (g \o k)[i]
        /\ (g \o Append(k, x))[Len(g \o k) + 1] = x
        /\ g \o k \in Seq(Item) /\ Len(g \o k) \in Nat
    BY <2>1, EntersLast
  <2> QED
    BY <2>2 DEF g, k
<1> HIDE DEF s, t, c
<1>7. Numbered(s, b.sent)
  BY DEF s
<1>8. Numbered(t, more)
  BY <1>1, <1>6, <1>7, NumberedMore
<1> QED
  BY <1>5, <1>8 DEF t

\* An item enters the channel, moves from the channel to its receiver, or stays.
LEMMA BqStep == BqInv /\ [BoundedNext]_QueueVars => BqInv'
<1> SUFFICES ASSUME BqInv, [BoundedNext]_QueueVars PROVE BqInv'
  OBVIOUS
<1>0. bq \in BqRecord /\ Numbered(bq.got \o bq.ch, bq.sent)
  BY DEF BqInv
<1>1. ASSUME NEW c \in BOOLEAN, NEW d \in BOOLEAN,
             bq' = [bq EXCEPT !.closed = c, !.crashed = d] \/ bq' = [bq EXCEPT !.crashed = d]
      PROVE  BqInv'
  <2>1. bq' \in BqRecord /\ bq'.got = bq.got /\ bq'.ch = bq.ch /\ bq'.sent = bq.sent
    BY <1>0, <1>1 DEF BqRecord
  <2> QED
    BY <1>0, <2>1 DEF BqInv
<1>2. ASSUME NEW p \in Producers, BoundedPush(p) \/ TryPush(p) PROVE BqInv'
  <2>1. CASE bq' = [bq EXCEPT !.crashed = TRUE]
    BY <1>1, <2>1
  <2>2. CASE bq' = Enter(bq, p)
    BY <1>0, <2>2, EnterOK DEF BqInv
  <2>3. CASE bq' = [bq EXCEPT !.waiting = Append(@, p)]
    <3>1. Append(bq.waiting, p) \in Seq(Producers)
      BY <1>0, AppendProperties DEF BqRecord
    <3>2. bq' \in BqRecord /\ bq'.got = bq.got /\ bq'.ch = bq.ch /\ bq'.sent = bq.sent
      BY <1>0, <2>3, <3>1 DEF BqRecord
    <3> QED
      BY <1>0, <3>2 DEF BqInv
  <2> QED
    BY <1>2, <2>1, <2>2, <2>3 DEF BoundedPush, TryPush
<1>3. CASE BoundedPop
  <2> DEFINE b == [bq EXCEPT !.ch = Tail(@), !.got = Append(@, Head(bq.ch))]
             w == [b EXCEPT !.waiting = Tail(@)]
  <2>1. /\ bq.ch # <<>>
        /\ bq' = IF b.waiting = <<>> THEN b ELSE Enter(w, Head(b.waiting))
    BY <1>3 DEF BoundedPop
  <2>2. bq.ch \in Seq(Item) /\ bq.got \in Seq(Item)
    BY <1>0 DEF BqRecord
  <2>3. /\ Tail(bq.ch) \in Seq(Item) /\ Append(bq.got, Head(bq.ch)) \in Seq(Item)
        /\ Append(bq.got, Head(bq.ch)) \o Tail(bq.ch) = bq.got \o bq.ch
    BY <2>1, <2>2, MovesOver, HeadTailProperties, AppendProperties
  <2>4. /\ b \in BqRecord /\ b.got \o b.ch = bq.got \o bq.ch /\ b.sent = bq.sent
    BY <1>0, <2>3 DEF BqRecord
  <2> HIDE DEF b
  <2>5. CASE b.waiting = <<>>
    BY <1>0, <2>1, <2>4, <2>5 DEF BqInv
  <2>6. CASE b.waiting # <<>>
    <3>1. b.waiting \in Seq(Producers)
      BY <2>4 DEF BqRecord
    <3>2. Head(b.waiting) \in Producers /\ Tail(b.waiting) \in Seq(Producers)
      BY <2>6, <3>1, HeadTailProperties
    <3>3. w \in BqRecord /\ w.got = b.got /\ w.ch = b.ch /\ w.sent = b.sent
      BY <2>4, <3>2 DEF BqRecord
    <3> HIDE DEF w
    <3>4. Numbered(w.got \o w.ch, w.sent)
      BY <1>0, <2>4, <3>3
    <3> QED
      BY <2>1, <2>6, <3>2, <3>3, <3>4, EnterOK DEF BqInv
  <2> QED
    BY <2>5, <2>6
<1>4. CASE BoundedClose
  BY <1>1, <1>4 DEF BoundedClose
<1>5. CASE UNCHANGED QueueVars
  BY <1>5 DEF QueueVars, BqInv
<1> QED
  BY <1>2, <1>3, <1>4, <1>5 DEF BoundedNext

\* A BoundedQueue hands out every item of every producer once and in order, for
\* any capacity and any number of producers.
THEOREM HandsOutInOrder == BoundedSpec => []BoundedFifo
<1>1. QueueInit => BqInv
  <2> SUFFICES ASSUME QueueInit PROVE BqInv
    OBVIOUS
  <2>1. <<>> \in Seq(Item) /\ <<>> \in Seq(Producers) /\ [p \in Producers |-> 0] \in [Producers -> Nat]
    OBVIOUS
  <2>2. /\ bq \in BqRecord /\ bq.got = <<>> /\ bq.ch = <<>> /\ bq.sent = [p \in Producers |-> 0]
    BY <2>1 DEF QueueInit, BqRecord
  <2>3. <<>> \o <<>> = <<>>
    BY ConcatEmptySeq
  <2>4. Numbered(<<>>, [p \in Producers |-> 0])
    BY DEF Numbered
  <2> QED
    BY <2>2, <2>3, <2>4 DEF BqInv
<1>2. BqInv => BoundedFifo
  BY DEF BqInv, BoundedFifo, Numbered, Passed
<1> QED
  BY <1>1, <1>2, BqStep, PTL DEF BoundedSpec

-----------------------------------------------------------------------------
McPcs == {"idle", "acquire", "get", "write", "put", "close", "closing", "done"}
McFields ==
  [closed: BOOLEAN, mu: BOOLEAN, conn: {"open", "closed"}, own: BOOLEAN, enc: Int, flow: Int]
\* One Close at a time runs past its check, and until it is done the connection
\* has its own two buffers.
ClosingOnce ==
  /\ mc \in McFields
  /\ mcPc \in [McProcs -> McPcs]
  /\ ~mc.closed => mc.own
  /\ \A p \in McProcs : mcPc[p] = "closing" => mc.mu /\ mc.own /\ mc.closed
  /\ \A p, q \in McProcs : mcPc[p] = "closing" /\ mcPc[q] = "closing" => p = q

Buffers(s) == {s[i] : i \in 1..Len(s)}
Distinct(s) == \A i, j \in 1..Len(s) : s[i] = s[j] => i = j
HeldBuffers == UNION {held[p] : p \in McProcs}
Exclusive ==
  /\ pool \in Seq(Nat) /\ Distinct(pool)
  /\ held \in [McProcs -> SUBSET Nat]
  /\ \A p \in McProcs : IsFiniteSet(held[p])
  /\ \A p \in McProcs : held[p] \cap Buffers(pool) = {}
  /\ \A p, q \in McProcs : p # q => held[p] \cap held[q] = {}
  /\ mc.own => \A b \in {1, 2} : b \notin Buffers(pool) /\ \A p \in McProcs : b \notin held[p]

\* A buffer taken from the pool is no longer in it.
LEMMA TakeOne ==
  ASSUME NEW s \in Seq(Nat), Distinct(s), s # <<>>
  PROVE  /\ Tail(s) \in Seq(Nat) /\ Distinct(Tail(s)) /\ Head(s) \in Nat
         /\ Buffers(Tail(s)) \subseteq Buffers(s) /\ Head(s) \in Buffers(s)
         /\ Head(s) \notin Buffers(Tail(s))
<1> DEFINE t == Tail(s)
           n == Len(s)
           m == Len(t)
<1>1. /\ t \in Seq(Nat) /\ n \in Nat /\ n > 0 /\ m = n - 1 /\ Head(s) = s[1] /\ Head(s) \in Nat
      /\ \A i \in 1..m : t[i] = s[i + 1]
  BY HeadTailProperties, LenProperties, EmptySeq
<1> HIDE DEF t, n, m
<1>2. /\ \A i \in 1..m : i + 1 \in 1..n /\ i \in Nat
      /\ 1 \in 1..n
      /\ \A i \in 1..m : i + 1 # 1
  BY <1>1
<1>3. Distinct(t)
  <2> SUFFICES ASSUME NEW i \in 1..m, NEW j \in 1..m, t[i] = t[j] PROVE i = j
    BY DEF Distinct, m
  <2>1. s[i + 1] = s[j + 1]
    BY <1>1
  <2>2. i + 1 = j + 1
    BY <1>2, <2>1 DEF Distinct, n
  <2> QED
    BY <1>2, <2>2
<1>4. Buffers(t) \subseteq Buffers(s) /\ s[1] \in Buffers(s)
  <2>1. \A i \in 1..m : t[i] \in Buffers(s)
    BY <1>1, <1>2 DEF Buffers, n
  <2>2. s[1] \in Buffers(s)
    BY <1>2 DEF Buffers, n
  <2> QED
    BY <2>1, <2>2 DEF Buffers, m
<1>5. s[1] \notin Buffers(t)
  <2> SUFFICES ASSUME NEW i \in 1..m, s[1] = t[i] PROVE FALSE
    BY DEF Buffers, m
  <2>1. s[1] = s[i + 1]
    BY <1>1
  <2> QED
    BY <1>2, <2>1 DEF Distinct, n
<1> QED
  BY <1>1, <1>3, <1>4, <1>5 DEF t

\* A buffer put into the pool, or dropped by a full one, is there at most once.
LEMMA PutOne ==
  ASSUME NEW s \in Seq(Nat), Distinct(s), NEW b \in Nat, b \notin Buffers(s)
  PROVE  /\ Put(s, b) \in Seq(Nat) /\ Distinct(Put(s, b))
         /\ Buffers(Put(s, b)) \subseteq Buffers(s) \cup {b}
<1> DEFINE t == Append(s, b)
           n == Len(s)
<1>1. /\ t \in Seq(Nat) /\ n \in Nat /\ Len(t) = n + 1 /\ t[n + 1] = b
      /\ \A i \in 1..n : t[i] = s[i]
  BY AppendProperties, LenProperties
<1> HIDE DEF t, n
<1>2. \A i \in 1..(n + 1) : i \in 1..n \/ i = n + 1
  BY <1>1
<1>3. \A i \in 1..n : s[i] # b
  BY DEF Buffers, n
<1>4. Buffers(t) \subseteq Buffers(s) \cup {b}
  BY <1>1, <1>2 DEF Buffers, n
<1>5. Distinct(t)
  <2> SUFFICES ASSUME NEW i \in 1..(n + 1), NEW j \in 1..(n + 1), t[i] = t[j] PROVE i = j
    BY <1>1 DEF Distinct
  <2>1. CASE i \in 1..n /\ j \in 1..n
    BY <1>1, <2>1 DEF Distinct, n
  <2> QED
    BY <1>1, <1>2, <1>3, <2>1
<1> QED
  BY <1>1, <1>4, <1>5 DEF Put, t

\* A buffer that make returns is no buffer in use.
LEMMA FreshBuffer == Exclusive => Fresh \in Nat /\ Fresh \notin InUse
<1> SUFFICES ASSUME Exclusive PROVE Fresh \in Nat /\ Fresh \notin InUse
  OBVIOUS
<1>1. IsFiniteSet(McProcs)
  <2>1. IsFiniteSet({"reader"}) /\ IsFiniteSet({"app"})
    BY FS_Singleton
  <2>2. Closers = {"reader"} \cup {"app"}
    BY DEF Closers
  <2>3. IsFiniteSet(Closers)
    BY <2>1, <2>2, FS_Union
  <2> QED
    BY <2>3, WritersAssumption, FS_Union DEF McProcs
<1>2. IsFiniteSet({held[p] : p \in McProcs})
  <2> DEFINE T == {held[p] : p \in McProcs}
             f == [p \in McProcs |-> held[p]]
  <2>1. f \in Surjection(McProcs, T)
    BY DEF Surjection
  <2> HIDE DEF f, T
  <2>2. IsFiniteSet(T)
    BY <1>1, <2>1, FS_Surjection
  <2> QED
    BY <2>2 DEF T
<1>3. IsFiniteSet(UNION {held[p] : p \in McProcs})
  <2>1. \A h \in {held[p] : p \in McProcs} : IsFiniteSet(h)
    BY DEF Exclusive
  <2> QED
    BY <1>2, <2>1, FS_UNION
<1>4. IsFiniteSet(Pooled)
  <2>1. Len(pool) \in Nat
    BY LenProperties DEF Exclusive
  <2>2. IsFiniteSet(1..Len(pool))
    BY <2>1, FS_Interval
  <2> DEFINE f == [i \in 1..Len(pool) |-> pool[i]]
  <2>3. f \in Surjection(1..Len(pool), Pooled)
    BY DEF Surjection, Pooled
  <2> HIDE DEF f
  <2> QED
    BY <2>2, <2>3, FS_Surjection
<1>5. IsFiniteSet(IF mc.own THEN {1, 2} ELSE {})
  <2>1. IsFiniteSet({1}) /\ IsFiniteSet({2}) /\ IsFiniteSet({})
    BY FS_Singleton, FS_EmptySet
  <2>2. {1, 2} = {1} \cup {2}
    OBVIOUS
  <2>3. IsFiniteSet({1, 2})
    BY <2>1, <2>2, FS_Union
  <2> QED
    BY <2>1, <2>3
<1>6. IsFiniteSet(InUse)
  <2>1. IsFiniteSet((UNION {held[p] : p \in McProcs}) \cup Pooled)
    BY <1>3, <1>4, FS_Union
  <2> QED
    BY <2>1, <1>5, FS_Union DEF InUse
<1> DEFINE c == Cardinality(InUse)
<1>7. c \in Nat
  BY <1>6, FS_CardinalityType
<1>8. \E b \in 1..(c + 1) : b \notin InUse
  <2> SUFFICES ASSUME 1..(c + 1) \subseteq InUse PROVE FALSE
    OBVIOUS
  <2>1. Cardinality(1..(c + 1)) <= c
    BY <1>6, FS_Subset
  <2> HIDE DEF c
  <2>2. 1 \in Int /\ c + 1 \in Int /\ 1 <= c + 1
    BY <1>7
  <2>3. Cardinality(1..(c + 1)) = (c + 1) - 1 + 1
    BY <2>2, FS_Interval
  <2> QED
    BY <1>7, <2>1, <2>3
<1>9. Fresh \in 1..(c + 1) /\ Fresh \notin InUse
  BY <1>8 DEF Fresh
<1> HIDE DEF c
<1> QED
  BY <1>7, <1>9

\* GetBuffer gives a goroutine a buffer that nobody has.
LEMMA GetKeeps ==
  ASSUME Exclusive, NEW p \in McProcs, GetBuffer(p), mc'.own = mc.own
  PROVE  Exclusive'
<1>0. /\ pool \in Seq(Nat) /\ Distinct(pool) /\ held \in [McProcs -> SUBSET Nat]
  BY DEF Exclusive
<1>1. PICK b \in Nat :
        /\ held' = [held EXCEPT ![p] = @ \cup {b}]
        /\ pool' \in Seq(Nat) /\ Distinct(pool') /\ Buffers(pool') \subseteq Buffers(pool)
        /\ b \notin Buffers(pool') /\ \A q \in McProcs : b \notin held[q]
        /\ mc.own => b \notin {1, 2}
  <2>1. CASE /\ pool # <<>> /\ pool' = Tail(pool)
             /\ held' = [held EXCEPT ![p] = @ \cup {Head(pool)}]
    <3>1. /\ pool' \in Seq(Nat) /\ Distinct(pool') /\ Head(pool) \in Nat
          /\ Buffers(pool') \subseteq Buffers(pool) /\ Head(pool) \in Buffers(pool)
          /\ Head(pool) \notin Buffers(pool')
      BY <1>0, <2>1, TakeOne
    <3>2. /\ \A q \in McProcs : Head(pool) \notin held[q]
          /\ mc.own => Head(pool) \notin {1, 2}
      BY <3>1 DEF Exclusive
    <3> QED
      BY <2>1, <3>1, <3>2
  <2>2. CASE /\ pool' = IF pool = <<>> THEN pool ELSE Tail(pool)
             /\ held' = [held EXCEPT ![p] = @ \cup {Fresh}]
    <3>1. pool' \in Seq(Nat) /\ Distinct(pool') /\ Buffers(pool') \subseteq Buffers(pool)
      BY <1>0, <2>2, TakeOne
    <3>2. Fresh \in Nat /\ Fresh \notin InUse
      BY FreshBuffer
    <3>3. /\ Fresh \notin Buffers(pool) /\ \A q \in McProcs : Fresh \notin held[q]
          /\ mc.own => Fresh \notin {1, 2}
      BY <3>2 DEF InUse, Pooled, Buffers
    <3> QED
      BY <2>2, <3>1, <3>2, <3>3
  <2> QED
    BY <2>1, <2>2 DEF GetBuffer
<1>2. \A q \in McProcs : held'[q] = IF q = p THEN held[p] \cup {b} ELSE held[q]
  BY <1>0, <1>1
<1>3. held' \in [McProcs -> SUBSET Nat]
  BY <1>0, <1>1
<1>4. \A q \in McProcs : IsFiniteSet(held'[q])
  <2>1. IsFiniteSet(held[p] \cup {b})
    BY FS_AddElement DEF Exclusive
  <2> QED
    BY <1>2, <2>1 DEF Exclusive
<1>5. \A q \in McProcs : held'[q] \cap Buffers(pool') = {}
  BY <1>1, <1>2 DEF Exclusive
<1>6. \A q, r \in McProcs : q # r => held'[q] \cap held'[r] = {}
  BY <1>1, <1>2 DEF Exclusive
<1>7. mc'.own => \A x \in {1, 2} : x \notin Buffers(pool') /\ \A q \in McProcs : x \notin held'[q]
  BY <1>1, <1>2 DEF Exclusive
<1> QED
  BY <1>1, <1>3, <1>4, <1>5, <1>6, <1>7 DEF Exclusive, Buffers, Distinct

\* PutBuffer takes the buffer away from the goroutine.
LEMMA PutKeeps ==
  ASSUME Exclusive, NEW p \in McProcs, NEW b \in held[p], mc'.own = mc.own,
         pool' = Put(pool, b), held' = [held EXCEPT ![p] = @ \ {b}]
  PROVE  Exclusive'
<1>0. /\ pool \in Seq(Nat) /\ Distinct(pool) /\ held \in [McProcs -> SUBSET Nat]
      /\ b \in Nat /\ b \notin Buffers(pool)
  BY DEF Exclusive
<1>1. /\ pool' \in Seq(Nat) /\ Distinct(pool')
      /\ Buffers(pool') \subseteq Buffers(pool) \cup {b}
  BY <1>0, PutOne
<1>2. \A q \in McProcs : held'[q] = IF q = p THEN held[p] \ {b} ELSE held[q]
  BY <1>0
<1>3. held' \in [McProcs -> SUBSET Nat]
  BY <1>0
<1>4. \A q \in McProcs : IsFiniteSet(held'[q])
  <2>1. IsFiniteSet(held[p] \ {b})
    BY FS_RemoveElement DEF Exclusive
  <2> QED
    BY <1>2, <2>1 DEF Exclusive
<1>5. \A q \in McProcs : b \notin held'[q]
  BY <1>2 DEF Exclusive
<1>6. \A q \in McProcs : held'[q] \cap Buffers(pool') = {}
  BY <1>1, <1>2, <1>5 DEF Exclusive
<1>7. \A q, r \in McProcs : q # r => held'[q] \cap held'[r] = {}
  BY <1>2 DEF Exclusive
<1>8. mc'.own => \A x \in {1, 2} : x \notin Buffers(pool') /\ \A q \in McProcs : x \notin held'[q]
  BY <1>1, <1>2 DEF Exclusive
<1> QED
  BY <1>1, <1>3, <1>4, <1>6, <1>7, <1>8 DEF Exclusive, Buffers, Distinct

\* Close gives back readBuf and writeBuf, which nobody else has.
LEMMA OwnKeeps ==
  ASSUME Exclusive, mc.own, ~mc'.own, pool' = Put(Put(pool, Own[1]), Own[2]), UNCHANGED held
  PROVE  Exclusive'
<1> DEFINE s == Put(pool, 1)
<1>1. Own[1] = 1 /\ Own[2] = 2 /\ 1 \in Nat /\ 2 \in Nat
  BY DEF Own
<1>2. s \in Seq(Nat) /\ Distinct(s) /\ Buffers(s) \subseteq Buffers(pool) \cup {1}
  <2>1. pool \in Seq(Nat) /\ Distinct(pool) /\ 1 \notin Buffers(pool)
    BY DEF Exclusive
  <2> QED
    BY <1>1, <2>1, PutOne
<1>3. 2 \notin Buffers(s)
  BY <1>2 DEF Exclusive
<1> HIDE DEF s
<1>4. pool' = Put(s, 2)
  BY <1>1 DEF s
<1>5. /\ pool' \in Seq(Nat) /\ Distinct(pool')
      /\ Buffers(pool') \subseteq Buffers(s) \cup {2}
  BY <1>1, <1>2, <1>3, <1>4, PutOne
<1>6. ASSUME NEW p \in McProcs PROVE held[p] \cap Buffers(pool') = {}
  <2>1. held[p] \cap Buffers(pool) = {} /\ 1 \notin held[p] /\ 2 \notin held[p]
    BY DEF Exclusive
  <2>2. Buffers(pool') \subseteq Buffers(pool) \cup {1, 2}
    BY <1>2, <1>5
  <2> QED
    BY <2>1, <2>2
<1>7. /\ held' \in [McProcs -> SUBSET Nat] /\ \A p \in McProcs : IsFiniteSet(held'[p])
      /\ \A p, q \in McProcs : p # q => held'[p] \cap held'[q] = {}
      /\ \A p \in McProcs : held'[p] \cap Buffers(pool') = {}
  BY <1>6 DEF Exclusive
<1> QED
  BY <1>5, <1>7 DEF Exclusive, Buffers, Distinct

McInv == ClosingOnce /\ Exclusive

\* Every step of a writer, the reader or a Close keeps the owners of the buffers apart.
LEMMA McStep == McInv /\ [ConnNext]_ConnVars => McInv'
<1> SUFFICES ASSUME McInv, [ConnNext]_ConnVars PROVE McInv'
  OBVIOUS
<1>0. mc \in McFields /\ mcPc \in [McProcs -> McPcs] /\ ClosingOnce /\ Exclusive
  BY DEF McInv, ClosingOnce
<1>p. {"idle", "acquire", "get", "write", "put", "close", "done"} \subseteq McPcs
  BY DEF McPcs
<1>1. /\ Writers \subseteq McProcs /\ Closers \subseteq McProcs
      /\ "reader" \in McProcs /\ "app" \in McProcs
  BY DEF McProcs, Closers
\* A step that is no part of Close past its check.
<1>a. ASSUME NEW p \in McProcs, NEW to \in McPcs, to # "closing",
             mcPc' = [mcPc EXCEPT ![p] = to] \/ UNCHANGED mcPc,
             mc' \in McFields, mc'.own = mc.own, mc'.mu = mc.mu, mc'.closed = mc.closed
      PROVE  ClosingOnce'
  <2>1. /\ mcPc' \in [McProcs -> McPcs]
        /\ \A q \in McProcs : mcPc'[q] = "closing" => mcPc[q] = "closing"
    BY <1>0, <1>a
  <2> QED
    BY <1>0, <1>a, <2>1 DEF ClosingOnce
<1>b. ASSUME UNCHANGED <<held, pool>>, mc'.own = mc.own PROVE Exclusive'
  BY <1>0, <1>b DEF Exclusive, Buffers, Distinct
<1>c. ASSUME NEW n \in Int,
             mc' = mc \/ mc' = [mc EXCEPT !.enc = n] \/ mc' = [mc EXCEPT !.flow = n]
      PROVE  /\ mc' \in McFields /\ mc'.own = mc.own /\ mc'.mu = mc.mu
             /\ mc'.closed = mc.closed
  BY <1>0, <1>c DEF McFields
<1>d. mc.enc \in Int /\ mc.flow \in Int /\ mc.enc + 1 \in Int /\ mc.flow + 1 \in Int /\ mc.flow - 1 \in Int
  <2>1. mc.enc \in Int /\ mc.flow \in Int
    BY <1>0 DEF McFields
  <2> QED
    BY <2>1
<1>2. ASSUME NEW w \in Writers, WritePacket(w) PROVE McInv'
  <2>1. /\ mcPc' = [mcPc EXCEPT ![w] = "acquire"] /\ UNCHANGED <<held, pool>>
        /\ mc' = [mc EXCEPT !.enc = mc.enc + 1]
    BY <1>2 DEF WritePacket, McGoto, Encrypt
  <2> QED
    BY <1>1, <1>a, <1>p, <1>b, <1>c, <1>d, <2>1 DEF McInv
<1>3. ASSUME NEW w \in Writers, WritePacketPriority(w) PROVE McInv'
  <2>1. UNCHANGED <<mcPc, held, pool>> /\ mc' = [mc EXCEPT !.enc = mc.enc + 1]
    BY <1>3 DEF WritePacketPriority, Encrypt
  <2> QED
    BY <1>1, <1>a, <1>p, <1>b, <1>c, <1>d, <2>1 DEF McInv
<1>4. ASSUME NEW w \in Writers, WriteAcquire(w) PROVE McInv'
  <2>1. /\ mcPc' = [mcPc EXCEPT ![w] = "get"] /\ UNCHANGED <<held, pool>>
        /\ mc' = [mc EXCEPT !.flow = mc.flow + 1]
    BY <1>4 DEF WriteAcquire, McGoto
  <2> QED
    BY <1>1, <1>a, <1>p, <1>b, <1>c, <1>d, <2>1 DEF McInv
<1>5. ASSUME NEW w \in Writers, WriteGet(w) PROVE McInv'
  <2>1. mcPc' = [mcPc EXCEPT ![w] = "write"] /\ GetBuffer(w) /\ mc' = mc
    BY <1>5 DEF WriteGet, McGoto
  <2>2. Exclusive'
    BY <1>0, <1>1, <2>1, GetKeeps
  <2> QED
    BY <1>0, <1>1, <1>a, <1>p, <2>1, <2>2 DEF McInv
<1>6. ASSUME NEW w \in Writers, WriteOut(w) PROVE McInv'
  <2>1. mcPc' = [mcPc EXCEPT ![w] = "put"] /\ UNCHANGED <<held, pool>> /\ mc' = mc
    BY <1>6 DEF WriteOut, McGoto
  <2> QED
    BY <1>0, <1>1, <1>a, <1>p, <1>b, <2>1 DEF McInv
<1>7. ASSUME NEW w \in Writers, WritePut(w) PROVE McInv'
  <2>1. /\ mcPc' = [mcPc EXCEPT ![w] = "idle"] /\ mc' = [mc EXCEPT !.flow = mc.flow - 1]
        /\ \E b \in held[w] : pool' = Put(pool, b) /\ held' = [held EXCEPT ![w] = @ \ {b}]
    BY <1>7 DEF WritePut, McGoto
  <2>2. mc' \in McFields /\ mc'.own = mc.own /\ mc'.mu = mc.mu /\ mc'.closed = mc.closed
    BY <1>c, <1>d, <2>1
  <2>3. Exclusive'
    BY <1>0, <1>1, <2>1, <2>2, PutKeeps
  <2> QED
    BY <1>1, <1>a, <1>p, <2>1, <2>2, <2>3 DEF McInv
<1>8. CASE ReadRaw
  <2>1. /\ \/ GetBuffer("reader") /\ UNCHANGED mcPc
           \/ mcPc' = [mcPc EXCEPT !["reader"] = "close"] /\ UNCHANGED <<held, pool>>
        /\ mc' = mc
    BY <1>8 DEF ReadRaw, McGoto
  <2>2. Exclusive'
    BY <1>0, <1>1, <1>b, <2>1, GetKeeps
  <2> QED
    BY <1>0, <1>1, <1>a, <1>p, <2>1, <2>2 DEF McInv
<1>9. CASE ReleaseRaw
  <2>1. /\ UNCHANGED <<mc, mcPc>>
        /\ \E b \in held["reader"] : /\ pool' = Put(pool, b)
                                     /\ held' = [held EXCEPT !["reader"] = @ \ {b}]
    BY <1>9 DEF ReleaseRaw
  <2>2. Exclusive'
    BY <1>0, <1>1, <2>1, PutKeeps
  <2> QED
    BY <1>0, <1>1, <1>a, <1>p, <2>1, <2>2 DEF McInv
<1>10. CASE CloseCall
  <2>1. mcPc' = [mcPc EXCEPT !["app"] = "close"] /\ UNCHANGED <<mc, held, pool>>
    BY <1>10 DEF CloseCall, McGoto
  <2> QED
    BY <1>0, <1>1, <1>a, <1>p, <1>b, <2>1 DEF McInv
<1>11. ASSUME NEW p \in Closers, CloseLock(p) PROVE McInv'
  <2>1. /\ mcPc' = [mcPc EXCEPT ![p] = IF mc.closed THEN "done" ELSE "closing"]
        /\ ~mc.mu /\ mc' = [mc EXCEPT !.mu = ~mc.closed, !.closed = TRUE]
        /\ UNCHANGED <<held, pool>>
    BY <1>11 DEF CloseLock, McGoto
  <2>2. /\ mc' \in McFields /\ mc'.own = mc.own /\ mc'.mu = ~mc.closed /\ mc'.closed
    BY <1>0, <2>1 DEF McFields
  <2>3. Exclusive'
    BY <1>b, <2>1, <2>2
  <2>4. /\ mcPc' \in [McProcs -> McPcs]
        /\ \A q \in McProcs : mcPc'[q] = "closing" => q = p /\ ~mc.closed
    BY <1>0, <1>1, <2>1 DEF ClosingOnce, McPcs
  <2>5. ClosingOnce'
    BY <1>0, <2>2, <2>4 DEF ClosingOnce
  <2> QED
    BY <2>3, <2>5 DEF McInv
<1>12. ASSUME NEW p \in Closers, CloseConn(p) PROVE McInv'
  <2>1. /\ mcPc[p] = "closing" /\ mcPc' = [mcPc EXCEPT ![p] = "done"]
        /\ mc' = [mc EXCEPT !.mu = FALSE, !.conn = "closed", !.own = FALSE]
        /\ pool' = Put(Put(pool, Own[1]), Own[2]) /\ UNCHANGED held
    BY <1>12 DEF CloseConn, McGoto
  <2>2. mc' \in McFields /\ ~mc'.own /\ mc'.closed = mc.closed
    BY <1>0, <2>1 DEF McFields
  <2>3. mc.own /\ mc.closed
    BY <1>0, <1>1, <2>1 DEF ClosingOnce
  <2>4. Exclusive'
    BY <1>0, <2>1, <2>2, <2>3, OwnKeeps
  <2>5. /\ mcPc' \in [McProcs -> McPcs]
        /\ \A q \in McProcs : mcPc'[q] # "closing"
    BY <1>0, <1>1, <2>1 DEF ClosingOnce, McPcs
  <2>6. ClosingOnce'
    BY <2>2, <2>3, <2>5 DEF ClosingOnce
  <2> QED
    BY <2>4, <2>6 DEF McInv
<1>13. CASE UNCHANGED ConnVars
  <2>1. UNCHANGED <<mc, mcPc, held, pool>>
    BY <1>13 DEF ConnVars
  <2> QED
    BY <1>0, <1>b, <2>1 DEF McInv, ClosingOnce
<1> QED
  BY <1>2, <1>3, <1>4, <1>5, <1>6, <1>7, <1>8, <1>9, <1>10, <1>11, <1>12, <1>13
  DEF ConnNext, WriteStep

\* A buffer of the pool has one owner, for any number of writers and any
\* capacity of the pool, however Close interleaves with them.
THEOREM OneOwner == MineConnSpec => []BuffersExclusive
<1>1. ConnInit => McInv
  <2> SUFFICES ASSUME ConnInit PROVE McInv
    OBVIOUS
  <2>1. mc \in McFields /\ mc.own /\ mcPc = [p \in McProcs |-> "idle"]
    BY DEF ConnInit, McFields
  <2>2. ClosingOnce
    BY <2>1 DEF ClosingOnce, McPcs
  <2>3. <<>> \in Seq(Nat) /\ Len(<<>>) = 0 /\ 1..0 = {} /\ IsFiniteSet({})
    BY FS_EmptySet
  <2>4. pool = <<>> /\ held = [p \in McProcs |-> {}]
    BY DEF ConnInit
  <2>5. Buffers(pool) = {} /\ Distinct(pool)
    BY <2>3, <2>4 DEF Buffers, Distinct
  <2>6. Exclusive
    BY <2>3, <2>4, <2>5 DEF Exclusive
  <2> QED
    BY <2>2, <2>6 DEF McInv
<1>2. McInv => BuffersExclusive
  BY DEF McInv, Exclusive, BuffersExclusive, Buffers, Distinct, Pooled
<1> QED
  BY <1>1, <1>2, McStep, PTL DEF MineConnSpec
=============================================================================
