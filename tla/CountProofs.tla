---------------------------- MODULE CountProofs ----------------------------
(***************************************************************************)
(* Proofs about the counters of conn: FlowController.current, which is     *)
(* bounded and is the sum of the sizes held, and the counters of Metrics,  *)
(* which agree with each other. Both rest on sums over finite sets, which  *)
(* the community modules define by a recursive function on sets; the first *)
(* part derives what the proofs need of them, by an induction over sets of *)
(* natural numbers.                                                        *)
(* The bound on current alone is not inductive: the goroutine about to add *)
(* must own the mutex, and so be the only one whose test is still valid.   *)
(* Nor do the counters of Metrics agree in every state: the invariant says *)
(* by how much each of them may be ahead at each control point of the one  *)
(* goroutine that owns the mutex.                                          *)
(***************************************************************************)
EXTENDS FlowController, Metrics, FiniteSetTheorems, SequenceTheorems, WellFoundedInduction,
        TLAPS

Below == {p \in Nat \X Nat : p[1] < p[2]}

\* A set of natural numbers that is not empty has a least element.
LEMMA LeastNat ==
  ASSUME NEW T, T \subseteq Nat, T # {}
  PROVE  \E x \in T : \A y \in T : x <= y
<1>1. IsWellFoundedOn(Below, Nat)  BY NatLessThanWellFounded, Zenon DEF OpToRel, Below
<1>2. PICK x \in T : \A y \in T : ~ (<<y, x>> \in Below)  BY <1>1, WFMin
<1>3. \A y \in T : ~ (y < x)  BY <1>2 DEF Below
<1> QED  BY <1>3

\* A set that holds zero and every successor of its members holds all natural numbers.
LEMMA SetInduction ==
  ASSUME NEW T, 0 \in T, \A n \in Nat : n \in T => n + 1 \in T
  PROVE  Nat \subseteq T
<1> DEFINE rest == Nat \ T
<1>1. SUFFICES ASSUME rest # {} PROVE FALSE  OBVIOUS
<1>2. PICK n \in rest : \A m \in rest : n <= m
  <2>1. rest \subseteq Nat  OBVIOUS
  <2> HIDE DEF rest
  <2> QED  BY <1>1, <2>1, LeastNat
<1>3. n \in Nat /\ n # 0  OBVIOUS
<1>4. n - 1 \in Nat /\ ~(n <= n - 1)  BY <1>3
<1>5. n - 1 \in T  BY <1>2, <1>4
<1>6. n - 1 + 1 = n  BY <1>3
<1> QED  BY <1>4, <1>5, <1>6

Pick(s) == CHOOSE x \in s : TRUE
IsSum(g, f, T) ==
  g = [s \in SUBSET T |-> IF s = {} THEN 0 ELSE f[Pick(s)] + g[s \ {Pick(s)}]]
SumOver(f, S) == MapThenSumSet(LAMBDA x : f[x], S)

\* What MapThenSumSet of the community modules computes.
LEMMA SumIs == ASSUME NEW f, NEW S PROVE SumOver(f, S) = (CHOOSE g : IsSum(g, f, S))[S]
BY Zenon DEF SumOver, MapThenSumSet, MapThenFoldSet, IsSum, Pick

\* The member that is picked.
LEMMA PickIn == ASSUME NEW s, s # {} PROVE Pick(s) \in s
BY DEF Pick

\* A set without one of its members is smaller by one.
LEMMA PickSmaller ==
  ASSUME NEW T, IsFiniteSet(T), NEW s \in SUBSET T, NEW x \in s
  PROVE  /\ s \ {x} \in SUBSET T /\ s # {}
         /\ Cardinality(s) \in Nat /\ Cardinality(s \ {x}) \in Nat
         /\ Cardinality(s) = Cardinality(s \ {x}) + 1
<1>1. IsFiniteSet(s)  BY FS_Subset
<1>2. IsFiniteSet(s \ {x}) /\ Cardinality(s \ {x}) = Cardinality(s) - 1  BY <1>1, FS_RemoveElement
<1>3. Cardinality(s) \in Nat /\ Cardinality(s \ {x}) \in Nat  BY <1>1, <1>2, FS_CardinalityType
<1> QED  BY <1>2, <1>3

\* Over a finite set there is a function that sums.
LEMMA SumExists ==
  ASSUME NEW f, NEW T, IsFiniteSet(T), \A x \in T : f[x] \in Int
  PROVE  \E g \in [SUBSET T -> Int] : IsSum(g, f, T)
<1> DEFINE Val(g, s) == IF s = {} THEN 0 ELSE f[Pick(s)] + g[s \ {Pick(s)}]
           Upto(g, n) == \A s \in SUBSET T : Cardinality(s) <= n => g[s] = Val(g, s)
           N == {n \in Nat : \E g \in [SUBSET T -> Int] : Upto(g, n)}
<1>c. \A s \in SUBSET T : Cardinality(s) \in Nat /\ (Cardinality(s) = 0 <=> s = {})
  BY FS_Subset, FS_CardinalityType, FS_EmptySet
<1>v. ASSUME NEW g \in [SUBSET T -> Int], NEW s \in SUBSET T PROVE Val(g, s) \in Int
  <2>1. CASE s = {}  BY <2>1
  <2>2. CASE s # {}
    <3>1. Pick(s) \in T /\ s \ {Pick(s)} \in SUBSET T  BY <2>2, PickIn
    <3>2. f[Pick(s)] \in Int /\ g[s \ {Pick(s)}] \in Int  BY <3>1
    <3>3. f[Pick(s)] + g[s \ {Pick(s)}] \in Int  BY <3>2
    <3> QED  BY <2>2, <3>3
  <2> QED  BY <2>1, <2>2
<1>1. 0 \in N
  <2> DEFINE g == [s \in SUBSET T |-> 0]
  <2>1. g \in [SUBSET T -> Int]  OBVIOUS
  <2>2. ASSUME NEW s \in SUBSET T, Cardinality(s) <= 0 PROVE g[s] = Val(g, s)
    <3>1. s = {}  BY <1>c, <2>2
    <3> QED  BY <3>1
  <2> QED  BY <2>1, <2>2
<1>2. ASSUME NEW n \in Nat, n \in N PROVE n + 1 \in N
  <2>1. PICK g \in [SUBSET T -> Int] : Upto(g, n)  BY <1>2
  <2> DEFINE h == [s \in SUBSET T |-> IF Cardinality(s) <= n THEN g[s] ELSE Val(g, s)]
  <2>2. h \in [SUBSET T -> Int]
    <3> HIDE DEF Val
    <3> QED  BY <1>v
  <2>3. \A s \in SUBSET T : Cardinality(s) <= n + 1 => h[s] = Val(g, s)
    <3> HIDE DEF Val
    <3> QED  BY <2>1
  <2>4. \A s \in SUBSET T : Cardinality(s) <= n => h[s] = g[s]  OBVIOUS
  <2>5. ASSUME NEW s \in SUBSET T, Cardinality(s) <= n + 1 PROVE Val(h, s) = Val(g, s)
    <3>1. CASE s = {}  BY <3>1
    <3>2. CASE s # {}
      <4> DEFINE r == s \ {Pick(s)}
      <4>1. Pick(s) \in s  BY <3>2, PickIn
      <4>2. r \in SUBSET T /\ Cardinality(s) = Cardinality(r) + 1 /\ Cardinality(r) \in Nat
        BY <4>1, PickSmaller
      <4>3. Cardinality(r) <= n  BY <2>5, <4>2
      <4>4. h[r] = g[r]  BY <2>4, <4>2, <4>3
      <4> QED  BY <3>2, <4>4
    <3> QED  BY <3>1, <3>2
  <2>6. Upto(h, n + 1)
    <3> HIDE DEF Val, h
    <3> QED  BY <2>3, <2>5
  <2> HIDE DEF Upto, h
  <2> QED  BY <2>2, <2>6
<1>3. Cardinality(T) \in N
  <2>1. Nat \subseteq N
    <3> HIDE DEF N
    <3> QED  BY <1>1, <1>2, SetInduction
  <2> QED  BY <2>1, FS_CardinalityType
<1>4. PICK g \in [SUBSET T -> Int] : Upto(g, Cardinality(T))  BY <1>3
<1>5. \A s \in SUBSET T : Cardinality(s) <= Cardinality(T)  BY FS_Subset
<1>6. \A s \in SUBSET T : g[s] = Val(g, s)
  <2> HIDE DEF Val
  <2> QED  BY <1>4, <1>5
<1>7. g = [s \in SUBSET T |-> Val(g, s)]
  <2> HIDE DEF Val
  <2> QED  BY <1>6
<1> QED  BY <1>7 DEF IsSum

\* The equation has one solution.
LEMMA SumUnique ==
  ASSUME NEW f, NEW T, IsFiniteSet(T), NEW g, NEW h, IsSum(g, f, T), IsSum(h, f, T)
  PROVE  g = h
<1> DEFINE N == {n \in Nat : \A s \in SUBSET T : Cardinality(s) = n => g[s] = h[s]}
<1>g. /\ \A s \in SUBSET T : g[s] = IF s = {} THEN 0 ELSE f[Pick(s)] + g[s \ {Pick(s)}]
      /\ \A s \in SUBSET T : h[s] = IF s = {} THEN 0 ELSE f[Pick(s)] + h[s \ {Pick(s)}]
      /\ g = [s \in SUBSET T |-> g[s]] /\ h = [s \in SUBSET T |-> h[s]]
  <2>1. /\ \A s \in SUBSET T : g[s] = IF s = {} THEN 0 ELSE f[Pick(s)] + g[s \ {Pick(s)}]
        /\ g = [s \in SUBSET T |-> g[s]]
    BY DEF IsSum
  <2>2. /\ \A s \in SUBSET T : h[s] = IF s = {} THEN 0 ELSE f[Pick(s)] + h[s \ {Pick(s)}]
        /\ h = [s \in SUBSET T |-> h[s]]
    BY DEF IsSum
  <2> QED  BY <2>1, <2>2
<1>1. 0 \in N
  <2>1. \A s \in SUBSET T : Cardinality(s) = 0 => s = {}  BY FS_Subset, FS_EmptySet
  <2> QED  BY <2>1, <1>g
<1>2. ASSUME NEW n \in Nat, n \in N PROVE n + 1 \in N
  <2> SUFFICES ASSUME NEW s \in SUBSET T, Cardinality(s) = n + 1 PROVE g[s] = h[s]  OBVIOUS
  <2>1. s # {}
    <3>1. n + 1 # 0  BY <1>2
    <3> QED  BY <3>1, FS_EmptySet
  <2> DEFINE r == s \ {Pick(s)}
  <2>2. r \in SUBSET T /\ Cardinality(s) = Cardinality(r) + 1 /\ Cardinality(r) \in Nat
    BY <2>1, PickIn, PickSmaller
  <2>3. Cardinality(r) = n  BY <2>2
  <2>4. g[r] = h[r]  BY <1>2, <2>2, <2>3
  <2> QED  BY <1>g, <2>1, <2>4
<1>3. Nat \subseteq N
  <2> HIDE DEF N
  <2> QED  BY <1>1, <1>2, SetInduction
<1>4. \A s \in SUBSET T : Cardinality(s) \in Nat  BY FS_Subset, FS_CardinalityType
<1>5. \A s \in SUBSET T : g[s] = h[s]  BY <1>3, <1>4
<1> QED  BY <1>g, <1>5

\* Any element may be taken out first.
Takes(g, f, T) == \A s \in SUBSET T : \A x \in s : g[s] = f[x] + g[s \ {x}]

\* The sum does not depend on the order in which members are taken.
LEMMA SumOrder ==
  ASSUME NEW f, NEW T, IsFiniteSet(T), \A x \in T : f[x] \in Int,
         NEW g \in [SUBSET T -> Int], IsSum(g, f, T)
  PROVE  Takes(g, f, T)
<1> DEFINE N == {n \in Nat : \A s \in SUBSET T : Cardinality(s) = n =>
                                \A x \in s : g[s] = f[x] + g[s \ {x}]}
<1>g. \A s \in SUBSET T : s # {} => g[s] = f[Pick(s)] + g[s \ {Pick(s)}]
  BY DEF IsSum
<1>1. 0 \in N
  <2>1. \A s \in SUBSET T : Cardinality(s) = 0 => s = {}  BY FS_Subset, FS_EmptySet
  <2> QED  BY <2>1
<1>2. ASSUME NEW n \in Nat, n \in N PROVE n + 1 \in N
  <2> SUFFICES ASSUME NEW s \in SUBSET T, Cardinality(s) = n + 1, NEW x \in s
               PROVE  g[s] = f[x] + g[s \ {x}]
    OBVIOUS
  <2> DEFINE c == Pick(s)
             r == s \ {c}
             q == s \ {x}
  <2>1. c \in s /\ g[s] = f[c] + g[r]  BY <1>g, PickIn
  <2> HIDE DEF c
  <2>2. CASE x = c  BY <2>1, <2>2
  <2>3. CASE x # c
    <3>1. /\ r \in SUBSET T /\ Cardinality(r) \in Nat /\ Cardinality(s) = Cardinality(r) + 1
          /\ q \in SUBSET T /\ Cardinality(q) \in Nat /\ Cardinality(s) = Cardinality(q) + 1
      BY <2>1, PickSmaller
    <3>2. Cardinality(r) = n /\ Cardinality(q) = n  BY <3>1
    <3>3. x \in r /\ c \in q  BY <2>1, <2>3
    <3>4. g[r] = f[x] + g[r \ {x}] /\ g[q] = f[c] + g[q \ {c}]  BY <1>2, <3>1, <3>2, <3>3
    <3>5. r \ {x} = q \ {c} /\ q \ {c} \in SUBSET T  OBVIOUS
    <3>6. f[x] \in Int /\ f[c] \in Int /\ g[q \ {c}] \in Int  BY <2>1, <3>5
    <3>7. g[s] = f[c] + (f[x] + g[q \ {c}]) /\ g[q] = f[c] + g[q \ {c}]  BY <2>1, <3>4, <3>5
    <3> DEFINE a == f[c]
               b == f[x]
               d == g[q \ {c}]
    <3>8. a + (b + d) = b + (a + d)
      <4>1. a \in Int /\ b \in Int /\ d \in Int  BY <3>6
      <4> HIDE DEF a, b, d
      <4> QED  BY <4>1
    <3> QED  BY <3>7, <3>8
  <2> QED  BY <2>2, <2>3
<1>3. Nat \subseteq N
  <2> HIDE DEF N
  <2> QED  BY <1>1, <1>2, SetInduction
<1>4. \A s \in SUBSET T : Cardinality(s) \in Nat  BY FS_Subset, FS_CardinalityType
<1> QED  BY <1>3, <1>4 DEF Takes

\* The sum over a part is what the function of the whole says.
LEMMA SumPart ==
  ASSUME NEW f, NEW T, IsFiniteSet(T), NEW g, IsSum(g, f, T), NEW S \in SUBSET T
  PROVE  SumOver(f, S) = g[S]
<1> DEFINE h == [s \in SUBSET S |-> g[s]]
<1>1. \A s \in SUBSET S : s \in SUBSET T /\ s \ {Pick(s)} \in SUBSET S  OBVIOUS
<1>2. \A s \in SUBSET T : g[s] = IF s = {} THEN 0 ELSE f[Pick(s)] + g[s \ {Pick(s)}]
  BY DEF IsSum
<1>3. IsSum(h, f, S)  BY <1>1, <1>2 DEF IsSum
<1> HIDE DEF h
<1>4. IsSum(CHOOSE k : IsSum(k, f, S), f, S)  BY <1>3
<1>5. IsFiniteSet(S)  BY FS_Subset
<1>6. (CHOOSE k : IsSum(k, f, S)) = h  BY <1>3, <1>4, <1>5, SumUnique
<1> QED  BY <1>6, SumIs DEF h

\* The empty sum.
LEMMA SumEmpty == ASSUME NEW f PROVE SumOver(f, {}) = 0
<1>1. IsFiniteSet({})  BY FS_EmptySet
<1>2. PICK g \in [SUBSET {} -> Int] : IsSum(g, f, {})  BY <1>1, SumExists
<1>3. SumOver(f, {}) = g[{}]  BY <1>1, <1>2, SumPart
<1> QED  BY <1>2, <1>3 DEF IsSum

TakesOne(f, T, x) ==
  SumOver(f, T \ {x}) \in Int /\ SumOver(f, T) = f[x] + SumOver(f, T \ {x})

\* A member taken out of a sum.
LEMMA SumTake ==
  ASSUME NEW f, NEW T, IsFiniteSet(T), \A y \in T : f[y] \in Int, NEW x \in T
  PROVE  TakesOne(f, T, x)
<1>1. PICK g \in [SUBSET T -> Int] : IsSum(g, f, T)  BY SumExists
<1>2. Takes(g, f, T)  BY <1>1, SumOrder
<1>3. T \in SUBSET T /\ T \ {x} \in SUBSET T  OBVIOUS
<1>4. SumOver(f, T) = g[T] /\ SumOver(f, T \ {x}) = g[T \ {x}]  BY <1>1, <1>3, SumPart
<1>5. g[T \ {x}] \in Int /\ g[T] = f[x] + g[T \ {x}]  BY <1>1, <1>2, <1>3 DEF Takes
<1> QED  BY <1>4, <1>5 DEF TakesOne

\* A member added to a sum.
LEMMA SumAdd ==
  ASSUME NEW f, NEW S, IsFiniteSet(S), NEW x, x \notin S, \A y \in S \cup {x} : f[y] \in Int
  PROVE  /\ SumOver(f, S) \in Int
         /\ SumOver(f, S \cup {x}) = f[x] + SumOver(f, S)
<1> DEFINE T == S \cup {x}
<1>1. IsFiniteSet(T)  BY FS_AddElement
<1>2. T \ {x} = S /\ x \in T /\ \A y \in T : f[y] \in Int  OBVIOUS
<1> HIDE DEF T
<1>3. TakesOne(f, T, x)  BY <1>1, <1>2, SumTake
<1>4. SumOver(f, S) \in Int /\ SumOver(f, T) = f[x] + SumOver(f, S)  BY <1>2, <1>3 DEF TakesOne
<1> QED  BY <1>4 DEF T

\* Functions that agree have the same sum.
LEMMA SumSame ==
  ASSUME NEW f, NEW h, NEW S, IsFiniteSet(S), \A y \in S : f[y] = h[y] /\ f[y] \in Int
  PROVE  SumOver(f, S) = SumOver(h, S)
<1>1. PICK g \in [SUBSET S -> Int] : IsSum(g, f, S)  BY SumExists
<1>2. IsSum(g, h, S)
  <2>1. \A s \in SUBSET S : s # {} => f[Pick(s)] = h[Pick(s)]  BY PickIn
  <2> QED  BY <1>1, <2>1 DEF IsSum
<1> QED  BY <1>1, <1>2, SumPart

\* A sum of natural numbers is one.
LEMMA SumNat ==
  ASSUME NEW f, NEW T, IsFiniteSet(T), \A y \in T : f[y] \in Nat
  PROVE  SumOver(f, T) \in Nat
<1> DEFINE N == {n \in Nat : \A s \in SUBSET T : Cardinality(s) = n => SumOver(f, s) \in Nat}
<1>1. 0 \in N
  <2>1. \A s \in SUBSET T : Cardinality(s) = 0 => s = {}  BY FS_Subset, FS_EmptySet
  <2> QED  BY <2>1, SumEmpty
<1>2. ASSUME NEW n \in Nat, n \in N PROVE n + 1 \in N
  <2> SUFFICES ASSUME NEW s \in SUBSET T, Cardinality(s) = n + 1 PROVE SumOver(f, s) \in Nat
    OBVIOUS
  <2>1. s # {}
    <3>1. n + 1 # 0  BY <1>2
    <3> QED  BY <3>1, FS_EmptySet
  <2>2. PICK x \in s : TRUE  BY <2>1
  <2>3. /\ s \ {x} \in SUBSET T /\ Cardinality(s) = Cardinality(s \ {x}) + 1
        /\ Cardinality(s \ {x}) \in Nat
    BY PickSmaller
  <2>4. Cardinality(s \ {x}) = n  BY <2>3
  <2>5. SumOver(f, s \ {x}) \in Nat  BY <1>2, <2>3, <2>4
  <2>6. IsFiniteSet(s) /\ (\A y \in s : f[y] \in Int) /\ f[x] \in Nat  BY FS_Subset
  <2>7. SumOver(f, s) = f[x] + SumOver(f, s \ {x})
    <3>1. TakesOne(f, s, x)  BY <2>6, SumTake
    <3> QED  BY <3>1 DEF TakesOne
  <2> QED  BY <2>5, <2>6, <2>7
<1>3. Nat \subseteq N
  <2> HIDE DEF N
  <2> QED  BY <1>1, <1>2, SetInduction
<1>4. Cardinality(T) \in Nat  BY FS_CardinalityType
<1> QED  BY <1>3, <1>4

\* A sum of zeros.
LEMMA SumZero ==
  ASSUME NEW f, NEW T, IsFiniteSet(T), \A y \in T : f[y] = 0
  PROVE  SumOver(f, T) = 0
<1> DEFINE g == [s \in SUBSET T |-> 0]
<1>1. \A s \in SUBSET T : s # {} => f[Pick(s)] = 0 /\ s \ {Pick(s)} \in SUBSET T  BY PickIn
<1>2. \A s \in SUBSET T : g[s] = IF s = {} THEN 0 ELSE f[Pick(s)] + g[s \ {Pick(s)}]  BY <1>1
<1>3. IsSum(g, f, T)  BY <1>2 DEF IsSum
<1>4. SumOver(f, T) = g[T]
  <2> HIDE DEF g
  <2> QED  BY <1>3, SumPart
<1> QED  BY <1>4

-----------------------------------------------------------------------------
Locked == {"test", "wait", "grant"}

FlowType ==
  /\ pc \in [Procs -> {"idle", "test", "wait", "asleep", "awake", "grant", "held", "signal"}]
  /\ size \in [Procs -> 0..MaxSize] /\ current \in Int /\ waiters \in Seq(Procs)

FlowInv ==
  /\ calls = {"Acquire"}
  /\ FlowType
  /\ \A p \in Procs : pc[p] \in Locked => mu = p
  /\ \A p \in Procs : pc[p] = "grant" => current < MaxBytes
  /\ current < MaxBytes + MaxSize

\* A step of InCall keeps FlowInv: only AcquireGrant adds to the counter.
LEMMA FlowInCall ==
  ASSUME FlowInv, NEW p \in Procs, InCall(p)
  PROVE  FlowInv'
<1> USE FlowAssumption DEF FlowInv, FlowType, Goto, Locked
<1>1. CASE AcquireTest(p)
  BY <1>1 DEF AcquireTest
<1>2. CASE AcquireWait(p)
  BY <1>2, AppendProperties DEF AcquireWait
<1>3. CASE AcquireRelock(p)
  BY <1>3 DEF AcquireRelock
<1>4. CASE AcquireGrant(p)
  <2>1. \A q \in Procs : q # p => pc[q] \notin Locked
    BY <1>4 DEF AcquireGrant
  <2>2. current' < MaxBytes + MaxSize /\ current' \in Int
    BY <1>4 DEF AcquireGrant
  <2> QED
    BY <1>4, <2>1, <2>2 DEF AcquireGrant
<1>5. CASE NonBlockAdd(p)
  BY <1>5 DEF NonBlockAdd
<1>6. CASE Release(p)
  BY <1>6 DEF Release
<1>7. CASE Signal(p)
  <2>1. CASE waiters = <<>>
    BY <1>7, <2>1 DEF Signal
  <2>2. CASE waiters # <<>>
    <3>1. Head(waiters) \in Procs /\ Tail(waiters) \in Seq(Procs)
      BY <2>2, HeadTailProperties
    <3> QED
      BY <1>7, <2>2, <3>1 DEF Signal
  <2> QED
    BY <2>1, <2>2
<1> QED
  BY <1>1, <1>2, <1>3, <1>4, <1>5, <1>6, <1>7 DEF InCall

\* Every step keeps FlowInv, if AcquireNonBlock is not called.
LEMMA FlowStep ==
  ASSUME FlowInv, [Next]_vars
  PROVE  FlowInv'
<1>1. ASSUME NEW p \in Procs, NEW n \in Sizes, Acquire(p, n) PROVE FlowInv'
  BY <1>1, FlowAssumption DEF Acquire, FlowInv, FlowType, Goto, Locked
<1>2. ASSUME NEW p \in Procs, NEW n \in Sizes, AcquireNonBlock(p, n) PROVE FlowInv'
  BY <1>2 DEF AcquireNonBlock, FlowInv
<1>3. CASE UNCHANGED vars
  BY <1>3 DEF vars, FlowInv, FlowType
<1> QED
  BY <1>1, <1>2, <1>3, FlowInCall DEF Next

\* A program does not begin to use another call.
LEMMA CallsStay == [Next]_vars => calls' = calls
BY DEF Next, vars, InCall, Goto, Acquire, AcquireTest, AcquireWait, AcquireRelock,
       AcquireGrant, AcquireNonBlock, NonBlockAdd, Release, Signal

FlowKeep == calls = {"Acquire"} => FlowInv

\* While only Acquire is used, as in MineConn.WritePacket, the bytes admitted
\* exceed maxBytes by less than one packet, for any number of goroutines.
THEOREM Bounded == Spec => []OneOver
<1>1. Init => FlowKeep
  BY FlowAssumption DEF Init, FlowKeep, FlowInv, FlowType, Locked
<1>2. FlowKeep /\ [Next]_vars => FlowKeep'
  BY FlowStep, CallsStay DEF FlowKeep
<1>3. FlowKeep => OneOver
  BY DEF FlowKeep, FlowInv, OneOver
<1> QED
  BY <1>1, <1>2, <1>3, PTL DEF Spec

-----------------------------------------------------------------------------
FlowPcs == {"idle", "test", "wait", "asleep", "awake", "grant", "add", "held", "signal"}

\* Whoever waits is asleep and waits once, so that a Signal wakes a goroutine
\* that holds nothing.
Asleep(ws) ==
  /\ ws \in Seq(Procs)
  /\ \A i \in 1..Len(ws) : pc[ws[i]] = "asleep"
  /\ \A i, j \in 1..Len(ws) : ws[i] = ws[j] => i = j

AccountInv ==
  /\ calls \subseteq {"Acquire", "AcquireNonBlock"}
  /\ pc \in [Procs -> FlowPcs] /\ size \in [Procs -> 0..MaxSize] /\ mu \in Procs \cup {NoProc}
  /\ Asleep(waiters)
  /\ IsFiniteSet(Holders) /\ current = SumOver(size, Holders)

\* The counter moves by the size of the goroutine that begins or ends to hold.
LEMMA HoldersGrow ==
  ASSUME AccountInv, NEW p \in Procs, pc[p] # "held", Holders' = Holders \cup {p},
         current' = current + size[p], size' = size
  PROVE  IsFiniteSet(Holders') /\ current' = SumOver(size', Holders')
<1>1. p \notin Holders /\ Holders \subseteq Procs  BY DEF Holders
<1>2. \A q \in Holders \cup {p} : size[q] \in Int
  <2>1. \A q \in Procs : size[q] \in 0..MaxSize  BY DEF AccountInv
  <2> QED  BY <1>1, <2>1, FlowAssumption
<1>3. IsFiniteSet(Holders)  BY DEF AccountInv
<1>4. /\ SumOver(size, Holders) \in Int
      /\ SumOver(size, Holders \cup {p}) = size[p] + SumOver(size, Holders)
  BY <1>1, <1>2, <1>3, SumAdd
<1>5. size[p] \in Int  BY <1>2
<1>6. SumOver(size, Holders \cup {p}) = current + size[p]  BY <1>4, <1>5 DEF AccountInv
<1>7. IsFiniteSet(Holders \cup {p})  BY <1>3, FS_AddElement
<1> QED  BY <1>6, <1>7

\* A holder that releases its bytes takes its size out of the sum.
LEMMA HoldersShrink ==
  ASSUME AccountInv, NEW p \in Procs, pc[p] = "held", Holders' = Holders \ {p},
         current' = current - size[p], size' = size
  PROVE  IsFiniteSet(Holders') /\ current' = SumOver(size', Holders')
<1>1. p \in Holders /\ Holders \subseteq Procs  BY DEF Holders
<1>2. \A q \in Holders : size[q] \in Int
  <2>1. \A q \in Procs : size[q] \in 0..MaxSize  BY DEF AccountInv
  <2> QED  BY <1>1, <2>1, FlowAssumption
<1>3. IsFiniteSet(Holders)  BY DEF AccountInv
<1>4. /\ SumOver(size, Holders \ {p}) \in Int
      /\ SumOver(size, Holders) = size[p] + SumOver(size, Holders \ {p})
  <2>1. /\ IsFiniteSet(Holders \ {p}) /\ p \notin Holders \ {p}
        /\ (Holders \ {p}) \cup {p} = Holders
    BY <1>1, <1>3, FS_RemoveElement
  <2>2. \A q \in (Holders \ {p}) \cup {p} : size[q] \in Int  BY <1>2, <2>1
  <2> QED  BY <2>1, <2>2, SumAdd
<1>5. size[p] \in Int  BY <1>1, <1>2
<1>6. SumOver(size, Holders \ {p}) = current - size[p]  BY <1>4, <1>5 DEF AccountInv
<1>7. IsFiniteSet(Holders \ {p})  BY <1>3, FS_RemoveElement
<1> QED  BY <1>6, <1>7

\* A step that leaves alone who holds, and what they hold.
LEMMA HoldersStay ==
  ASSUME AccountInv, Holders' = Holders, current' = current,
         \A q \in Holders : size'[q] = size[q]
  PROVE  IsFiniteSet(Holders') /\ current' = SumOver(size', Holders')
<1>1. \A q \in Holders : size[q] \in Int
  <2>1. \A q \in Procs : size[q] \in 0..MaxSize  BY DEF AccountInv
  <2> QED  BY <2>1, FlowAssumption DEF Holders
<1>2. IsFiniteSet(Holders) /\ current = SumOver(size, Holders)  BY DEF AccountInv
<1>3. SumOver(size, Holders) = SumOver(size', Holders)  BY <1>1, <1>2, SumSame
<1> QED  BY <1>2, <1>3

\* One goroutine that is not asleep moves, and the queue stays as it is.
LEMMA MoveAlone ==
  ASSUME AccountInv, NEW p \in Procs, NEW from \in FlowPcs \ {"asleep"}, NEW to \in FlowPcs,
         Goto(p, from, to), waiters' = waiters
  PROVE  /\ pc' \in [Procs -> FlowPcs] /\ Asleep(waiters)' /\ calls' = calls /\ pc[p] = from
         /\ Holders' = (IF to = "held" THEN Holders \cup {p} ELSE Holders \ {p})
<1>1. pc[p] = from /\ pc' = [pc EXCEPT ![p] = to] /\ calls' = calls /\ pc \in [Procs -> FlowPcs]
  BY DEF Goto, AccountInv
<1>2. Asleep(waiters)'  BY <1>1 DEF AccountInv, Asleep
<1>3. Holders' = (IF to = "held" THEN Holders \cup {p} ELSE Holders \ {p})
  BY <1>1 DEF Holders
<1> QED  BY <1>1, <1>2, <1>3

\* Every step keeps current equal to the sum of what is held.
LEMMA AccountStep == AccountInv /\ [Next]_vars => AccountInv'
<1> SUFFICES ASSUME AccountInv, [Next]_vars PROVE AccountInv'  OBVIOUS
<1>t. /\ pc \in [Procs -> FlowPcs] /\ size \in [Procs -> 0..MaxSize] /\ mu \in Procs \cup {NoProc}
      /\ calls \subseteq {"Acquire", "AcquireNonBlock"}
  BY DEF AccountInv
<1>q. ASSUME NEW p \in Procs, NEW from \in FlowPcs \ {"asleep", "held"},
             NEW to \in FlowPcs \ {"held"}, Goto(p, from, to), UNCHANGED <<waiters, current>>,
             size' \in [Procs -> 0..MaxSize], \A q \in Procs \ {p} : size'[q] = size[q],
             mu' \in Procs \cup {NoProc}
      PROVE  AccountInv'
  <2>1. /\ pc' \in [Procs -> FlowPcs] /\ Asleep(waiters)' /\ calls' = calls /\ pc[p] = from
        /\ Holders' = Holders \ {p}
    BY <1>q, MoveAlone
  <2>2. p \notin Holders  BY <1>q, <2>1 DEF Holders
  <2>3. Holders' = Holders /\ \A q \in Holders : size'[q] = size[q]
    BY <1>q, <2>1, <2>2 DEF Holders
  <2>4. IsFiniteSet(Holders') /\ current' = SumOver(size', Holders')
    BY <1>q, <2>3, HoldersStay
  <2> QED  BY <1>q, <1>t, <2>1, <2>4 DEF AccountInv
<1>g. ASSUME NEW p \in Procs, NEW from \in {"grant", "add"}, Goto(p, from, "held"),
             current' = current + size[p], UNCHANGED <<size, waiters>>,
             mu' \in Procs \cup {NoProc}
      PROVE  AccountInv'
  <2>1. /\ pc' \in [Procs -> FlowPcs] /\ Asleep(waiters)' /\ calls' = calls /\ pc[p] = from
        /\ Holders' = Holders \cup {p}
    BY <1>g, MoveAlone DEF FlowPcs
  <2>2. IsFiniteSet(Holders') /\ current' = SumOver(size', Holders')
    BY <1>g, <2>1, HoldersGrow
  <2> QED  BY <1>g, <1>t, <2>1, <2>2 DEF AccountInv
<1>1. ASSUME NEW p \in Procs, NEW n \in Sizes, Acquire(p, n) \/ AcquireNonBlock(p, n)
      PROVE  AccountInv'
  <2>1. size' = [size EXCEPT ![p] = n] /\ n \in 0..MaxSize
    BY <1>1, FlowAssumption DEF Acquire, AcquireNonBlock
  <2>2. size' \in [Procs -> 0..MaxSize] /\ \A q \in Procs \ {p} : size'[q] = size[q]
    BY <1>t, <2>1
  <2> QED  BY <1>1, <1>q, <1>t, <2>2 DEF Acquire, AcquireNonBlock, FlowPcs
<1>2. ASSUME NEW p \in Procs, AcquireTest(p) PROVE AccountInv'
  <2>1. PICK to \in {"wait", "grant"} : Goto(p, "test", to)  BY <1>2 DEF AcquireTest
  <2> QED  BY <1>2, <1>q, <1>t, <2>1 DEF AcquireTest, FlowPcs
<1>3. ASSUME NEW p \in Procs, AcquireWait(p) PROVE AccountInv'
  <2>1. /\ pc[p] = "wait" /\ pc' = [pc EXCEPT ![p] = "asleep"] /\ calls' = calls
        /\ waiters' = Append(waiters, p) /\ mu' = NoProc /\ UNCHANGED <<size, current>>
    BY <1>3 DEF AcquireWait, Goto
  <2>2. pc' \in [Procs -> FlowPcs] /\ Holders' = Holders
    BY <1>t, <2>1 DEF FlowPcs, Holders
  <2>3. Asleep(waiters)'
    <3>1. /\ waiters \in Seq(Procs) /\ \A i \in 1..Len(waiters) : pc[waiters[i]] = "asleep"
          /\ \A i, j \in 1..Len(waiters) : waiters[i] = waiters[j] => i = j
      BY DEF AccountInv, Asleep
    <3>2. /\ waiters' \in Seq(Procs) /\ Len(waiters') = Len(waiters) + 1 /\ Len(waiters) \in Nat
          /\ waiters'[Len(waiters) + 1] = p
          /\ \A i \in 1..Len(waiters) : waiters'[i] = waiters[i]
      BY <2>1, <3>1
    <3>3. \A i \in 1..Len(waiters') : i = Len(waiters) + 1 \/ i \in 1..Len(waiters)  BY <3>2
    <3>4. \A i \in 1..Len(waiters) : waiters[i] # p /\ waiters[i] \in Procs  BY <2>1, <3>1
    <3>5. pc'[p] = "asleep" /\ \A q \in Procs \ {p} : pc'[q] = pc[q]  BY <1>t, <2>1
    <3>6. \A i \in 1..Len(waiters') : pc'[waiters'[i]] = "asleep"
      BY <3>1, <3>2, <3>3, <3>4, <3>5
    <3>7. \A i, j \in 1..Len(waiters') : waiters'[i] = waiters'[j] => i = j
      BY <3>1, <3>2, <3>3, <3>4
    <3> QED  BY <3>2, <3>6, <3>7 DEF Asleep
  <2>4. IsFiniteSet(Holders') /\ current' = SumOver(size', Holders')
    BY <2>1, <2>2, HoldersStay
  <2> QED  BY <1>t, <2>1, <2>2, <2>3, <2>4 DEF AccountInv
<1>4. ASSUME NEW p \in Procs, AcquireRelock(p) PROVE AccountInv'
  BY <1>4, <1>q, <1>t DEF AcquireRelock, FlowPcs
<1>5. ASSUME NEW p \in Procs, AcquireGrant(p) \/ NonBlockAdd(p) PROVE AccountInv'
  BY <1>5, <1>g, <1>t DEF AcquireGrant, NonBlockAdd
<1>6. ASSUME NEW p \in Procs, Release(p) PROVE AccountInv'
  <2>1. /\ Goto(p, "held", "signal") /\ current' = current - size[p]
        /\ UNCHANGED <<size, mu, waiters>>
    BY <1>6 DEF Release
  <2>2. /\ pc' \in [Procs -> FlowPcs] /\ Asleep(waiters)' /\ calls' = calls /\ pc[p] = "held"
        /\ Holders' = Holders \ {p}
    BY <2>1, MoveAlone DEF FlowPcs
  <2>3. IsFiniteSet(Holders') /\ current' = SumOver(size', Holders')
    BY <2>1, <2>2, HoldersShrink
  <2> QED  BY <1>t, <2>1, <2>2, <2>3 DEF AccountInv
<1>7. ASSUME NEW p \in Procs, Signal(p) PROVE AccountInv'
  <2>1. CASE waiters = <<>>
    <3>1. Goto(p, "signal", "idle") /\ UNCHANGED <<waiters, current, size, mu>>
      BY <1>7, <2>1 DEF Signal, Goto
    <3> QED  BY <1>q, <1>t, <3>1 DEF FlowPcs
  <2>2. CASE waiters # <<>>
    <3> DEFINE h == Head(waiters)
    <3>1. /\ pc[p] = "signal" /\ pc' = [pc EXCEPT ![p] = "idle", ![h] = "awake"]
          /\ waiters' = Tail(waiters) /\ UNCHANGED <<calls, size, current, mu>>
      BY <1>7, <2>2 DEF Signal
    <3>2. /\ waiters \in Seq(Procs) /\ \A i \in 1..Len(waiters) : pc[waiters[i]] = "asleep"
          /\ \A i, j \in 1..Len(waiters) : waiters[i] = waiters[j] => i = j
      BY DEF AccountInv, Asleep
    <3>3. /\ Len(waiters) \in Nat /\ Len(waiters) >= 1 /\ h = waiters[1]
          /\ waiters' \in Seq(Procs) /\ Len(waiters') = Len(waiters) - 1
          /\ \A i \in 1..Len(waiters') : waiters'[i] = waiters[i + 1]
      BY <2>2, <3>1, <3>2
    <3> HIDE DEF h
    <3>4. h \in Procs /\ pc[h] = "asleep" /\ h # p  BY <3>1, <3>2, <3>3
    <3>5. /\ pc' \in [Procs -> FlowPcs] /\ pc'[p] = "idle" /\ pc'[h] = "awake"
          /\ \A q \in Procs \ {p, h} : pc'[q] = pc[q]
      BY <1>t, <3>1, <3>4 DEF FlowPcs
    <3>6. Holders' = Holders  BY <3>1, <3>4, <3>5 DEF Holders
    <3>7. Asleep(waiters)'
      <4>1. \A i \in 1..Len(waiters') : i + 1 \in 1..Len(waiters) /\ i + 1 # 1  BY <3>3
      <4>2. \A i \in 1..Len(waiters') : /\ waiters'[i] # h /\ waiters'[i] \in Procs
                                        /\ pc[waiters'[i]] = "asleep"
        BY <3>2, <3>3, <4>1
      <4>3. \A i \in 1..Len(waiters') : pc'[waiters'[i]] = "asleep"
        BY <3>1, <3>5, <4>2
      <4>4. \A i, j \in 1..Len(waiters') : waiters'[i] = waiters'[j] => i = j
        <5> SUFFICES ASSUME NEW i \in 1..Len(waiters'), NEW j \in 1..Len(waiters'),
                            waiters'[i] = waiters'[j]
                     PROVE  i = j
          OBVIOUS
        <5>1. i + 1 = j + 1  BY <3>2, <3>3, <4>1
        <5>2. i \in Int /\ j \in Int  OBVIOUS
        <5> QED  BY <5>1, <5>2
      <4> QED  BY <3>3, <4>3, <4>4 DEF Asleep
    <3>8. IsFiniteSet(Holders') /\ current' = SumOver(size', Holders')
      BY <3>1, <3>6, HoldersStay
    <3> QED  BY <1>t, <3>1, <3>5, <3>7, <3>8 DEF AccountInv
  <2> QED  BY <2>1, <2>2
<1>8. CASE UNCHANGED vars
  <2>1. Holders' = Holders  BY <1>8 DEF vars, Holders
  <2> QED  BY <1>8, <2>1 DEF vars, AccountInv, Asleep
<1> QED
  BY <1>1, <1>2, <1>3, <1>4, <1>5, <1>6, <1>7, <1>8 DEF Next, InCall

\* At the start nothing is held.
LEMMA AccountInit == Init => AccountInv
<1> SUFFICES ASSUME Init PROVE AccountInv  OBVIOUS
<1>1. Holders = {}  BY DEF Init, Holders
<1>2. IsFiniteSet({}) /\ SumOver(size, {}) = 0  BY SumEmpty, FS_EmptySet
<1>3. Asleep(waiters)  BY DEF Init, Asleep
<1> QED  BY <1>1, <1>2, <1>3, FlowAssumption DEF Init, AccountInv, FlowPcs

\* FlowController.current is the number of bytes of the packets being written, however
\* the calls of Acquire, AcquireNonBlock and Release interleave (flow.go:34-59): for any
\* set of goroutines, any sizes and any limit.
THEOREM CountsHeldBytes == Spec => []Accounting
<1>1. AccountInv => Accounting  BY DEF AccountInv, Accounting, SumOver
<1> QED  BY <1>1, AccountInit, AccountStep, PTL DEF Spec

\* The variables have their types; in particular current is never negative, although
\* Release subtracts without a test (flow.go:56-59).
THEOREM FlowTyped == Spec => []TypeOK
<1>1. AccountInv => TypeOK
  <2> SUFFICES ASSUME AccountInv PROVE TypeOK  OBVIOUS
  <2>1. \A q \in Holders : size[q] \in Nat
    <3>1. \A q \in Procs : size[q] \in 0..MaxSize  BY DEF AccountInv
    <3> QED  BY <3>1, FlowAssumption DEF Holders
  <2>2. current \in Nat  BY <2>1, SumNat DEF AccountInv
  <2> QED  BY <2>2 DEF AccountInv, TypeOK, FlowPcs, Asleep
<1> QED  BY <1>1, AccountInit, AccountStep, PTL DEF Spec

-----------------------------------------------------------------------------
MtPcs == {"idle", "bytes", "average", "count", "hist"}
Timing == {"average", "count", "hist"}
Reading == {p \in Recorders : mtPc[p] = "bytes"}
Smallest == Min(ReadSizes)

MetricRecord == [read: Nat, bytes: Nat, avg: Int, count: Nat, hist: [Buckets -> Nat],
                 samples: SUBSET Int]
MetricType ==
  /\ mt \in MetricRecord /\ IsFiniteSet(mt.samples)
  /\ mtPc \in [Recorders \cup {"reset"} -> MtPcs]
  /\ mtArg \in [Recorders -> Int] /\ mtLoad \in [Recorders -> Nat]
  /\ mtMu \in BOOLEAN /\ mtRaced \in BOOLEAN
  /\ mtSnap \in [pc: {"idle", "bytes", "done"}, read: Nat, bytes: Nat]
  /\ \A p \in Reading : mtArg[p] \in ReadSizes

\* One call of RecordLatency at a time is past the lock.
MutexOK ==
  /\ \A p \in Recorders : mtPc[p] \in Timing => mtMu
  /\ \A p, q \in Recorders : mtPc[p] \in Timing /\ mtPc[q] \in Timing => p = q

\* What a Reset that nothing overlaps has done so far.
ResetOK ==
  ~mtRaced /\ mtPc["reset"] # "idle" =>
    /\ ~Busy /\ mtSnap.pc = "idle" /\ mt.read = 0
    /\ mtPc["reset"] # "bytes" => mt.bytes = 0
    /\ mtPc["reset"] = "hist" => mt.count = 0 /\ mt.samples = {}

Between(avg, S) == \E lo, hi \in S : lo <= avg /\ avg <= hi
Counted == \A p \in Recorders : mtPc[p] # "count"
Filed == \A p \in Recorders : mtPc[p] # "hist"

\* The histogram is behind the count while a call is between the two, the average
\* ahead of the samples while a call is before the count, and the bytes behind the
\* packets by those of the calls between the two.
LatencyOK ==
  /\ mt.count = SumOver(mt.hist, Buckets) + (IF Filed THEN 0 ELSE 1)
  /\ mt.count = 0 <=> mt.samples = {}
  /\ \A p \in Recorders : mtPc[p] = "average" => mtLoad[p] = mt.count
  /\ Counted /\ mt.samples # {} => Between(mt.avg, mt.samples)
  /\ \A p \in Recorders : mtPc[p] = "count" => Between(mt.avg, mt.samples \cup {mtArg[p]})
BytesOK ==
  /\ mt.bytes >= (mt.read - Cardinality(Reading)) * Smallest
  /\ mtSnap.pc = "bytes" => mtSnap.read <= mt.read
  /\ mtSnap.pc = "done" => mtSnap.bytes >= (mtSnap.read - Cardinality(Recorders)) * Smallest

MetricInv ==
  /\ MetricType /\ MutexOK /\ ResetOK
  /\ ~mtRaced /\ mtPc["reset"] = "idle" => LatencyOK /\ BytesOK

-----------------------------------------------------------------------------
\* A part of a set of seven members has at most seven.
LEMMA AtMostSeven ==
  ASSUME NEW a, NEW b, NEW c, NEW d, NEW e, NEW f, NEW g, NEW S, S \subseteq {a, b, c, d, e, f, g}
  PROVE  Cardinality(S) \in 0..7
<1> DEFINE T == {a, b, c, d, e, f, g}
           t == [i \in 1..7 |-> IF i = 1 THEN a ELSE IF i = 2 THEN b ELSE IF i = 3 THEN c
                                ELSE IF i = 4 THEN d ELSE IF i = 5 THEN e ELSE IF i = 6 THEN f ELSE g]
<1>1. IsFiniteSet(1..7) /\ Cardinality(1..7) = 7
  <2>1. 1 \in Int /\ 7 \in Int /\ ~(1 > 7) /\ 7 - 1 + 1 = 7  OBVIOUS
  <2>2. /\ IsFiniteSet(1..7)
        /\ Cardinality(1..7) = IF 1 > 7 THEN 0 ELSE 7 - 1 + 1
    BY <2>1, FS_Interval, Zenon
  <2> QED  BY <2>1, <2>2, Zenon
<1>2. t \in Surjection(1..7, T)
  <2>1. t \in [1..7 -> T]  OBVIOUS
  <2>2. t[1] = a /\ t[2] = b /\ t[3] = c /\ t[4] = d /\ t[5] = e /\ t[6] = f /\ t[7] = g  OBVIOUS
  <2>3. 1 \in 1..7 /\ 2 \in 1..7 /\ 3 \in 1..7 /\ 4 \in 1..7 /\ 5 \in 1..7 /\ 6 \in 1..7 /\ 7 \in 1..7
    OBVIOUS
  <2> HIDE DEF t
  <2>4. \A y \in T : \E i \in 1..7 : t[i] = y  BY <2>2, <2>3, Zenon
  <2> HIDE DEF T
  <2> QED  BY <2>1, <2>4, Zenon DEF Surjection
<1> HIDE DEF t
<1>3. IsFiniteSet(T) /\ Cardinality(T) <= 7
  <2> HIDE DEF T
  <2> QED  BY <1>1, <1>2, FS_Surjection
<1>4. S \subseteq T  OBVIOUS
<1> HIDE DEF T
<1>5. IsFiniteSet(S) /\ Cardinality(S) <= Cardinality(T)  BY <1>3, <1>4, FS_Subset
<1>6. Cardinality(S) \in Nat /\ Cardinality(T) \in Nat  BY <1>3, <1>5, FS_CardinalityType
<1> QED  BY <1>3, <1>5, <1>6

\* Every latency has a bucket.
LEMMA BucketType == ASSUME NEW ns PROVE Bucket(ns) \in Buckets
<1> DEFINE a == 10^3
           b == 10^4
           c == 10^5
           d == 10^6
           e == 10^7
           f == 10^8
           g == 5 * 10^8
           S == {t \in {a, b, c, d, e, f, g} : ns >= t}
<1>1. Bucket(ns) = Cardinality(S)  BY DEF Bucket
<1>2. S \subseteq {a, b, c, d, e, f, g}  OBVIOUS
<1> HIDE DEF S, a, b, c, d, e, f, g
<1>3. Cardinality(S) \in 0..7  BY <1>2, AtMostSeven
<1> QED  BY <1>1, <1>3 DEF Buckets

\* A sample in a bucket adds one to the sum of the histogram.
LEMMA HistAdd ==
  ASSUME NEW h \in [Buckets -> Nat], NEW b \in Buckets
  PROVE  /\ SumOver([h EXCEPT ![b] = @ + 1], Buckets) = SumOver(h, Buckets) + 1
         /\ SumOver(h, Buckets) \in Nat
<1> DEFINE k == [h EXCEPT ![b] = @ + 1]
           R == Buckets \ {b}
<1>1. IsFiniteSet(Buckets)
  <2>1. 0 \in Int /\ 7 \in Int  OBVIOUS
  <2>2. IsFiniteSet(0..7)  BY <2>1, FS_Interval, Zenon
  <2> QED  BY <2>2 DEF Buckets
<1>2. k \in [Buckets -> Nat] /\ k[b] = h[b] + 1 /\ \A c \in R : k[c] = h[c]  OBVIOUS
<1>3. (\A c \in Buckets : h[c] \in Int) /\ (\A c \in Buckets : h[c] \in Nat) /\ h[b] \in Int  OBVIOUS
<1>4. (\A c \in Buckets : k[c] \in Int) /\ IsFiniteSet(R)  BY <1>1, <1>2, FS_RemoveElement
<1>5. (\A c \in R : k[c] = h[c] /\ k[c] \in Int) /\ R \subseteq Buckets  BY <1>2, <1>4
<1> HIDE DEF k
<1>6. SumOver(h, R) \in Int /\ SumOver(h, Buckets) = h[b] + SumOver(h, R)
  <2>1. TakesOne(h, Buckets, b)  BY <1>1, <1>3, SumTake
  <2> QED  BY <2>1 DEF TakesOne
<1>7. SumOver(k, R) \in Int /\ SumOver(k, Buckets) = k[b] + SumOver(k, R)
  <2>1. TakesOne(k, Buckets, b)  BY <1>1, <1>4, SumTake
  <2> QED  BY <2>1 DEF TakesOne
<1>8. SumOver(k, R) = SumOver(h, R)
  <2> HIDE DEF R
  <2> QED  BY <1>4, <1>5, SumSame
<1>9. SumOver(h, Buckets) \in Nat  BY <1>1, <1>3, SumNat
<1>10. SumOver(k, Buckets) = SumOver(h, Buckets) + 1
  <2> HIDE DEF R
  <2> QED  BY <1>2, <1>3, <1>6, <1>7, <1>8
<1> QED  BY <1>9, <1>10 DEF k

\* Dividing what is between zero and a number keeps it there.
LEMMA DivBetween ==
  ASSUME NEW a \in Nat, NEW n \in Nat, n >= 1
  PROVE  a \div n \in Nat /\ a \div n <= a
OBVIOUS

\* The running average moves towards the sample, and not past it.
LEMMA AverageBetween ==
  ASSUME NEW avg \in Int, NEW x \in Int, NEW n \in Nat, n >= 1
  PROVE  /\ avg + Quotient(x - avg, n) \in Int
         /\ avg <= x => avg <= avg + Quotient(x - avg, n) /\ avg + Quotient(x - avg, n) <= x
         /\ x <= avg => x <= avg + Quotient(x - avg, n) /\ avg + Quotient(x - avg, n) <= avg
<1>1. CASE x >= avg
  <2> DEFINE q == (x - avg) \div n
  <2>1. q \in Nat /\ q <= x - avg  BY <1>1, DivBetween
  <2>2. Quotient(x - avg, n) = q  BY <1>1 DEF Quotient
  <2> HIDE DEF q
  <2>3. x = avg => q = 0  BY <2>1
  <2> QED  BY <1>1, <2>1, <2>2, <2>3
<1>2. CASE x < avg
  <2> DEFINE q == (-(x - avg)) \div n
  <2>1. -(x - avg) \in Nat /\ -(x - avg) = avg - x  BY <1>2
  <2>2. q \in Nat /\ q <= avg - x  BY <2>1, DivBetween
  <2>3. Quotient(x - avg, n) = -q  BY <1>2 DEF Quotient
  <2> HIDE DEF q
  <2> QED  BY <1>2, <2>2, <2>3
<1> QED  BY <1>1, <1>2

\* Multiplication by a size is monotone.
LEMMA Products ==
  ASSUME NEW a \in Int, NEW b \in Int, NEW m \in Nat
  PROVE  (a + 1) * m = a * m + m /\ a * m \in Int /\ (a <= b => a * m <= b * m)
OBVIOUS

\* The least size of a packet.
LEMMA SmallestSize == Smallest \in Nat /\ \A n \in ReadSizes : n \in Nat /\ Smallest <= n
<1>1. \E x \in ReadSizes : \A y \in ReadSizes : x <= y  BY MetricAssumption, LeastNat
<1> QED  BY <1>1, MetricAssumption DEF Smallest, Min
-----------------------------------------------------------------------------
\* A recorder moves.
LEMMA RecorderMoves ==
  ASSUME MetricType, NEW p \in Recorders, NEW from \in MtPcs, NEW to \in MtPcs, MtGoto(p, from, to)
  PROVE  /\ mtPc' \in [Recorders \cup {"reset"} -> MtPcs]
         /\ mtPc[p] = from /\ mtPc'[p] = to
         /\ \A q \in Recorders \ {p} : mtPc'[q] = mtPc[q]
         /\ mtPc'["reset"] = mtPc["reset"]
         /\ Reading' = (IF to = "bytes" THEN Reading \cup {p} ELSE Reading \ {p})
<1>1. mtPc \in [Recorders \cup {"reset"} -> MtPcs] /\ mtPc[p] = from
      /\ mtPc' = [mtPc EXCEPT ![p] = to]
  BY DEF MetricType, MtGoto
<1>2. p # "reset"  BY MetricAssumption
<1>3. \A q \in Recorders \ {p} : mtPc'[q] = mtPc[q]  BY <1>1
<1>4. mtPc'[p] = to  BY <1>1
<1>5. Reading' = (IF to = "bytes" THEN Reading \cup {p} ELSE Reading \ {p})
  BY <1>3, <1>4 DEF Reading
<1> QED  BY <1>1, <1>2, <1>3, <1>4, <1>5

\* The parts of the invariant that a step of a recorder keeps whatever it records.
LEMMA RecorderKeeps ==
  ASSUME MetricInv, NEW p \in Recorders, NEW from \in MtPcs, NEW to \in MtPcs, MtGoto(p, from, to),
         \/ from # "idle" /\ mtRaced' = mtRaced
         \/ from = "idle" /\ mtRaced' = (mtRaced \/ mtPc["reset"] # "idle")
  PROVE  /\ ResetOK' /\ mtRaced' \in BOOLEAN
         /\ ~mtRaced' => ~mtRaced /\ mtPc["reset"] = "idle"
<1>1. mtPc[p] = from /\ mtPc'["reset"] = mtPc["reset"] /\ mtRaced \in BOOLEAN
  BY RecorderMoves DEF MetricInv, MetricType
<1>2. from # "idle" => Busy  BY <1>1 DEF Busy
<1>3. ~mtRaced' => ~mtRaced /\ mtPc["reset"] = "idle"
  BY <1>1, <1>2 DEF MetricInv, ResetOK
<1> QED  BY <1>1, <1>3 DEF ResetOK

\* The mutex: a recorder that does not enter or leave.
LEMMA MutexKeeps ==
  ASSUME MetricInv, NEW p \in Recorders, NEW from \in MtPcs, NEW to \in MtPcs, MtGoto(p, from, to),
         mtMu' = mtMu, to \in Timing => from \in Timing
  PROVE  MutexOK'
<1>1. mtPc[p] = from /\ mtPc'[p] = to /\ \A q \in Recorders \ {p} : mtPc'[q] = mtPc[q]
  BY RecorderMoves DEF MetricInv
<1>2. MutexOK  BY DEF MetricInv
<1> QED  BY <1>1, <1>2 DEF MutexOK

\* The latency part, if nothing it is about has changed.
LEMMA LatencyKeeps ==
  ASSUME LatencyOK, mt'.count = mt.count, mt'.hist = mt.hist, mt'.avg = mt.avg,
         mt'.samples = mt.samples,
         \A q \in Recorders : \/ mtPc'[q] = mtPc[q] /\ mtArg'[q] = mtArg[q] /\ mtLoad'[q] = mtLoad[q]
                              \/ mtPc[q] \notin Timing /\ mtPc'[q] \notin Timing
  PROVE  LatencyOK'
<1>1. Filed' <=> Filed  BY DEF Filed, Timing
<1>2. Counted' <=> Counted  BY DEF Counted, Timing
<1>3. \A q \in Recorders : mtPc'[q] = "average" => mtLoad'[q] = mt'.count
  BY DEF LatencyOK, Timing
<1>4. \A q \in Recorders : mtPc'[q] = "count" => Between(mt'.avg, mt'.samples \cup {mtArg'[q]})
  BY DEF LatencyOK, Timing
<1>5. Between(mt.avg, mt.samples)' <=> Between(mt.avg, mt.samples)  BY DEF Between
<1>6. \A q \in Recorders : mtPc'[q] = "count" => Between(mt.avg, mt.samples \cup {mtArg[q]})'
  BY <1>4 DEF Between
<1> QED  BY <1>1, <1>2, <1>3, <1>5, <1>6 DEF LatencyOK

\* The byte part, if nothing it is about has changed.
LEMMA BytesKeep ==
  ASSUME BytesOK, mt'.bytes = mt.bytes, mt'.read = mt.read, Reading' = Reading, mtSnap' = mtSnap
  PROVE  BytesOK'
BY DEF BytesOK

\* The calls between their two counters are at most as many as the recorders.
LEMMA ReadingSize ==
  /\ IsFiniteSet(Reading) /\ Cardinality(Reading) \in Nat /\ Cardinality(Recorders) \in Nat
  /\ Cardinality(Reading) <= Cardinality(Recorders)
<1>1. Reading \subseteq Recorders /\ IsFiniteSet(Recorders)  BY MetricAssumption DEF Reading
<1>2. IsFiniteSet(Reading) /\ Cardinality(Reading) <= Cardinality(Recorders)  BY <1>1, FS_Subset
<1> QED  BY <1>1, <1>2, FS_CardinalityType

\* RecordRead counts the packet: one more call is between the two counters.
LEMMA ReadStep ==
  ASSUME MetricInv, NEW p \in Recorders, NEW n \in ReadSizes, RecordRead(p, n)
  PROVE  MetricInv'
<1>t. MetricType  BY DEF MetricInv
<1>1. /\ MtGoto(p, "idle", "bytes") /\ mtArg' = [mtArg EXCEPT ![p] = n]
      /\ mtRaced' = (mtRaced \/ mtPc["reset"] # "idle")
      /\ mt' = [mt EXCEPT !.read = @ + 1] /\ UNCHANGED <<mtLoad, mtMu, mtSnap>>
  BY DEF RecordRead, Begin
<1>2. /\ mtPc' \in [Recorders \cup {"reset"} -> MtPcs]
      /\ mtPc[p] = "idle" /\ mtPc'[p] = "bytes"
      /\ \A q \in Recorders \ {p} : mtPc'[q] = mtPc[q]
      /\ mtPc'["reset"] = mtPc["reset"] /\ Reading' = Reading \cup {p}
  BY <1>t, <1>1, RecorderMoves DEF MtPcs
<1>3. /\ ResetOK' /\ mtRaced' \in BOOLEAN
      /\ ~mtRaced' => ~mtRaced /\ mtPc["reset"] = "idle"
  BY <1>1, RecorderKeeps DEF MtPcs
<1>4. MutexOK'  BY <1>1, MutexKeeps DEF MtPcs, Timing
<1>5. /\ mt' \in MetricRecord /\ mt'.read = mt.read + 1 /\ mt'.bytes = mt.bytes
      /\ mt'.count = mt.count /\ mt'.hist = mt.hist /\ mt'.avg = mt.avg /\ mt'.samples = mt.samples
      /\ mt.read \in Nat /\ mt.bytes \in Nat
  BY <1>t, <1>1 DEF MetricType, MetricRecord
<1>6. /\ mtArg' \in [Recorders -> Int] /\ mtArg'[p] = n
      /\ \A q \in Recorders \ {p} : mtArg'[q] = mtArg[q]
  <2>1. n \in Int /\ mtArg \in [Recorders -> Int]  BY <1>t, MetricAssumption DEF MetricType
  <2> QED  BY <1>1, <2>1
<1>7. MetricType'
  <2>1. \A q \in Reading' : mtArg'[q] \in ReadSizes
    BY <1>t, <1>2, <1>6 DEF MetricType, Reading
  <2> QED  BY <1>t, <1>1, <1>2, <1>3, <1>5, <1>6, <2>1 DEF MetricType
<1>8. ASSUME LatencyOK PROVE LatencyOK'
  BY <1>8, <1>1, <1>2, <1>5, <1>6, LatencyKeeps DEF Timing
<1>9. ASSUME BytesOK PROVE BytesOK'
  <2>1. p \notin Reading  BY <1>2 DEF Reading
  <2>2. Cardinality(Reading') = Cardinality(Reading) + 1  BY <1>2, <2>1, ReadingSize, FS_AddElement
  <2>3. mt'.read - Cardinality(Reading') = mt.read - Cardinality(Reading)
    BY <1>5, <2>2, ReadingSize
  <2>4. mtSnap \in [pc: {"idle", "bytes", "done"}, read: Nat, bytes: Nat]  BY <1>t DEF MetricType
  <2>5. mtSnap.pc = "bytes" => mtSnap.read <= mt'.read
    <3>1. mtSnap.pc = "bytes" => mtSnap.read <= mt.read  BY <1>9 DEF BytesOK
    <3>2. mtSnap.read \in Nat  BY <2>4
    <3> QED  BY <1>5, <3>1, <3>2
  <2> QED  BY <1>1, <1>5, <1>9, <2>3, <2>5 DEF BytesOK
<1> QED  BY <1>2, <1>3, <1>4, <1>7, <1>8, <1>9 DEF MetricInv

\* RecordRead counts the bytes: at least the least size.
LEMMA BytesStep ==
  ASSUME MetricInv, NEW p \in Recorders, RecordBytes(p)
  PROVE  MetricInv'
<1>t. MetricType  BY DEF MetricInv
<1>1. /\ MtGoto(p, "bytes", "idle") /\ mtArg' = [mtArg EXCEPT ![p] = 0]
      /\ mt' = [mt EXCEPT !.bytes = @ + mtArg[p]] /\ UNCHANGED <<mtLoad, mtMu, mtRaced, mtSnap>>
  BY DEF RecordBytes
<1>2. /\ mtPc' \in [Recorders \cup {"reset"} -> MtPcs]
      /\ mtPc[p] = "bytes" /\ mtPc'[p] = "idle"
      /\ \A q \in Recorders \ {p} : mtPc'[q] = mtPc[q]
      /\ mtPc'["reset"] = mtPc["reset"] /\ Reading' = Reading \ {p}
  BY <1>t, <1>1, RecorderMoves DEF MtPcs
<1>3. /\ ResetOK' /\ mtRaced' \in BOOLEAN
      /\ ~mtRaced' => ~mtRaced /\ mtPc["reset"] = "idle"
  BY <1>1, RecorderKeeps DEF MtPcs
<1>4. MutexOK'  BY <1>1, MutexKeeps DEF MtPcs, Timing
<1>a. mtArg[p] \in ReadSizes  BY <1>t, <1>2 DEF MetricType, Reading
<1>b. mtArg[p] \in Nat /\ Smallest \in Nat /\ Smallest <= mtArg[p]  BY <1>a, SmallestSize
<1>c. mt \in MetricRecord /\ mt.bytes \in Nat /\ mt.read \in Nat  BY <1>t DEF MetricType, MetricRecord
<1>d. mt.bytes + mtArg[p] \in Nat  BY <1>b, <1>c
<1>5. /\ mt' \in MetricRecord /\ mt'.read = mt.read /\ mt'.bytes = mt.bytes + mtArg[p]
      /\ mt'.count = mt.count /\ mt'.hist = mt.hist /\ mt'.avg = mt.avg /\ mt'.samples = mt.samples
  BY <1>1, <1>c, <1>d DEF MetricRecord
<1>6. mtArg' \in [Recorders -> Int] /\ \A q \in Recorders \ {p} : mtArg'[q] = mtArg[q]
  BY <1>t, <1>1 DEF MetricType
<1>7. MetricType'
  <2>1. \A q \in Reading' : mtArg'[q] \in ReadSizes
    BY <1>t, <1>2, <1>6 DEF MetricType, Reading
  <2> QED  BY <1>t, <1>1, <1>2, <1>5, <1>6, <2>1 DEF MetricType
<1>8. ASSUME LatencyOK PROVE LatencyOK'
  BY <1>8, <1>1, <1>2, <1>5, <1>6, LatencyKeeps DEF Timing
<1>9. ASSUME BytesOK PROVE BytesOK'
  <2> DEFINE a == mt.read - Cardinality(Reading)
  <2>1. p \in Reading  BY <1>2 DEF Reading
  <2>2. Cardinality(Reading') = Cardinality(Reading) - 1
    BY <1>2, <2>1, ReadingSize, FS_RemoveElement
  <2>3. mt'.read - Cardinality(Reading') = a + 1 /\ a \in Int  BY <1>c, <1>5, <2>2, ReadingSize
  <2>4. mt.bytes >= a * Smallest  BY <1>9 DEF BytesOK
  <2> HIDE DEF a
  <2>5. (a + 1) * Smallest = a * Smallest + Smallest /\ a * Smallest \in Int
    BY <1>b, <2>3, Products
  <2>6. mt'.bytes >= (a + 1) * Smallest  BY <1>b, <1>c, <1>5, <2>4, <2>5
  <2> QED  BY <1>1, <1>5, <1>9, <2>3, <2>6 DEF BytesOK
<1> QED  BY <1>2, <1>3, <1>4, <1>7, <1>8, <1>9 DEF MetricInv

\* RecordLatency takes the mutex and loads the count.
LEMMA LatencyStep ==
  ASSUME MetricInv, NEW p \in Recorders, NEW ns \in Latencies, RecordLatency(p, ns)
  PROVE  MetricInv'
<1>t. MetricType  BY DEF MetricInv
<1>1. /\ MtGoto(p, "idle", "average") /\ mtArg' = [mtArg EXCEPT ![p] = ns]
      /\ mtRaced' = (mtRaced \/ mtPc["reset"] # "idle") /\ ~mtMu /\ mtMu' = TRUE
      /\ mtLoad' = [mtLoad EXCEPT ![p] = mt.count] /\ UNCHANGED <<mt, mtSnap>>
  BY DEF RecordLatency, Begin
<1>2. /\ mtPc' \in [Recorders \cup {"reset"} -> MtPcs]
      /\ mtPc[p] = "idle" /\ mtPc'[p] = "average"
      /\ \A q \in Recorders \ {p} : mtPc'[q] = mtPc[q]
      /\ mtPc'["reset"] = mtPc["reset"] /\ Reading' = Reading \ {p}
  BY <1>t, <1>1, RecorderMoves DEF MtPcs
<1>3. /\ ResetOK' /\ mtRaced' \in BOOLEAN
      /\ ~mtRaced' => ~mtRaced /\ mtPc["reset"] = "idle"
  BY <1>1, RecorderKeeps DEF MtPcs
<1>4. \A q \in Recorders : mtPc[q] \notin Timing  BY <1>1 DEF MetricInv, MutexOK
<1>5. MutexOK'  BY <1>1, <1>2, <1>4 DEF MutexOK
<1>6. /\ mtArg' \in [Recorders -> Int] /\ mtLoad' \in [Recorders -> Nat]
      /\ mtLoad'[p] = mt.count /\ \A q \in Recorders \ {p} : mtArg'[q] = mtArg[q]
  <2>1. ns \in Int /\ mt.count \in Nat /\ mtArg \in [Recorders -> Int] /\ mtLoad \in [Recorders -> Nat]
    BY <1>t, MetricAssumption DEF MetricType, MetricRecord
  <2> QED  BY <1>1, <2>1
<1>7. Reading' = Reading  BY <1>2 DEF Reading
<1>8. MetricType'
  <2>1. \A q \in Reading' : mtArg'[q] \in ReadSizes
    BY <1>t, <1>2, <1>6 DEF MetricType, Reading
  <2> QED  BY <1>t, <1>1, <1>2, <1>3, <1>6, <2>1 DEF MetricType
<1>9. ASSUME LatencyOK PROVE LatencyOK'
  <2>1. Filed /\ Counted  BY <1>4 DEF Filed, Counted, Timing
  <2>2. Filed' /\ Counted'  BY <1>2, <1>4 DEF Filed, Counted, Timing
  <2>3. \A q \in Recorders : mtPc'[q] = "average" => mtLoad'[q] = mt'.count
    BY <1>1, <1>2, <1>4, <1>6 DEF Timing
  <2>4. \A q \in Recorders : mtPc'[q] # "count"  BY <2>2 DEF Counted
  <2>5. Between(mt.avg, mt.samples)' <=> Between(mt.avg, mt.samples)  BY <1>1 DEF Between
  <2> QED  BY <1>1, <1>9, <2>1, <2>2, <2>3, <2>4, <2>5 DEF LatencyOK
<1>10. ASSUME BytesOK PROVE BytesOK'  BY <1>1, <1>7, <1>10, BytesKeep
<1> QED  BY <1>2, <1>3, <1>5, <1>8, <1>9, <1>10 DEF MetricInv

\* What the steps of RecordLatency have in common once it owns the mutex.
LEMMA OwnerMoves ==
  ASSUME MetricInv, NEW p \in Recorders, NEW from \in Timing, NEW to \in {"count", "hist", "idle"},
         MtGoto(p, from, to), mtRaced' = mtRaced, mtSnap' = mtSnap,
         mt'.read = mt.read, mt'.bytes = mt.bytes
  PROVE  /\ mtPc' \in [Recorders \cup {"reset"} -> MtPcs]
         /\ mtPc[p] = from /\ mtPc'[p] = to
         /\ \A q \in Recorders \ {p} : mtPc'[q] = mtPc[q] /\ mtPc[q] \notin Timing
         /\ mtPc'["reset"] = mtPc["reset"] /\ Reading' = Reading
         /\ ResetOK' /\ (~mtRaced => mtPc["reset"] = "idle") /\ mtMu
         /\ BytesOK => BytesOK'
<1>1. from \in MtPcs /\ to \in MtPcs /\ to # "bytes" /\ from # "bytes" /\ from # "idle"
  BY DEF MtPcs, Timing
<1>2. /\ mtPc' \in [Recorders \cup {"reset"} -> MtPcs]
      /\ mtPc[p] = from /\ mtPc'[p] = to
      /\ \A q \in Recorders \ {p} : mtPc'[q] = mtPc[q]
      /\ mtPc'["reset"] = mtPc["reset"] /\ Reading' = Reading \ {p}
  BY <1>1, RecorderMoves DEF MetricInv
<1>3. ResetOK' /\ (~mtRaced' => ~mtRaced /\ mtPc["reset"] = "idle")
  BY <1>1, RecorderKeeps
<1>4. Reading' = Reading  BY <1>1, <1>2 DEF Reading
<1>5. mtMu /\ \A q \in Recorders \ {p} : mtPc[q] \notin Timing  BY <1>2 DEF MetricInv, MutexOK
<1>6. BytesOK => BytesOK'  BY <1>4, BytesKeep
<1> QED  BY <1>2, <1>3, <1>4, <1>5, <1>6

\* The average moves towards the sample and not past it.
LEMMA AverageStep ==
  ASSUME MetricInv, NEW p \in Recorders, UpdateAverage(p)
  PROVE  MetricInv'
<1> DEFINE new == IF mtLoad[p] = 0 THEN mtArg[p]
                  ELSE mt.avg + Quotient(mtArg[p] - mt.avg, mtLoad[p] + 1)
<1>t. MetricType  BY DEF MetricInv
<1>1. /\ MtGoto(p, "average", "count") /\ mt' = [mt EXCEPT !.avg = new]
      /\ UNCHANGED <<mtArg, mtLoad, mtMu, mtRaced, mtSnap>>
  BY DEF UpdateAverage
<1>2. /\ mt.avg \in Int /\ mtArg[p] \in Int /\ mtLoad[p] \in Nat /\ mt \in MetricRecord
      /\ mt.samples \subseteq Int
  BY <1>t DEF MetricType, MetricRecord
<1>3. mtLoad[p] + 1 \in Nat /\ mtLoad[p] + 1 >= 1  BY <1>2
<1>4. /\ new \in Int
      /\ mtLoad[p] = 0 => new = mtArg[p]
      /\ mtLoad[p] # 0 /\ mt.avg <= mtArg[p] => mt.avg <= new /\ new <= mtArg[p]
      /\ mtLoad[p] # 0 /\ mtArg[p] <= mt.avg => mtArg[p] <= new /\ new <= mt.avg
  <2> DEFINE a == mt.avg
             x == mtArg[p]
             n == mtLoad[p] + 1
  <2>1. /\ a + Quotient(x - a, n) \in Int
        /\ a <= x => a <= a + Quotient(x - a, n) /\ a + Quotient(x - a, n) <= x
        /\ x <= a => x <= a + Quotient(x - a, n) /\ a + Quotient(x - a, n) <= a
    <3>1. a \in Int /\ x \in Int /\ n \in Nat /\ n >= 1  BY <1>2, <1>3
    <3> HIDE DEF a, x, n
    <3> QED  BY <3>1, AverageBetween
  <2> QED  BY <1>2, <2>1
<1> HIDE DEF new
<1>5. /\ mt' \in MetricRecord /\ mt'.avg = new /\ mt'.read = mt.read /\ mt'.bytes = mt.bytes
      /\ mt'.count = mt.count /\ mt'.hist = mt.hist /\ mt'.samples = mt.samples
  BY <1>1, <1>2, <1>4 DEF MetricRecord
<1>6. /\ mtPc' \in [Recorders \cup {"reset"} -> MtPcs]
      /\ mtPc[p] = "average" /\ mtPc'[p] = "count"
      /\ \A q \in Recorders \ {p} : mtPc'[q] = mtPc[q] /\ mtPc[q] \notin Timing
      /\ mtPc'["reset"] = mtPc["reset"] /\ Reading' = Reading
      /\ ResetOK' /\ (~mtRaced => mtPc["reset"] = "idle") /\ mtMu
      /\ BytesOK => BytesOK'
  BY <1>1, <1>5, OwnerMoves DEF Timing
<1>7. MutexOK'  BY <1>1, <1>6 DEF MutexOK
<1>8. MetricType'  BY <1>t, <1>1, <1>5, <1>6 DEF MetricType
<1>9. ASSUME LatencyOK PROVE LatencyOK'
  <2>1. Filed /\ Counted /\ Filed' /\ ~Counted'  BY <1>6 DEF Filed, Counted, Timing
  <2>2. \A q \in Recorders : mtPc'[q] # "average"  BY <1>6 DEF Timing
  <2>3. mtLoad[p] = mt.count  BY <1>6, <1>9 DEF LatencyOK
  <2>4. Between(mt'.avg, mt'.samples \cup {mtArg'[p]})
    <3>1. CASE mtLoad[p] = 0
      <4>1. mt'.avg = mtArg'[p] /\ mtArg'[p] \in Int  BY <1>1, <1>2, <1>4, <1>5, <3>1
      <4>2. mtArg'[p] <= mt'.avg /\ mt'.avg <= mtArg'[p]  BY <4>1
      <4>3. mtArg'[p] \in mt'.samples \cup {mtArg'[p]}  OBVIOUS
      <4> QED  BY <4>2, <4>3, Zenon DEF Between
    <3>2. CASE mtLoad[p] # 0
      <4>1. mt.samples # {}  BY <1>9, <2>3, <3>2 DEF LatencyOK
      <4>2. PICK lo \in mt.samples, hi \in mt.samples : lo <= mt.avg /\ mt.avg <= hi
        BY <1>9, <2>1, <4>1 DEF LatencyOK, Between
      <4>3. lo \in Int /\ hi \in Int  BY <1>2
      <4>4. CASE mt.avg <= mtArg[p]
        <5>1. lo <= new /\ new <= mtArg[p]  BY <1>2, <1>4, <3>2, <4>2, <4>3, <4>4
        <5> QED  BY <1>1, <1>5, <5>1 DEF Between
      <4>5. CASE mtArg[p] <= mt.avg
        <5>1. mtArg[p] <= new /\ new <= hi  BY <1>2, <1>4, <3>2, <4>2, <4>3, <4>5
        <5> QED  BY <1>1, <1>5, <5>1 DEF Between
      <4> QED  BY <1>2, <4>4, <4>5
    <3> QED  BY <3>1, <3>2
  <2>5. \A q \in Recorders : mtPc'[q] = "count" => Between(mt'.avg, mt'.samples \cup {mtArg'[q]})
    BY <1>6, <2>4 DEF Timing
  <2>6. \A q \in Recorders : mtPc'[q] = "count" => Between(mt.avg, mt.samples \cup {mtArg[q]})'
    BY <2>5 DEF Between
  <2> QED  BY <1>5, <1>9, <2>1, <2>2, <2>6 DEF LatencyOK
<1> QED  BY <1>1, <1>6, <1>7, <1>8, <1>9 DEF MetricInv

\* The sample is counted: the histogram is one behind.
LEMMA SampleStep ==
  ASSUME MetricInv, NEW p \in Recorders, CountSample(p)
  PROVE  MetricInv'
<1>t. MetricType  BY DEF MetricInv
<1>1. /\ MtGoto(p, "count", "hist") /\ UNCHANGED <<mtArg, mtLoad, mtMu, mtRaced, mtSnap>>
      /\ mt' = [mt EXCEPT !.count = @ + 1, !.samples = @ \cup {mtArg[p]}]
  BY DEF CountSample
<1>2. /\ mtArg[p] \in Int /\ mt \in MetricRecord /\ mt.count \in Nat /\ mt.samples \subseteq Int
      /\ mt.hist \in [Buckets -> Nat] /\ IsFiniteSet(mt.samples)
  BY <1>t DEF MetricType, MetricRecord
<1>3. mt.count + 1 \in Nat /\ mt.samples \cup {mtArg[p]} \in SUBSET Int  BY <1>2
<1>5. /\ mt' \in MetricRecord /\ mt'.avg = mt.avg /\ mt'.read = mt.read /\ mt'.bytes = mt.bytes
      /\ mt'.count = mt.count + 1 /\ mt'.hist = mt.hist /\ mt'.samples = mt.samples \cup {mtArg[p]}
  BY <1>1, <1>2, <1>3 DEF MetricRecord
<1>6. /\ mtPc' \in [Recorders \cup {"reset"} -> MtPcs]
      /\ mtPc[p] = "count" /\ mtPc'[p] = "hist"
      /\ \A q \in Recorders \ {p} : mtPc'[q] = mtPc[q] /\ mtPc[q] \notin Timing
      /\ mtPc'["reset"] = mtPc["reset"] /\ Reading' = Reading
      /\ ResetOK' /\ (~mtRaced => mtPc["reset"] = "idle") /\ mtMu
      /\ BytesOK => BytesOK'
  BY <1>1, <1>5, OwnerMoves DEF Timing
<1>7. MutexOK'  BY <1>1, <1>6 DEF MutexOK
<1>8. MetricType'
  <2>1. IsFiniteSet(mt'.samples)  BY <1>2, <1>5, FS_AddElement
  <2> QED  BY <1>t, <1>1, <1>5, <1>6, <2>1 DEF MetricType
<1>9. ASSUME LatencyOK PROVE LatencyOK'
  <2>1. Filed /\ ~Filed' /\ Counted'  BY <1>6 DEF Filed, Counted, Timing
  <2>2. \A q \in Recorders : mtPc'[q] # "average" /\ mtPc'[q] # "count"  BY <1>6 DEF Timing
  <2>3. Between(mt.avg, mt.samples \cup {mtArg[p]})  BY <1>6, <1>9 DEF LatencyOK
  <2>4. Between(mt.avg, mt.samples)'  BY <1>5, <2>3 DEF Between
  <2>5. mt.count = SumOver(mt.hist, Buckets)
    <3>1. SumOver(mt.hist, Buckets) \in Nat /\ mt.count = SumOver(mt.hist, Buckets) + 0
      <4> DEFINE h == mt.hist
      <4>1. h \in [Buckets -> Nat] /\ 0 \in Buckets  BY <1>2 DEF Buckets
      <4> HIDE DEF h
      <4>2. SumOver(h, Buckets) \in Nat  BY <4>1, HistAdd
      <4> QED  BY <1>9, <2>1, <4>2 DEF LatencyOK, h
    <3> QED  BY <3>1
  <2>6. mt'.count = SumOver(mt'.hist, Buckets) + 1 /\ mt'.count # 0 /\ mt'.samples # {}
    BY <1>2, <1>5, <2>5
  <2> QED  BY <2>1, <2>2, <2>4, <2>6 DEF LatencyOK
<1> QED  BY <1>1, <1>6, <1>7, <1>8, <1>9 DEF MetricInv

\* The sample enters its bucket, and the mutex is released.
LEMMA HistogramStep ==
  ASSUME MetricInv, NEW p \in Recorders, UpdateHistogram(p)
  PROVE  MetricInv'
<1> DEFINE b == Bucket(mtArg[p])
           h == [mt.hist EXCEPT ![b] = @ + 1]
<1>t. MetricType  BY DEF MetricInv
<1>1. /\ MtGoto(p, "hist", "idle") /\ mtMu' = FALSE /\ UNCHANGED <<mtRaced, mtSnap>>
      /\ mt' = [mt EXCEPT !.hist = h]
      /\ mtArg' = [mtArg EXCEPT ![p] = 0] /\ mtLoad' = [mtLoad EXCEPT ![p] = 0]
  BY DEF UpdateHistogram
<1>2. b \in Buckets  BY BucketType
<1>3. /\ mt \in MetricRecord /\ mt.count \in Nat /\ mt.hist \in [Buckets -> Nat]
  BY <1>t DEF MetricType, MetricRecord
<1> HIDE DEF b
<1>4. h \in [Buckets -> Nat]  BY <1>2, <1>3
<1>s. /\ SumOver(h, Buckets) = SumOver(mt.hist, Buckets) + 1
      /\ SumOver(mt.hist, Buckets) \in Nat
  BY <1>2, <1>3, HistAdd
<1> HIDE DEF h
<1>5. /\ mt' \in MetricRecord /\ mt'.avg = mt.avg /\ mt'.read = mt.read /\ mt'.bytes = mt.bytes
      /\ mt'.count = mt.count /\ mt'.hist = h /\ mt'.samples = mt.samples
  BY <1>1, <1>3, <1>4 DEF MetricRecord
<1>6. /\ mtPc' \in [Recorders \cup {"reset"} -> MtPcs]
      /\ mtPc[p] = "hist" /\ mtPc'[p] = "idle"
      /\ \A q \in Recorders \ {p} : mtPc'[q] = mtPc[q] /\ mtPc[q] \notin Timing
      /\ mtPc'["reset"] = mtPc["reset"] /\ Reading' = Reading
      /\ ResetOK' /\ (~mtRaced => mtPc["reset"] = "idle") /\ mtMu
      /\ BytesOK => BytesOK'
  BY <1>1, <1>5, OwnerMoves DEF Timing
<1>7. MutexOK'
  <2>1. \A q \in Recorders : mtPc'[q] \notin Timing  BY <1>6 DEF Timing
  <2> QED  BY <2>1 DEF MutexOK
<1>8. MetricType'
  <2>1. /\ mtArg' \in [Recorders -> Int] /\ mtLoad' \in [Recorders -> Nat]
        /\ \A q \in Recorders \ {p} : mtArg'[q] = mtArg[q]
    BY <1>t, <1>1 DEF MetricType
  <2>2. \A q \in Reading' : mtArg'[q] \in ReadSizes
    BY <1>t, <1>6, <2>1 DEF MetricType, Reading
  <2> QED  BY <1>t, <1>1, <1>5, <1>6, <2>1, <2>2 DEF MetricType
<1>9. ASSUME LatencyOK PROVE LatencyOK'
  <2>1. ~Filed /\ Counted /\ Filed' /\ Counted'  BY <1>6 DEF Filed, Counted, Timing
  <2>2. \A q \in Recorders : mtPc'[q] # "average" /\ mtPc'[q] # "count"  BY <1>6 DEF Timing
  <2>3. Between(mt.avg, mt.samples)' <=> Between(mt.avg, mt.samples)  BY <1>5 DEF Between
  <2>4. mt'.count = SumOver(mt'.hist, Buckets) + 0
    <3>1. mt.count = SumOver(mt.hist, Buckets) + 1  BY <1>9, <2>1 DEF LatencyOK
    <3>2. mt'.count = SumOver(h, Buckets) /\ SumOver(h, Buckets) \in Nat  BY <1>5, <1>s, <3>1
    <3>3. SumOver(mt'.hist, Buckets) = SumOver(h, Buckets)  BY <1>5
    <3> QED  BY <3>2, <3>3
  <2> QED  BY <1>5, <1>9, <2>1, <2>2, <2>3, <2>4 DEF LatencyOK
<1> QED  BY <1>1, <1>6, <1>7, <1>8, <1>9 DEF MetricInv

\* What a step of Reset changes, and what it says if nothing has overlapped it.
LEMMA ResetMoves ==
  ASSUME MetricInv, NEW from \in MtPcs, NEW to \in MtPcs, NEW m \in MetricRecord,
         IsFiniteSet(m.samples), ResetStore(from, to, m)
  PROVE  /\ mtPc["reset"] = from /\ mtPc'["reset"] = to /\ mt' = m /\ mtSnap' = mtSnap
         /\ \A p \in Recorders : mtPc'[p] = mtPc[p]
         /\ Reading' = Reading /\ (Busy' <=> Busy)
         /\ MetricType' /\ MutexOK'
         /\ ~mtRaced' => ~mtRaced /\ ~Busy /\ mtSnap.pc = "idle"
<1>1. MetricType /\ MutexOK  BY DEF MetricInv
<1>2. /\ mtPc["reset"] = from /\ mtPc' = [mtPc EXCEPT !["reset"] = to] /\ mt' = m
      /\ mtRaced' = (mtRaced \/ Busy \/ mtSnap.pc # "idle")
      /\ UNCHANGED <<mtArg, mtLoad, mtMu, mtSnap>>
  BY DEF ResetStore, MtGoto
<1>3. mtPc \in [Recorders \cup {"reset"} -> MtPcs]  BY <1>1 DEF MetricType
<1>4. /\ mtPc' \in [Recorders \cup {"reset"} -> MtPcs] /\ mtPc'["reset"] = to
      /\ \A p \in Recorders : mtPc'[p] = mtPc[p]
  BY <1>2, <1>3, MetricAssumption
<1>5. Reading' = Reading /\ (Busy' <=> Busy)  BY <1>4 DEF Reading, Busy
<1>6. mtRaced' \in BOOLEAN /\ (~mtRaced' => ~mtRaced /\ ~Busy /\ mtSnap.pc = "idle")
  BY <1>2, Zenon
<1>7. MutexOK'  BY <1>1, <1>2, <1>4 DEF MutexOK
<1>8. MetricType'  BY <1>1, <1>2, <1>4, <1>5, <1>6 DEF MetricType
<1> QED  BY <1>2, <1>4, <1>5, <1>6, <1>7, <1>8

\* A step of Reset before its last one.
LEMMA ResetGoesOn ==
  ASSUME MetricInv, NEW from \in MtPcs, NEW to \in MtPcs, NEW m \in MetricRecord,
         IsFiniteSet(m.samples), ResetStore(from, to, m), to # "idle",
         ~mtRaced => m.read = 0,
         ~mtRaced /\ to # "bytes" => m.bytes = 0,
         to = "hist" => m.count = 0 /\ m.samples = {}
  PROVE  MetricInv'
<1>1. /\ mtPc["reset"] = from /\ mtPc'["reset"] = to /\ mt' = m /\ mtSnap' = mtSnap
      /\ (Busy' <=> Busy) /\ MetricType' /\ MutexOK'
      /\ ~mtRaced' => ~mtRaced /\ ~Busy /\ mtSnap.pc = "idle"
  BY ResetMoves
<1>2. ResetOK'  BY <1>1 DEF ResetOK
<1> QED  BY <1>1, <1>2 DEF MetricInv

\* Reset clears everything before it returns.
LEMMA ResetStep ==
  ASSUME MetricInv, Reset
  PROVE  MetricInv'
<1>1. /\ mt \in MetricRecord /\ IsFiniteSet(mt.samples) /\ ResetOK
      /\ mt.bytes \in Nat /\ mt.samples \in SUBSET Int
  BY DEF MetricInv, MetricType, MetricRecord
<1>2. NoMetrics.hist = [b \in Buckets |-> 0] /\ NoMetrics.hist \in [Buckets -> Nat]  BY DEF NoMetrics
<1>3. /\ [mt EXCEPT !.read = 0] \in MetricRecord /\ [mt EXCEPT !.bytes = 0] \in MetricRecord
      /\ [mt EXCEPT !.avg = 0] \in MetricRecord
      /\ [mt EXCEPT !.count = 0, !.samples = {}] \in MetricRecord
      /\ [mt EXCEPT !.hist = NoMetrics.hist] \in MetricRecord
  <2>1. [mt EXCEPT !.read = 0] \in MetricRecord /\ [mt EXCEPT !.bytes = 0] \in MetricRecord
    BY <1>1 DEF MetricRecord
  <2>2. [mt EXCEPT !.avg = 0] \in MetricRecord  BY <1>1 DEF MetricRecord
  <2>3. [mt EXCEPT !.count = 0, !.samples = {}] \in MetricRecord  BY <1>1 DEF MetricRecord
  <2>4. [mt EXCEPT !.hist = NoMetrics.hist] \in MetricRecord  BY <1>1, <1>2 DEF MetricRecord
  <2> QED  BY <2>1, <2>2, <2>3, <2>4
<1>p. /\ "idle" \in MtPcs /\ "bytes" \in MtPcs /\ "average" \in MtPcs /\ "count" \in MtPcs
      /\ "hist" \in MtPcs
  BY DEF MtPcs
<1>4. CASE ResetStore("idle", "bytes", [mt EXCEPT !.read = 0])
  <2> DEFINE m == [mt EXCEPT !.read = 0]
  <2>1. m \in MetricRecord /\ m.read = 0 /\ m.samples = mt.samples  BY <1>1, <1>3 DEF MetricRecord
  <2> HIDE DEF m
  <2> QED  BY <1>1, <1>4, <1>p, <2>1, ResetGoesOn DEF m
<1>5. CASE ResetStore("bytes", "average", [mt EXCEPT !.bytes = 0])
  <2> DEFINE m == [mt EXCEPT !.bytes = 0]
  <2>1. m \in MetricRecord /\ m.read = mt.read /\ m.bytes = 0 /\ m.samples = mt.samples
    BY <1>1, <1>3 DEF MetricRecord
  <2>2. mtPc["reset"] = "bytes"  BY <1>5 DEF ResetStore, MtGoto
  <2>3. ~mtRaced => m.read = 0  BY <1>1, <2>1, <2>2 DEF ResetOK
  <2> HIDE DEF m
  <2> QED  BY <1>1, <1>5, <1>p, <2>1, <2>3, ResetGoesOn DEF m
<1>6. CASE ResetStore("average", "count", [mt EXCEPT !.avg = 0])
  <2> DEFINE m == [mt EXCEPT !.avg = 0]
  <2>1. m \in MetricRecord /\ m.read = mt.read /\ m.bytes = mt.bytes /\ m.samples = mt.samples
    BY <1>1, <1>3 DEF MetricRecord
  <2>2. mtPc["reset"] = "average"  BY <1>6 DEF ResetStore, MtGoto
  <2>3. ~mtRaced => m.read = 0 /\ m.bytes = 0  BY <1>1, <2>1, <2>2 DEF ResetOK
  <2> HIDE DEF m
  <2> QED  BY <1>1, <1>6, <1>p, <2>1, <2>3, ResetGoesOn DEF m
<1>7. CASE ResetStore("count", "hist", [mt EXCEPT !.count = 0, !.samples = {}])
  <2> DEFINE m == [mt EXCEPT !.count = 0, !.samples = {}]
  <2>1. m \in MetricRecord /\ m.read = mt.read /\ m.bytes = mt.bytes /\ m.samples = {} /\ m.count = 0
    BY <1>1, <1>3 DEF MetricRecord
  <2>2. mtPc["reset"] = "count"  BY <1>7 DEF ResetStore, MtGoto
  <2>3. ~mtRaced => m.read = 0 /\ m.bytes = 0  BY <1>1, <2>1, <2>2 DEF ResetOK
  <2>4. IsFiniteSet(m.samples)  BY <2>1, FS_EmptySet
  <2> HIDE DEF m
  <2> QED  BY <1>7, <1>p, <2>1, <2>3, <2>4, ResetGoesOn DEF m
<1>8. CASE ResetStore("hist", "idle", [mt EXCEPT !.hist = NoMetrics.hist])
  <2> DEFINE m == [mt EXCEPT !.hist = NoMetrics.hist]
  <2>1. /\ m \in MetricRecord /\ m.read = mt.read /\ m.bytes = mt.bytes /\ m.samples = mt.samples
        /\ m.count = mt.count /\ m.hist = [b \in Buckets |-> 0]
    BY <1>1, <1>2, <1>3 DEF MetricRecord
  <2> HIDE DEF m
  <2>2. /\ mtPc["reset"] = "hist" /\ mtPc'["reset"] = "idle" /\ mt' = m /\ mtSnap' = mtSnap
        /\ \A p \in Recorders : mtPc'[p] = mtPc[p]
        /\ Reading' = Reading /\ (Busy' <=> Busy) /\ MetricType' /\ MutexOK'
        /\ ~mtRaced' => ~mtRaced /\ ~Busy /\ mtSnap.pc = "idle"
    BY <1>1, <1>8, <1>p, <2>1, ResetMoves DEF m
  <2>3. ResetOK'  BY <2>2 DEF ResetOK
  <2>4. ASSUME ~mtRaced' PROVE LatencyOK' /\ BytesOK'
    <3>1. /\ m.read = 0 /\ m.bytes = 0 /\ m.count = 0 /\ m.samples = {} /\ mtSnap.pc = "idle"
          /\ \A p \in Recorders : mtPc[p] = "idle"
      BY <1>1, <2>1, <2>2, <2>4 DEF ResetOK, Busy
    <3>2. SumOver(m.hist, Buckets) = 0
      <4>1. 0 \in Int /\ 7 \in Int  OBVIOUS
      <4>2. IsFiniteSet(Buckets)  BY <4>1, FS_Interval, Zenon DEF Buckets
      <4>3. \A b \in Buckets : m.hist[b] = 0  BY <2>1
      <4> QED  BY <4>2, <4>3, SumZero
    <3>3. Filed' /\ \A p \in Recorders : mtPc'[p] # "average" /\ mtPc'[p] # "count"
      BY <2>2, <3>1 DEF Filed
    <3>4. LatencyOK'  BY <2>2, <3>1, <3>2, <3>3 DEF LatencyOK
    <3>5. Reading' = {}  BY <2>2, <3>1 DEF Reading
    <3>6. Cardinality(Reading') = 0  BY <3>5, FS_EmptySet
    <3>7. Smallest \in Nat /\ Smallest' = Smallest  BY SmallestSize DEF Smallest
    <3>8. BytesOK'  BY <2>2, <3>1, <3>6, <3>7 DEF BytesOK
    <3> QED  BY <3>4, <3>8
  <2> QED  BY <2>2, <2>3, <2>4 DEF MetricInv
<1> QED  BY <1>4, <1>5, <1>6, <1>7, <1>8 DEF Reset

\* Snapshot loads the packets first, so that later bytes are those of more packets.
LEMMA SnapshotStep ==
  ASSUME MetricInv, Snapshot
  PROVE  MetricInv'
<1>1. MetricType /\ MutexOK /\ ResetOK  BY DEF MetricInv
<1>2. /\ UNCHANGED <<mt, mtPc, mtArg, mtLoad, mtMu>>
      /\ mtRaced' = (mtRaced \/ mtPc["reset"] # "idle")
  BY DEF Snapshot
<1>3. mtRaced' \in BOOLEAN /\ (~mtRaced' => ~mtRaced /\ mtPc["reset"] = "idle")  BY <1>2, Zenon
<1>4. /\ mtSnap \in [pc: {"idle", "bytes", "done"}, read: Nat, bytes: Nat]
      /\ mt.read \in Nat /\ mt.bytes \in Nat
  BY <1>1 DEF MetricType, MetricRecord
<1>5. /\ mtSnap' \in [pc: {"idle", "bytes", "done"}, read: Nat, bytes: Nat]
      /\ \/ mtSnap'.pc = "bytes" /\ mtSnap'.read = mt.read
         \/ /\ mtSnap.pc = "bytes" /\ mtSnap'.pc = "done"
            /\ mtSnap'.read = mtSnap.read /\ mtSnap'.bytes = mt.bytes
  BY <1>4 DEF Snapshot
<1>6. Reading' = Reading  BY <1>2 DEF Reading
<1>7. MetricType' /\ MutexOK' /\ ResetOK'
  <2>1. MetricType'  BY <1>1, <1>2, <1>3, <1>5, <1>6 DEF MetricType
  <2>2. MutexOK'  BY <1>1, <1>2 DEF MutexOK
  <2>3. ResetOK'  BY <1>2, <1>3 DEF ResetOK
  <2> QED  BY <2>1, <2>2, <2>3
<1>8. ASSUME LatencyOK PROVE LatencyOK'
  BY <1>2, <1>8 DEF LatencyOK, Filed, Counted, Between
<1>9. ASSUME BytesOK PROVE BytesOK'
  <2>1. mt.bytes >= (mt.read - Cardinality(Reading)) * Smallest  BY <1>9 DEF BytesOK
  <2>2. CASE mtSnap'.pc = "bytes" /\ mtSnap'.read = mt.read
    BY <1>2, <1>4, <1>6, <2>1, <2>2 DEF BytesOK, Smallest
  <2>3. CASE /\ mtSnap.pc = "bytes" /\ mtSnap'.pc = "done"
             /\ mtSnap'.read = mtSnap.read /\ mtSnap'.bytes = mt.bytes
    <3> DEFINE r == Cardinality(Reading)
               R == Cardinality(Recorders)
               k == mtSnap.read
               n == mt.read
    <3>1. k \in Nat /\ n \in Nat /\ k <= n  BY <1>4, <1>9, <2>3 DEF BytesOK
    <3>2. r \in Nat /\ R \in Nat /\ r <= R  BY ReadingSize
    <3>3. Smallest \in Nat  BY SmallestSize
    <3>4. mt.bytes >= (n - r) * Smallest  BY <2>1
    <3> HIDE DEF r, R, k, n
    <3>5. k - R \in Int /\ n - r \in Int /\ k - R <= n - r  BY <3>1, <3>2
    <3>6. (k - R) * Smallest <= (n - r) * Smallest  BY <3>3, <3>5, Products
    <3>7. mt.bytes >= (k - R) * Smallest
      <4> DEFINE x == (k - R) * Smallest
                 y == (n - r) * Smallest
      <4>1. x \in Int /\ y \in Int /\ x <= y /\ mt.bytes >= y  BY <3>3, <3>4, <3>5, <3>6
      <4> HIDE DEF x, y
      <4>2. mt.bytes >= x  BY <1>4, <4>1
      <4> QED  BY <4>2 DEF x
    <3>8. mtSnap'.bytes >= (mtSnap'.read - R) * Smallest  BY <2>3, <3>7 DEF k
    <3> QED  BY <1>2, <1>6, <2>1, <2>3, <3>8 DEF BytesOK, R, Smallest
  <2> QED  BY <1>5, <2>2, <2>3
<1> QED  BY <1>2, <1>3, <1>7, <1>8, <1>9 DEF MetricInv

\* Every step keeps the counters in step.
LEMMA MetricStep == MetricInv /\ [MetricNext]_MetricVars => MetricInv'
<1> SUFFICES ASSUME MetricInv, [MetricNext]_MetricVars PROVE MetricInv'  OBVIOUS
<1>1. CASE Reset  BY <1>1, ResetStep
<1>2. CASE Snapshot  BY <1>2, SnapshotStep
<1>3. ASSUME NEW p \in Recorders, RecordBytes(p) PROVE MetricInv'  BY <1>3, BytesStep
<1>4. ASSUME NEW p \in Recorders, UpdateAverage(p) PROVE MetricInv'  BY <1>4, AverageStep
<1>5. ASSUME NEW p \in Recorders, CountSample(p) PROVE MetricInv'  BY <1>5, SampleStep
<1>6. ASSUME NEW p \in Recorders, UpdateHistogram(p) PROVE MetricInv'  BY <1>6, HistogramStep
<1>7. ASSUME NEW p \in Recorders, NEW n \in ReadSizes, RecordRead(p, n) PROVE MetricInv'
  BY <1>7, ReadStep
<1>8. ASSUME NEW p \in Recorders, NEW ns \in Latencies, RecordLatency(p, ns) PROVE MetricInv'
  BY <1>8, LatencyStep
<1>9. CASE UNCHANGED MetricVars
  BY <1>9 DEF MetricVars, MetricInv, MetricType, MutexOK, ResetOK, LatencyOK, BytesOK, Reading,
              Filed, Counted, Between, Busy, Smallest
<1> QED  BY <1>1, <1>2, <1>3, <1>4, <1>5, <1>6, <1>7, <1>8, <1>9 DEF MetricNext

\* All counters start at zero.
LEMMA MetricStarts == MetricInit => MetricInv
<1> SUFFICES ASSUME MetricInit PROVE MetricInv  OBVIOUS
<1>1. /\ mt.read = 0 /\ mt.bytes = 0 /\ mt.avg = 0 /\ mt.count = 0 /\ mt.samples = {}
      /\ mt.hist = [b \in Buckets |-> 0] /\ mt \in MetricRecord
  <2> DEFINE h == [b \in Buckets |-> 0]
  <2>1. h \in [Buckets -> Nat] /\ {} \in SUBSET Int  OBVIOUS
  <2>2. mt = [read |-> 0, bytes |-> 0, avg |-> 0, count |-> 0, hist |-> h, samples |-> {}]
    BY DEF MetricInit, NoMetrics
  <2> HIDE DEF h
  <2>3. /\ mt.read = 0 /\ mt.bytes = 0 /\ mt.avg = 0 /\ mt.count = 0 /\ mt.samples = {}
        /\ mt.hist = h
    BY <2>2
  <2>4. mt \in MetricRecord  BY <2>1, <2>2 DEF MetricRecord
  <2> QED  BY <2>3, <2>4 DEF h
<1>2. /\ mtPc = [p \in Recorders \cup {"reset"} |-> "idle"] /\ mtMu = FALSE /\ mtRaced = FALSE
      /\ mtArg = [p \in Recorders |-> 0] /\ mtLoad = [p \in Recorders |-> 0]
      /\ mtSnap = [pc |-> "idle", read |-> 0, bytes |-> 0]
  BY DEF MetricInit
<1>3. (\A p \in Recorders : mtPc[p] = "idle") /\ mtPc["reset"] = "idle"  BY <1>2
<1>4. Reading = {} /\ Filed  BY <1>3 DEF Reading, Filed
<1>5. MetricType
  <2>1. IsFiniteSet(mt.samples)  BY <1>1, FS_EmptySet
  <2>2. mtSnap \in [pc: {"idle", "bytes", "done"}, read: Nat, bytes: Nat]  BY <1>2
  <2>3. mtPc \in [Recorders \cup {"reset"} -> MtPcs]  BY <1>2 DEF MtPcs
  <2>4. mtArg \in [Recorders -> Int] /\ mtLoad \in [Recorders -> Nat]  BY <1>2
  <2>5. mtMu \in BOOLEAN /\ mtRaced \in BOOLEAN  BY Zenon DEF MetricInit
  <2> QED  BY <1>1, <1>4, <2>1, <2>2, <2>3, <2>4, <2>5 DEF MetricType
<1>6. MutexOK /\ ResetOK  BY <1>3 DEF MutexOK, ResetOK, Timing
<1>7. SumOver(mt.hist, Buckets) = 0
  <2>1. 0 \in Int /\ 7 \in Int  OBVIOUS
  <2>2. IsFiniteSet(Buckets)  BY <2>1, FS_Interval, Zenon DEF Buckets
  <2>3. \A b \in Buckets : mt.hist[b] = 0  BY <1>1
  <2> QED  BY <2>2, <2>3, SumZero
<1>8. LatencyOK  BY <1>1, <1>3, <1>4, <1>7 DEF LatencyOK
<1>9. BytesOK
  <2>1. Cardinality(Reading) = 0  BY <1>4, FS_EmptySet
  <2>2. Smallest \in Nat  BY SmallestSize
  <2>3. mtSnap.pc = "idle"  BY <1>2
  <2>4. (0 - 0) * Smallest = 0  BY <2>2
  <2>5. mt.bytes >= (mt.read - Cardinality(Reading)) * Smallest  BY <1>1, <2>1, <2>4
  <2> QED  BY <2>3, <2>5 DEF BytesOK
<1> QED  BY <1>5, <1>6, <1>8, <1>9 DEF MetricInv

\* A finite set of integers has a least and a greatest member.
LEMMA Extremes ==
  ASSUME NEW T, IsFiniteSet(T), T \subseteq Int, T # {}
  PROVE  \E lo, hi \in T : \A x \in T : lo <= x /\ x <= hi
<1> DEFINE Has(s) == \E lo, hi \in s : \A x \in s : lo <= x /\ x <= hi
           N == {n \in Nat : \A s \in SUBSET T : Cardinality(s) = n /\ s # {} => Has(s)}
<1>1. 0 \in N
  <2>1. \A s \in SUBSET T : Cardinality(s) = 0 => s = {}  BY FS_Subset, FS_EmptySet
  <2> QED  BY <2>1
<1>2. ASSUME NEW n \in Nat, n \in N PROVE n + 1 \in N
  <2> SUFFICES ASSUME NEW s \in SUBSET T, Cardinality(s) = n + 1, s # {} PROVE Has(s)  OBVIOUS
  <2>1. PICK y \in s : TRUE  OBVIOUS
  <2> DEFINE r == s \ {y}
  <2>2. /\ r \in SUBSET T /\ Cardinality(s) \in Nat /\ Cardinality(r) \in Nat
        /\ Cardinality(s) = Cardinality(r) + 1
    <3>1. IsFiniteSet(s)  BY FS_Subset
    <3>2. IsFiniteSet(r) /\ Cardinality(r) = Cardinality(s) - 1  BY <2>1, <3>1, FS_RemoveElement
    <3>3. Cardinality(s) \in Nat /\ Cardinality(r) \in Nat  BY <3>1, <3>2, FS_CardinalityType
    <3>4. r \in SUBSET T  OBVIOUS
    <3> HIDE DEF r
    <3> QED  BY <3>2, <3>3, <3>4
  <2>3. Cardinality(r) = n  BY <2>2
  <2>4. r # {} => Has(r)  BY <1>2, <2>2, <2>3
  <2>5. CASE r = {}
    <3>1. s = {y} /\ y \in Int  BY <2>5
    <3> QED  BY <3>1
  <2>6. CASE r # {}
    <3>1. PICK lo \in r, hi \in r : \A x \in r : lo <= x /\ x <= hi  BY <2>4, <2>6
    <3>2. lo \in Int /\ hi \in Int /\ y \in Int /\ r \subseteq Int  OBVIOUS
    <3>3. PICK a \in s : a \in {lo, y} /\ a <= lo /\ a <= y
      BY <3>2
    <3>4. PICK b \in s : b \in {hi, y} /\ hi <= b /\ y <= b
      BY <3>2
    <3>5. a \in Int /\ b \in Int  BY <3>2, <3>3, <3>4
    <3>6. \A x \in s : x = y \/ x \in r  OBVIOUS
    <3> HIDE DEF r
    <3>7. \A x \in s : a <= x /\ x <= b  BY <3>1, <3>2, <3>3, <3>4, <3>5, <3>6
    <3> QED  BY <3>7
  <2> QED  BY <2>5, <2>6
<1>3. Nat \subseteq N
  <2> HIDE DEF N
  <2> QED  BY <1>1, <1>2, SetInduction
<1>4. Cardinality(T) \in Nat  BY FS_CardinalityType
<1>5. Has(T)  BY <1>3, <1>4
<1> QED  BY <1>5

\* What lies between two samples lies between the least and the greatest.
LEMMA WithinSamples ==
  ASSUME NEW T, IsFiniteSet(T), T \subseteq Int, NEW a \in Int, Between(a, T)
  PROVE  Min(T) <= a /\ a <= Max(T)
<1>1. PICK x \in T, y \in T : x <= a /\ a <= y  BY DEF Between
<1>2. PICK lo \in T, hi \in T : \A z \in T : lo <= z /\ z <= hi  BY <1>1, Extremes
<1>3. Min(T) \in T /\ \A z \in T : Min(T) <= z  BY <1>2 DEF Min
<1>4. Max(T) \in T /\ \A z \in T : Max(T) >= z  
  <2>1. \A z \in T : hi >= z  BY <1>2
  <2> QED  BY <2>1 DEF Max
<1>5. Min(T) \in Int /\ Max(T) \in Int /\ x \in Int /\ y \in Int  BY <1>1, <1>3, <1>4
<1>6. Min(T) <= x /\ Max(T) >= y  BY <1>1, <1>3, <1>4
<1> HIDE DEF Min, Max
<1> QED  BY <1>1, <1>5, <1>6

\* The invariant implies what is promised of the counters.
LEMMA MetricMeans == MetricInv => MetricsConsistent
<1> SUFFICES ASSUME MetricInv, ~mtRaced PROVE
      /\ ~Busy /\ mtPc["reset"] = "idle" =>
           /\ mt.count = MapThenSumSet(LAMBDA b : mt.hist[b], Buckets)
           /\ mt.samples # {} => Min(mt.samples) <= mt.avg /\ mt.avg <= Max(mt.samples)
      /\ mtSnap.pc = "done" =>
           mtSnap.bytes >= (mtSnap.read - Cardinality(Recorders)) * Min(ReadSizes)
  BY DEF MetricsConsistent
<1>1. MetricType  BY DEF MetricInv
<1>2. ASSUME ~Busy, mtPc["reset"] = "idle"
      PROVE  /\ mt.count = MapThenSumSet(LAMBDA b : mt.hist[b], Buckets)
             /\ mt.samples # {} => Min(mt.samples) <= mt.avg /\ mt.avg <= Max(mt.samples)
  <2>1. LatencyOK  BY <1>2 DEF MetricInv
  <2>2. Filed /\ Counted  BY <1>2 DEF Busy, Filed, Counted
  <2>3. mt.count = SumOver(mt.hist, Buckets)
    <3>1. mt.hist \in [Buckets -> Nat]  BY <1>1 DEF MetricType, MetricRecord
    <3>2. 0 \in Buckets  BY DEF Buckets
    <3> DEFINE h == mt.hist
    <3>3. h \in [Buckets -> Nat]  BY <3>1
    <3> HIDE DEF h
    <3>4. SumOver(h, Buckets) \in Nat  BY <3>2, <3>3, HistAdd
    <3> QED  BY <2>1, <2>2, <3>4 DEF LatencyOK, h
  <2>4. mt.count = MapThenSumSet(LAMBDA b : mt.hist[b], Buckets)  BY <2>3, Zenon DEF SumOver
  <2>5. ASSUME mt.samples # {} PROVE Min(mt.samples) <= mt.avg /\ mt.avg <= Max(mt.samples)
    <3>1. mt.samples \subseteq Int /\ mt.avg \in Int /\ IsFiniteSet(mt.samples)
      BY <1>1 DEF MetricType, MetricRecord
    <3>2. Between(mt.avg, mt.samples)  BY <2>1, <2>2, <2>5 DEF LatencyOK
    <3> QED  BY <3>1, <3>2, WithinSamples
  <2> QED  BY <2>4, <2>5
<1>3. ASSUME mtSnap.pc = "done"
      PROVE  mtSnap.bytes >= (mtSnap.read - Cardinality(Recorders)) * Min(ReadSizes)
  <2>1. mtPc["reset"] = "idle"  BY <1>3 DEF MetricInv, ResetOK
  <2> QED  BY <1>3, <2>1 DEF MetricInv, BytesOK, Smallest
<1> QED  BY <1>2, <1>3

\* As long as no Reset overlaps a call of conn/metrics.go, the histogram holds as many
\* samples as were counted and the average lies within them whenever no call is
\* running, and a snapshot shows the bytes of all packets it shows but for those
\* being recorded: for any finite set of goroutines, any latencies and any sizes.
THEOREM MetricsAgree == MetricSpec => []MetricsConsistent
<1>1. MetricInit => MetricInv  BY MetricStarts
<1>2. MetricInv /\ [MetricNext]_MetricVars => MetricInv'  BY MetricStep
<1>3. MetricInv => MetricsConsistent  BY MetricMeans
<1> QED  BY <1>1, <1>2, <1>3, PTL DEF MetricSpec
=============================================================================
