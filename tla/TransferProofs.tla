-------------------------- MODULE TransferProofs ---------------------------
(***************************************************************************)
(* Bytes leave a BatchWriter in order, at most once and, unless the        *)
(* destination fails, all of them, for any buffer and writes. What a relay *)
(* writes is what the other side sent, and its shutdown counts no error,   *)
(* for any number of items, any relay and any transport.                   *)
(***************************************************************************)
EXTENDS Batch, Relay, SequenceTheorems, TLAPS

BatchState ==
  [buf: Seq(Nat), out: Seq(Nat), sent: Nat, timer: {"off", "on", "due"}, closed: BOOLEAN,
   err: BOOLEAN, failed: BOOLEAN]

\* s increases and does not exceed n.
Rises(s, n) ==
  /\ \A i, j \in 1..Len(s) : i < j => s[i] < s[j]
  /\ \A i \in 1..Len(s) : s[i] <= n

Good(b) == b \in BatchState /\ Rises(b.out \o b.buf, b.sent)
BatchInv == Good(bw) /\ bwConf.cap \in Nat

\* Concatenation is associative: both sides have the same elements.
LEMMA Associates ==
  ASSUME NEW s \in Seq(Nat), NEW t \in Seq(Nat), NEW u \in Seq(Nat)
  PROVE  (s \o t) \o u = s \o (t \o u)
<1> DEFINE left == (s \o t) \o u
           right == s \o (t \o u)
<1>1. left \in Seq(Nat) /\ right \in Seq(Nat)
  OBVIOUS
<1>2. Len(left) = Len(right)
  OBVIOUS
<1>3. \A i \in 1..Len(left) : left[i] = right[i]
  OBVIOUS
<1> HIDE DEF left, right
<1>4. left = right
  BY <1>1, <1>2, <1>3, SeqEqual
<1> QED
  BY <1>4 DEF left, right

\* A prefix of what follows may be cut off.
LEMMA RisesPrefix ==
  ASSUME NEW s \in Seq(Nat), NEW t \in Seq(Nat), NEW n \in Nat, NEW k \in 0..Len(t),
         Rises(s \o t, n)
  PROVE  /\ s \o SubSeq(t, 1, k) \in Seq(Nat) /\ Rises(s \o SubSeq(t, 1, k), n)
<1>0. Len(s) \in Nat /\ Len(t) \in Nat
  BY LenProperties
<1>1. /\ SubSeq(t, 1, k) \in Seq(Nat) /\ Len(SubSeq(t, 1, k)) = k
      /\ \A i \in 1..k : SubSeq(t, 1, k)[i] = t[i]
  BY <1>0
<1> DEFINE u == s \o SubSeq(t, 1, k)
<1>2. /\ u \in Seq(Nat) /\ Len(u) = Len(s) + k
      /\ \A i \in 1..(Len(s) + k) :
           u[i] = IF i <= Len(s) THEN s[i] ELSE SubSeq(t, 1, k)[i - Len(s)]
  <2> DEFINE v == SubSeq(t, 1, k)
  <2> HIDE DEF v
  <2>1. v \in Seq(Nat) /\ Len(v) = k
    BY <1>1 DEF v
  <2>2. /\ s \o v \in Seq(Nat) /\ Len(s \o v) = Len(s) + Len(v)
        /\ \A i \in 1..(Len(s) + Len(v)) :
             (s \o v)[i] = IF i <= Len(s) THEN s[i] ELSE v[i - Len(s)]
    BY <2>1, ConcatProperties
  <2> QED
    BY <2>1, <2>2 DEF v
<1>3. /\ Len(s \o t) = Len(s) + Len(t)
      /\ \A i \in 1..(Len(s) + Len(t)) : (s \o t)[i] = IF i <= Len(s) THEN s[i] ELSE t[i - Len(s)]
  BY ConcatProperties
<1> HIDE DEF u
<1>4. \A i \in 1..(Len(s) + k) : u[i] = (s \o t)[i] /\ i \in 1..Len(s \o t)
  <2> DEFINE v == SubSeq(t, 1, k)
             w == s \o t
             m == Len(s)
  <2>1. /\ m \in Nat /\ Len(t) \in Nat /\ k \in 0..Len(t) /\ Len(w) = m + Len(t)
        /\ \A i \in 1..k : v[i] = t[i]
        /\ \A i \in 1..(m + k) : u[i] = IF i <= m THEN s[i] ELSE v[i - m]
        /\ \A i \in 1..(m + Len(t)) : w[i] = IF i <= m THEN s[i] ELSE t[i - m]
    BY <1>0, <1>1, <1>2, <1>3
  <2> HIDE DEF v, w, m
  <2> SUFFICES ASSUME NEW i \in 1..(m + k) PROVE u[i] = w[i] /\ i \in 1..Len(w)
    BY DEF w, m
  <2>2. i \in 1..(m + Len(t))
    BY <2>1
  <2>3. CASE i <= m
    BY <2>1, <2>2, <2>3
  <2>4. CASE ~(i <= m)
    <3>1. i - m \in 1..k
      BY <2>1, <2>4
    <3> QED
      BY <2>1, <2>2, <2>4, <3>1
  <2> QED
    BY <2>3, <2>4
<1>5. Rises(u, n)
  BY <1>0, <1>2, <1>3, <1>4 DEF Rises
<1> QED
  BY <1>2, <1>5 DEF u

\* New bytes have greater numbers.
LEMMA RisesMore ==
  ASSUME NEW s \in Seq(Nat), NEW n \in Nat, NEW m \in Nat, Rises(s, n)
  PROVE  LET data == [i \in 1..m |-> n + i]
         IN  data \in Seq(Nat) /\ Len(data) = m /\ Rises(s \o data, n + m)
<1> DEFINE data == [i \in 1..m |-> n + i]
<1>0. data \in Seq(Nat) /\ Len(data) = m /\ Len(s) \in Nat
  BY LenProperties
<1>1. \A i \in 1..m : data[i] = n + i
  OBVIOUS
<1>2. \A i \in 1..Len(s) : s[i] \in Nat
  BY ElementOfSeq
<1> HIDE DEF data
<1>3. /\ Len(s \o data) = Len(s) + m
      /\ \A i \in 1..(Len(s) + m) :
           (s \o data)[i] = IF i <= Len(s) THEN s[i] ELSE data[i - Len(s)]
  BY <1>0, ConcatProperties
<1>4. \A i \in 1..(Len(s) + m) :
        (s \o data)[i] = IF i <= Len(s) THEN s[i] ELSE n + i - Len(s)
  BY <1>0, <1>1, <1>3
<1>5. Rises(s \o data, n + m)
  <2> DEFINE u == s \o data
  <2>1. /\ Len(u) = Len(s) + m
        /\ \A i \in 1..(Len(s) + m) : u[i] = IF i <= Len(s) THEN s[i] ELSE n + i - Len(s)
    BY <1>3, <1>4
  <2> HIDE DEF u
  <2>2. \A i \in 1..Len(s) : s[i] <= n
    BY DEF Rises
  <2>3. \A i \in 1..Len(u) : u[i] <= n + m
    BY <1>0, <1>2, <2>1, <2>2
  <2>4. ASSUME NEW i \in 1..Len(u), NEW j \in 1..Len(u), i < j PROVE u[i] < u[j]
    <3>1. CASE j <= Len(s)
      <4>1. i \in 1..Len(s) /\ j \in 1..Len(s) /\ u[i] = s[i] /\ u[j] = s[j]
        BY <1>0, <2>1, <2>4, <3>1
      <4> QED
        BY <2>4, <4>1 DEF Rises
    <3>2. CASE j > Len(s)
      <4>1. u[j] = n + j - Len(s) /\ u[j] > n /\ i \in 1..(Len(s) + m)
        BY <1>0, <2>1, <3>2
      <4>2. CASE i <= Len(s)
        <5>1. u[i] = s[i] /\ s[i] <= n /\ s[i] \in Nat
          BY <1>0, <1>2, <2>1, <2>2, <4>1, <4>2
        <5> QED
          BY <1>0, <4>1, <5>1
      <4>3. CASE i > Len(s)
        <5>1. u[i] = n + i - Len(s)
          BY <1>0, <2>1, <4>1, <4>3
        <5> QED
          BY <1>0, <2>4, <4>1, <5>1
      <4> QED
        BY <1>0, <4>2, <4>3
    <3> QED
      BY <1>0, <2>1, <3>1, <3>2
  <2> QED
    BY <2>3, <2>4 DEF Rises, u
<1> QED
  BY <1>0, <1>5 DEF data

\* What dst.Write may do: a prefix of the data goes out, all of it or not.
LEMMA DstWriteOK ==
  ASSUME NEW b \in BatchState, NEW data \in Seq(Nat), NEW d \in DstWrite(b, data)
  PROVE  /\ d \in BatchState /\ d.buf = b.buf /\ d.sent = b.sent
         /\ \E k \in 0..Len(data) : d.out = b.out \o SubSeq(data, 1, k)
<1>0. Len(data) \in Nat /\ b.out \in Seq(Nat)
  BY LenProperties DEF BatchState
<1>1. PICK k \in 0..Len(data), e \in BOOLEAN, f \in BOOLEAN :
        d = [b EXCEPT !.out = @ \o SubSeq(data, 1, k), !.err = e, !.failed = f]
  <2>1. CASE d = [b EXCEPT !.out = @ \o data, !.err = FALSE]
    <3>1. SubSeq(data, 1, Len(data)) = data /\ Len(data) \in 0..Len(data)
      BY <1>0, SubSeqFull
    <3>2. b.failed \in BOOLEAN /\ FALSE \in BOOLEAN
      BY DEF BatchState
    <3>3. d = [b EXCEPT !.out = @ \o SubSeq(data, 1, Len(data)), !.err = FALSE,
                        !.failed = b.failed]
      BY <2>1, <3>1 DEF BatchState
    <3> QED
      BY <3>1, <3>2, <3>3
  <2>2. ASSUME NEW k \in 0..(Len(data) - 1),
               d = [b EXCEPT !.out = @ \o SubSeq(data, 1, k), !.err = TRUE, !.failed = TRUE]
        PROVE  \E l \in 0..Len(data), e \in BOOLEAN, f \in BOOLEAN :
                 d = [b EXCEPT !.out = @ \o SubSeq(data, 1, l), !.err = e, !.failed = f]
    <3>1. k \in 0..Len(data) /\ TRUE \in BOOLEAN
      BY <1>0
    <3> QED
      BY <2>2, <3>1
  <2> QED
    BY <2>1, <2>2 DEF DstWrite
<1>2. \A i \in 1..k : data[i] \in Nat
  BY <1>0, ElementOfSeq
<1>3. b.out \o SubSeq(data, 1, k) \in Seq(Nat)
  BY <1>0, <1>2, SubSeqProperties, ConcatProperties
<1> DEFINE new == b.out \o SubSeq(data, 1, k)
<1>4. d = [b EXCEPT !.out = new, !.err = e, !.failed = f]
  BY <1>1
<1> HIDE DEF new
<1>5. new \in Seq(Nat)
  BY <1>3 DEF new
<1>6. d \in BatchState /\ d.buf = b.buf /\ d.sent = b.sent /\ d.out = new
  BY <1>4, <1>5 DEF BatchState
<1> QED
  BY <1>6 DEF new

\* A flush leaves an empty buffer and what was written in order, also if it fails.
LEMMA FlushOK ==
  ASSUME NEW b, Good(b), NEW d \in flushLocked(b)
  PROVE  Good(d) /\ d.buf = <<>> /\ d.sent = b.sent
<1>0. b \in BatchState /\ b.buf \in Seq(Nat) /\ b.out \in Seq(Nat) /\ b.sent \in Nat
  BY DEF Good, BatchState
<1>1. CASE b.buf = <<>>
  <2>1. d = [b EXCEPT !.err = FALSE]
    BY <1>1 DEF flushLocked
  <2>2. d \in BatchState /\ d.buf = b.buf /\ d.sent = b.sent /\ d.out = b.out
    BY <1>0, <2>1 DEF BatchState
  <2> QED
    BY <1>1, <2>2 DEF Good
<1>2. CASE b.buf # <<>>
  <2>1. PICK x \in DstWrite(b, b.buf) : d = [x EXCEPT !.buf = <<>>, !.timer = "off"]
    BY <1>2 DEF flushLocked
  <2>2. x \in BatchState /\ x.sent = b.sent
    BY <1>0, DstWriteOK
  <2>3. PICK k \in 0..Len(b.buf) : x.out = b.out \o SubSeq(b.buf, 1, k)
    BY <1>0, DstWriteOK
  <2>4. x.out \in Seq(Nat) /\ Rises(x.out, b.sent)
    BY <1>0, <2>3, RisesPrefix DEF Good
  <2>5. d \in BatchState /\ d.buf = <<>> /\ d.sent = b.sent /\ d.out = x.out
    <3>1. <<>> \in Seq(Nat)
      BY EmptySeq
    <3> QED
      BY <2>1, <2>2, <3>1 DEF BatchState
  <2>6. x.out \o <<>> = x.out
    BY <2>4, ConcatEmptySeq
  <2> QED
    BY <2>4, <2>5, <2>6 DEF Good
<1> QED
  BY <1>1, <1>2

\* The part of new bytes that is copied or written, whatever its length.
LEMMA RisesPart ==
  ASSUME NEW s \in Seq(Nat), NEW n \in Nat, NEW m \in Nat, Rises(s, n),
         NEW k \in Int, k <= m
  PROVE  LET part == SubSeq([i \in 1..m |-> n + i], 1, k)
         IN  part \in Seq(Nat) /\ Rises(s \o part, n + m)
<1> DEFINE data == [i \in 1..m |-> n + i]
<1>1. data \in Seq(Nat) /\ Len(data) = m /\ Rises(s \o data, n + m)
  BY RisesMore
<1>2. \A i \in 1..m : data[i] \in Nat
  OBVIOUS
<1> HIDE DEF data
<1>3. SubSeq(data, 1, k) \in Seq(Nat)
  BY <1>1, <1>2, SubSeqProperties
<1>4. CASE k >= 0
  <2>1. k \in 0..Len(data) /\ n + m \in Nat
    BY <1>1, <1>4
  <2> QED
    BY <1>1, <1>3, <2>1, RisesPrefix DEF data
<1>5. CASE k < 0
  <2>1. SubSeq(data, 1, k) = <<>> /\ SubSeq(data, 1, 0) = <<>>
    BY <1>5, SubSeqEmpty
  <2>2. 0 \in 0..Len(data) /\ n + m \in Nat
    BY <1>1
  <2>3. Rises(s \o SubSeq(data, 1, 0), n + m)
    BY <1>1, <2>2, RisesPrefix
  <2> QED
    BY <1>3, <2>1, <2>3 DEF data
<1> QED
  BY <1>4, <1>5

\* The smaller of two numbers.
LEMMA MinOfTwo ==
  ASSUME NEW a \in Int, NEW b \in Int
  PROVE  Min({a, b}) \in Int /\ Min({a, b}) <= a
<1>1. \E x \in {a, b} : \A y \in {a, b} : x =< y
  OBVIOUS
<1>2. Min({a, b}) \in {a, b} /\ \A y \in {a, b} : Min({a, b}) =< y
  BY <1>1 DEF Min
<1> QED
  BY <1>2

\* The buffer after the copy of n new bytes, as far as there is room.
Added(b, n) ==
  [b EXCEPT !.buf = @ \o SubSeq([i \in 1..n |-> b.sent + i], 1, Min({n, BufLen - Len(b.buf)})),
            !.sent = @ + n]
\* Bytes that fit are copied behind those in the buffer.
LEMMA AddedOK ==
  ASSUME NEW b, Good(b), NEW n \in Nat
  PROVE  Good(Added(b, n))
<1> DEFINE data == [i \in 1..n |-> b.sent + i]
           k == Min({n, BufLen - Len(b.buf)})
           part == SubSeq(data, 1, k)
<1>0. /\ b \in BatchState /\ b.out \in Seq(Nat) /\ b.buf \in Seq(Nat) /\ Len(b.buf) \in Nat
      /\ b.out \o b.buf \in Seq(Nat) /\ Rises(b.out \o b.buf, b.sent) /\ b.sent \in Nat
      /\ BufLen \in Nat
  BY BatchAssumption, ConcatProperties, LenProperties DEF Good, BatchState
<1>1. k \in Int /\ k <= n
  <2>1. n \in Int /\ BufLen - Len(b.buf) \in Int
    BY <1>0
  <2> QED
    BY <2>1, MinOfTwo, Zenon
<1>2. Added(b, n) = [b EXCEPT !.buf = b.buf \o part, !.sent = b.sent + n]
  BY DEF Added
<1> HIDE DEF k
<1>3. part \in Seq(Nat) /\ Rises((b.out \o b.buf) \o part, b.sent + n)
  BY <1>0, <1>1, RisesPart
<1> HIDE DEF part
<1>4. b.buf \o part \in Seq(Nat) /\ b.sent + n \in Nat
  BY <1>0, <1>3, ConcatProperties
<1>5. /\ Added(b, n) \in BatchState /\ Added(b, n).out = b.out
      /\ Added(b, n).buf = b.buf \o part /\ Added(b, n).sent = b.sent + n
  BY <1>0, <1>2, <1>4 DEF BatchState
<1>6. b.out \o (b.buf \o part) = (b.out \o b.buf) \o part
  <2>1. b.out \in Seq(Nat) /\ b.buf \in Seq(Nat) /\ part \in Seq(Nat)
    BY <1>0, <1>3
  <2> QED
    BY <2>1, Associates, Zenon
<1> QED
  BY <1>3, <1>5, <1>6 DEF Good

\* Write keeps the order: it flushes first if there is no room, then writes past
\* the buffer or copies into it, and flushes or starts the timer.
LEMMA WriteOK ==
  ASSUME BatchInv, NEW n \in WriteSizes, BatchWrite(n)
  PROVE  BatchInv'
<1> DEFINE data == [i \in 1..n |-> bw.sent + i]
           copied(b) == SubSeq(data, 1, Min({n, BufLen - Len(b.buf)}))
           added(b) == [b EXCEPT !.buf = @ \o copied(b), !.sent = @ + n]
<1>0. /\ n \in Nat /\ BufLen \in Nat /\ bw \in BatchState /\ bw.sent \in Nat
      /\ bwConf.cap \in Nat /\ Len(bw.buf) \in Nat /\ bwConf' = bwConf /\ Good(bw)
  BY BatchAssumption, LenProperties DEF BatchInv, Good, BatchState, BatchWrite
<1>1. PICK b \in (IF n > bwConf.cap - Len(bw.buf) THEN flushLocked(bw)
                  ELSE {[bw EXCEPT !.err = FALSE]}) :
        IF b.err THEN bw' = b
        ELSE IF n > bwConf.cap
        THEN \E d \in DstWrite(b, data) : bw' = [d EXCEPT !.sent = @ + n]
        ELSE IF Len(added(b).buf) >= BufLen \div 2 THEN bw' \in flushLocked(added(b))
        ELSE bw' = [added(b) EXCEPT !.timer = IF bwConf.timed THEN "on" ELSE @]
  BY DEF BatchWrite
<1>2. Good(b) /\ b.sent = bw.sent /\ (n > bwConf.cap => b.buf = <<>>)
  <2>1. CASE n > bwConf.cap - Len(bw.buf)
    BY <1>0, <1>1, <2>1, FlushOK
  <2>2. CASE ~(n > bwConf.cap - Len(bw.buf))
    <3>1. b = [bw EXCEPT !.err = FALSE] /\ ~(n > bwConf.cap)
      BY <1>0, <1>1, <2>2
    <3>2. b \in BatchState /\ b.buf = bw.buf /\ b.out = bw.out /\ b.sent = bw.sent
      BY <1>0, <3>1 DEF BatchState
    <3> QED
      BY <1>0, <3>1, <3>2 DEF Good
  <2> QED
    BY <2>1, <2>2
<1>3. /\ b \in BatchState /\ b.out \in Seq(Nat) /\ b.buf \in Seq(Nat) /\ Len(b.buf) \in Nat
      /\ b.out \o b.buf \in Seq(Nat) /\ Rises(b.out \o b.buf, bw.sent)
  BY <1>2, ConcatProperties, LenProperties DEF Good, BatchState
<1>4. data \in Seq(Nat) /\ Len(data) = n
  BY <1>0, <1>3, RisesMore
<1>5. ASSUME NEW d \in DstWrite(b, data), bw' = [d EXCEPT !.sent = @ + n], n > bwConf.cap
      PROVE  Good(bw')
  <2>1. d \in BatchState /\ d.buf = <<>> /\ d.sent = bw.sent
    BY <1>2, <1>3, <1>4, <1>5, DstWriteOK
  <2>2. PICK k \in 0..n : d.out = b.out \o SubSeq(data, 1, k)
    BY <1>3, <1>4, DstWriteOK
  <2>3. b.out \o b.buf = b.out
    BY <1>2, <1>3, <1>5, ConcatEmptySeq
  <2>4. d.out \in Seq(Nat) /\ Rises(d.out, bw.sent + n)
    <3>1. k \in Int /\ k <= n
      BY <1>0
    <3>2. Rises(d.out, bw.sent + n)
      BY <1>0, <1>3, <2>2, <2>3, <3>1, RisesPart
    <3> QED
      BY <2>1, <3>2 DEF BatchState
  <2>5. d.out \o <<>> = d.out
    BY <2>4, ConcatEmptySeq
  <2>6. bw' \in BatchState /\ bw'.buf = <<>> /\ bw'.out = d.out /\ bw'.sent = bw.sent + n
    <3>1. bw' = [d EXCEPT !.sent = bw.sent + n] /\ bw.sent + n \in Nat
      BY <1>0, <1>5, <2>1
    <3> QED
      BY <2>1, <3>1 DEF BatchState
  <2> QED
    BY <2>4, <2>5, <2>6 DEF Good
<1>6. Good(added(b))
  <2>1. added(b) = Added(b, n)
    BY <1>2 DEF Added
  <2> HIDE DEF added
  <2> QED
    BY <1>0, <1>2, <2>1, AddedOK
<1> HIDE DEF added
<1>7. ASSUME bw' = [added(b) EXCEPT !.timer = IF bwConf.timed THEN "on" ELSE @]
      PROVE  Good(bw')
  <2> DEFINE a == added(b)
             t == IF bwConf.timed THEN "on" ELSE a.timer
  <2>1. a \in BatchState /\ t \in {"off", "on", "due"} /\ bw' = [a EXCEPT !.timer = t]
    BY <1>6, <1>7 DEF Good, BatchState
  <2> HIDE DEF a, t
  <2>2. bw' \in BatchState /\ bw'.out = a.out /\ bw'.buf = a.buf /\ bw'.sent = a.sent
    BY <2>1 DEF BatchState
  <2> QED
    BY <1>6, <2>2 DEF Good, a
<1>8. ASSUME bw' \in flushLocked(added(b)) PROVE Good(bw')
  BY <1>6, <1>8, FlushOK
<1>9. Good(bw')
  BY <1>1, <1>2, <1>5, <1>7, <1>8
<1> QED
  BY <1>0, <1>9 DEF BatchInv, Good

\* Every step keeps the invariant.
LEMMA BatchStep ==
  ASSUME BatchInv, [BatchNext]_BatchVars
  PROVE  BatchInv'
<1>0. bw \in BatchState
  BY DEF BatchInv, Good
<1>1. ASSUME NEW t \in {"off", "due"}, NEW c \in BOOLEAN,
             NEW b, b = [bw EXCEPT !.closed = c, !.timer = t]
      PROVE  Good(b)
  <2>1. b \in BatchState /\ b.out = bw.out /\ b.buf = bw.buf /\ b.sent = bw.sent
    BY <1>0, <1>1 DEF BatchState
  <2> QED
    BY <2>1 DEF BatchInv, Good
<1>2. ASSUME NEW t \in {"off", "due"}, bw' = [bw EXCEPT !.timer = t] PROVE Good(bw')
  <2>1. bw' \in BatchState /\ bw'.out = bw.out /\ bw'.buf = bw.buf /\ bw'.sent = bw.sent
    BY <1>0, <1>2 DEF BatchState
  <2> QED
    BY <2>1 DEF BatchInv, Good
<1>3. ASSUME NEW n \in WriteSizes, BatchWrite(n) PROVE BatchInv'
  BY <1>3, WriteOK
<1>4. CASE BatchFlush
  BY <1>4, FlushOK DEF BatchFlush, BatchInv, Good
<1>5. CASE TimerFires \/ LoopTick
  BY <1>2, <1>5 DEF TimerFires, LoopTick, BatchInv, Good
<1>6. CASE flushLoop
  BY <1>6, FlushOK DEF flushLoop, BatchInv, Good
<1>7. CASE BatchClose
  BY <1>1, <1>7, FlushOK DEF BatchClose, BatchInv, Good
<1>8. CASE UNCHANGED BatchVars
  BY <1>8 DEF BatchVars, BatchInv, Good
<1> QED
  BY <1>3, <1>4, <1>5, <1>6, <1>7, <1>8 DEF BatchNext

\* A new BatchWriter has written nothing.
LEMMA BatchInitOK == BatchInit => BatchInv
<1> SUFFICES ASSUME BatchInit PROVE BatchInv
  OBVIOUS
<1>1. bw \in BatchState
  <2>1. <<>> \in Seq(Nat) /\ FALSE \in BOOLEAN
    BY EmptySeq
  <2> QED
    BY <2>1 DEF BatchInit, BatchState
<1>2. bw.out \o bw.buf = <<>> /\ Len(<<>>) = 0
  BY ConcatEmptySeq, EmptySeq DEF BatchInit
<1>3. Rises(bw.out \o bw.buf, bw.sent)
  BY <1>2 DEF Rises
<1> QED
  BY <1>1, <1>3, BatchAssumption DEF BatchInit, BatchInv, Good

\* Whoever flushes, whatever the capacity of the buffer and wherever dst fails:
\* bytes reach dst in the order they were written, each at most once, and those
\* in the buffer come after them (batch.go:49-121).
THEOREM BytesInOrder == BatchSpec => []BatchInOrder
<1>1. BatchInv /\ [BatchNext]_BatchVars => BatchInv'
  BY BatchStep
<1>2. BatchInv => BatchInOrder
  <2> SUFFICES ASSUME BatchInv, NEW i \in 1..(Len(Stream) - 1)
               PROVE  Stream[i] < Stream[i + 1]
    BY DEF BatchInOrder
  <2>1. Len(Stream) \in Nat /\ Rises(Stream, bw.sent)
    BY ConcatProperties, LenProperties DEF BatchInv, Good, BatchState, Stream
  <2> HIDE DEF Stream
  <2> QED
    BY <2>1 DEF Rises
<1> QED
  BY <1>1, <1>2, BatchInitOK, PTL DEF BatchSpec
-----------------------------------------------------------------------------
\* Nothing is lost unless dst failed, and a closed writer has an empty buffer.
Counts(b) == ~b.failed => Len(b.out) + Len(b.buf) = b.sent
CompleteInv ==
  /\ BatchInv
  /\ bwConf.cap = BufLen => Counts(bw)
  /\ bw.closed => bw.buf = <<>>

\* The length of a concatenation.
LEMMA Lengths ==
  ASSUME NEW s \in Seq(Nat), NEW t \in Seq(Nat)
  PROVE  Len(s \o t) = Len(s) + Len(t) /\ Len(s) \in Nat /\ Len(t) \in Nat
BY ConcatProperties, LenProperties

\* A write that does not fail takes all of the data.
LEMMA DstWriteAll ==
  ASSUME NEW b \in BatchState, NEW data \in Seq(Nat), NEW d \in DstWrite(b, data)
  PROVE  /\ d.closed = b.closed /\ (d.err => d.failed)
         /\ ~d.failed => ~b.failed /\ d.out = b.out \o data
<1>1. CASE d = [b EXCEPT !.out = @ \o data, !.err = FALSE]
  BY <1>1 DEF BatchState
<1>2. ASSUME NEW k \in 0..(Len(data) - 1),
             d = [b EXCEPT !.out = @ \o SubSeq(data, 1, k), !.err = TRUE, !.failed = TRUE]
      PROVE  d.closed = b.closed /\ d.failed
  BY <1>2 DEF BatchState
<1> QED
  BY <1>1, <1>2 DEF DstWrite

\* A flush that does not fail moves the buffer to the destination and loses nothing.
LEMMA FlushCounts ==
  ASSUME NEW b, Good(b), NEW d \in flushLocked(b)
  PROVE  /\ d.closed = b.closed /\ (d.err => d.failed)
         /\ Counts(b) => Counts(d)
<1>0. b \in BatchState /\ b.buf \in Seq(Nat) /\ b.out \in Seq(Nat)
  BY DEF Good, BatchState
<1>1. CASE b.buf = <<>>
  <2>1. d = [b EXCEPT !.err = FALSE]
    BY <1>1 DEF flushLocked
  <2>2. /\ d.buf = b.buf /\ d.sent = b.sent /\ d.out = b.out /\ d.closed = b.closed
        /\ d.err = FALSE /\ d.failed = b.failed
    BY <1>0, <2>1 DEF BatchState
  <2> QED
    BY <2>2 DEF Counts
<1>2. CASE b.buf # <<>>
  <2>1. PICK x \in DstWrite(b, b.buf) : d = [x EXCEPT !.buf = <<>>, !.timer = "off"]
    BY <1>2 DEF flushLocked
  <2>2. x \in BatchState /\ x.sent = b.sent
    BY <1>0, DstWriteOK
  <2>3. /\ x.closed = b.closed /\ (x.err => x.failed)
        /\ ~x.failed => ~b.failed /\ x.out = b.out \o b.buf
    BY <1>0, DstWriteAll
  <2>4. /\ d.closed = x.closed /\ d.err = x.err /\ d.failed = x.failed /\ d.out = x.out
        /\ d.buf = <<>> /\ d.sent = x.sent
    BY <2>1, <2>2 DEF BatchState
  <2> DEFINE x0 == Len(b.out)
             x1 == Len(b.buf)
  <2>5. Len(b.out \o b.buf) = x0 + x1 /\ x0 \in Nat /\ x1 \in Nat /\ Len(<<>>) = 0
    BY <1>0, Lengths, EmptySeq
  <2>6. ASSUME Counts(b), ~d.failed PROVE Len(d.out) + Len(d.buf) = d.sent
    <3>1. x0 + x1 = d.sent
      BY <2>2, <2>3, <2>4, <2>6 DEF Counts
    <3>2. Len(d.out) = x0 + x1 /\ Len(d.buf) = 0
      BY <2>3, <2>4, <2>5, <2>6
    <3> HIDE DEF x0, x1
    <3> QED
      BY <2>5, <3>1, <3>2
  <2> QED
    BY <2>3, <2>4, <2>6 DEF Counts
<1> QED
  BY <1>1, <1>2

\* Write accepts all of its data: what has no room after a flush goes past the buffer.
LEMMA WriteCounts ==
  ASSUME CompleteInv, NEW n \in WriteSizes, BatchWrite(n)
  PROVE  /\ bwConf.cap = BufLen => Counts(bw')
         /\ ~bw'.closed
<1> DEFINE data == [i \in 1..n |-> bw.sent + i]
           copied(b) == SubSeq(data, 1, Min({n, BufLen - Len(b.buf)}))
           added(b) == [b EXCEPT !.buf = @ \o copied(b), !.sent = @ + n]
<1>0. /\ n \in Nat /\ BufLen \in Nat /\ bw \in BatchState /\ bw.sent \in Nat
      /\ bwConf.cap \in Nat /\ Len(bw.buf) \in Nat /\ Good(bw) /\ ~bw.closed
  BY BatchAssumption, LenProperties DEF CompleteInv, BatchInv, Good, BatchState, BatchWrite
<1>1. PICK b \in (IF n > bwConf.cap - Len(bw.buf) THEN flushLocked(bw)
                  ELSE {[bw EXCEPT !.err = FALSE]}) :
        IF b.err THEN bw' = b
        ELSE IF n > bwConf.cap
        THEN \E d \in DstWrite(b, data) : bw' = [d EXCEPT !.sent = @ + n]
        ELSE IF Len(added(b).buf) >= BufLen \div 2 THEN bw' \in flushLocked(added(b))
        ELSE bw' = [added(b) EXCEPT !.timer = IF bwConf.timed THEN "on" ELSE @]
  BY DEF BatchWrite
<1>2. /\ Good(b) /\ b.sent = bw.sent /\ ~b.closed /\ (b.err => b.failed)
      /\ bwConf.cap = BufLen => Counts(b)
      /\ b.buf = <<>> \/ n <= bwConf.cap - Len(b.buf)
      /\ n > bwConf.cap => b.buf = <<>>
  <2>1. CASE n > bwConf.cap - Len(bw.buf)
    <3>1. Good(b) /\ b.buf = <<>> /\ b.sent = bw.sent
      BY <1>0, <1>1, <2>1, FlushOK
    <3>2. b.closed = bw.closed /\ (b.err => b.failed) /\ (Counts(bw) => Counts(b))
      BY <1>0, <1>1, <2>1, FlushCounts
    <3> QED
      BY <1>0, <3>1, <3>2 DEF CompleteInv
  <2>2. CASE ~(n > bwConf.cap - Len(bw.buf))
    <3>1. b = [bw EXCEPT !.err = FALSE] /\ ~(n > bwConf.cap)
      BY <1>0, <1>1, <2>2
    <3>2. /\ b \in BatchState /\ b.buf = bw.buf /\ b.out = bw.out /\ b.sent = bw.sent
          /\ ~b.closed /\ b.err = FALSE /\ b.failed = bw.failed
      BY <1>0, <3>1 DEF BatchState
    <3>3. Good(b) /\ (Counts(bw) => Counts(b))
      BY <1>0, <3>2 DEF Good, Counts
    <3>4. n <= bwConf.cap - Len(b.buf)
      BY <1>0, <2>2, <3>2
    <3> QED
      BY <3>1, <3>2, <3>3, <3>4 DEF CompleteInv
  <2> QED
    BY <2>1, <2>2
<1>3. /\ b \in BatchState /\ b.out \in Seq(Nat) /\ b.buf \in Seq(Nat) /\ Len(b.buf) \in Nat
      /\ Len(b.out) \in Nat /\ b.out \o b.buf \in Seq(Nat) /\ Rises(b.out \o b.buf, bw.sent)
  BY <1>2, ConcatProperties, LenProperties DEF Good, BatchState
<1>4. data \in Seq(Nat) /\ Len(data) = n
  BY <1>0, <1>3, RisesMore
<1>5. ASSUME NEW d \in DstWrite(b, data), bw' = [d EXCEPT !.sent = @ + n], n > bwConf.cap
      PROVE  (bwConf.cap = BufLen => Counts(bw')) /\ ~bw'.closed
  <2>1. d \in BatchState /\ d.buf = <<>> /\ d.sent = bw.sent
    BY <1>2, <1>3, <1>4, <1>5, DstWriteOK
  <2>2. d.closed = b.closed /\ (~d.failed => ~b.failed /\ d.out = b.out \o data)
    BY <1>3, <1>4, DstWriteAll
  <2>3. /\ bw'.out = d.out /\ bw'.buf = <<>> /\ bw'.failed = d.failed /\ bw'.closed = d.closed
        /\ bw'.sent = bw.sent + n
    BY <1>5, <2>1 DEF BatchState
  <2> HIDE DEF data
  <2>4. Len(b.out \o data) = Len(b.out) + n /\ Len(<<>>) = 0
    BY <1>3, <1>4, Lengths, EmptySeq
  <2>5. ASSUME bwConf.cap = BufLen, ~bw'.failed PROVE Len(bw'.out) + Len(bw'.buf) = bw'.sent
    <3> DEFINE o == Len(b.out)
    <3>1. o + 0 = bw.sent
      BY <1>2, <1>5, <2>2, <2>3, <2>4, <2>5 DEF Counts
    <3>2. Len(bw'.out) = o + n /\ Len(bw'.buf) = 0 /\ bw'.sent = bw.sent + n
      BY <2>2, <2>3, <2>4, <2>5
    <3>3. o \in Nat /\ n \in Nat /\ bw.sent \in Nat
      BY <1>0, <1>3
    <3> HIDE DEF o
    <3> QED
      BY <3>1, <3>2, <3>3
  <2> QED
    BY <1>2, <2>2, <2>3, <2>5 DEF Counts
<1>6. Good(added(b)) /\ added(b) = Added(b, n)
  <2>1. added(b) = Added(b, n)
    BY <1>2 DEF Added
  <2> HIDE DEF added
  <2> QED
    BY <1>0, <1>2, <2>1, AddedOK
<1>7. /\ added(b).closed = b.closed
      /\ bwConf.cap = BufLen /\ ~(n > bwConf.cap) => Counts(added(b))
  <2> DEFINE k == Min({n, BufLen - Len(b.buf)})
             part == SubSeq(data, 1, k)
  <2>1. added(b) = [b EXCEPT !.buf = b.buf \o part, !.sent = bw.sent + n]
    BY <1>2
  <2> HIDE DEF added, part
  <2>2. /\ added(b).closed = b.closed /\ added(b).failed = b.failed /\ added(b).out = b.out
        /\ added(b).buf = b.buf \o part /\ added(b).sent = bw.sent + n
    BY <1>3, <2>1 DEF BatchState
  <2>3. ASSUME bwConf.cap = BufLen, ~(n > bwConf.cap), ~b.failed
        PROVE  Len(b.out) + Len(b.buf \o part) = bw.sent + n
    <3>1. n <= BufLen - Len(b.buf)
      <4>1. Len(<<>>) = 0
        BY EmptySeq
      <4> QED
        BY <1>0, <1>2, <1>3, <2>3, <4>1
    <3>2. k = n
      <4> DEFINE x == BufLen - Len(b.buf)
      <4>1. n \in Int /\ x \in Int /\ n <= x
        BY <1>0, <1>3, <3>1
      <4> HIDE DEF x
      <4>2. \A y \in {n, x} : n =< y
        BY <4>1
      <4>3. Min({n, x}) \in {n, x} /\ \A y \in {n, x} : Min({n, x}) =< y
        BY <4>2 DEF Min
      <4>4. Min({n, x}) = n
        BY <4>1, <4>3
      <4> QED
        BY <4>4 DEF x
    <3>3. part = data
      BY <1>4, <3>2, SubSeqFull DEF part
    <3> HIDE DEF data
    <3> DEFINE o == Len(b.out)
               l == Len(b.buf)
    <3>4. Len(b.buf \o part) = l + n
      BY <1>3, <1>4, <3>3, Lengths
    <3>5. o + l = bw.sent
      BY <1>2, <2>3 DEF Counts
    <3>6. o \in Nat /\ l \in Nat /\ n \in Nat /\ bw.sent \in Nat
      BY <1>0, <1>3
    <3> HIDE DEF l
    <3>7. o + (l + n) = bw.sent + n
      BY <3>5, <3>6
    <3> QED
      BY <3>4, <3>7
  <2> QED
    BY <2>2, <2>3 DEF Counts
<1> DEFINE Done(d) == (bwConf.cap = BufLen => Counts(d)) /\ ~d.closed
<1> HIDE DEF added
<1>8. ASSUME bw' \in flushLocked(added(b)), ~(n > bwConf.cap) PROVE Done(bw')
  <2>1. bw'.closed = added(b).closed /\ (Counts(added(b)) => Counts(bw'))
    BY <1>6, <1>8, FlushCounts
  <2> QED
    BY <1>2, <1>7, <1>8, <2>1
<1>9. ASSUME bw' = [added(b) EXCEPT !.timer = IF bwConf.timed THEN "on" ELSE @],
             ~(n > bwConf.cap)
      PROVE  Done(bw')
  <2> DEFINE a == added(b)
             t == IF bwConf.timed THEN "on" ELSE a.timer
  <2>1. a \in BatchState /\ bw' = [a EXCEPT !.timer = t]
    BY <1>6, <1>9 DEF Good
  <2> HIDE DEF a, t
  <2>2. /\ bw'.out = a.out /\ bw'.buf = a.buf /\ bw'.sent = a.sent /\ bw'.failed = a.failed
        /\ bw'.closed = a.closed
    BY <2>1 DEF BatchState
  <2> QED
    BY <1>2, <1>7, <1>9, <2>2 DEF Counts, a
<1>10. ASSUME b.err, bw' = b PROVE Done(bw')
  BY <1>2, <1>10 DEF Counts
<1> QED
  BY <1>1, <1>5, <1>8, <1>9, <1>10

\* Every step keeps count of the bytes, unless the destination has failed.
LEMMA CompleteStep ==
  ASSUME CompleteInv, [BatchNext]_BatchVars
  PROVE  CompleteInv'
<1>0. BatchInv /\ Good(bw) /\ bw \in BatchState
  BY DEF CompleteInv, BatchInv, Good
<1>1. BatchInv'
  BY <1>0, BatchStep
<1>2. ASSUME NEW b, Good(b), b.sent = bw.sent, Counts(bw) => Counts(b), bw' \in flushLocked(b),
             bwConf' = bwConf
      PROVE  CompleteInv'
  <2>1. bw'.buf = <<>>
    BY <1>2, FlushOK
  <2>2. Counts(b) => Counts(bw')
    BY <1>2, FlushCounts
  <2> QED
    BY <1>1, <1>2, <2>1, <2>2 DEF CompleteInv, Counts
<1>3. ASSUME NEW t, bw' = [bw EXCEPT !.timer = t], bwConf' = bwConf PROVE CompleteInv'
  <2>1. /\ bw'.out = bw.out /\ bw'.buf = bw.buf /\ bw'.sent = bw.sent /\ bw'.failed = bw.failed
        /\ bw'.closed = bw.closed
    BY <1>0, <1>3 DEF BatchState
  <2> QED
    BY <1>1, <1>3, <2>1 DEF CompleteInv, Counts
<1>4. ASSUME NEW n \in WriteSizes, BatchWrite(n) PROVE CompleteInv'
  <2>1. (bwConf.cap = BufLen => Counts(bw')) /\ ~bw'.closed /\ bwConf' = bwConf
    BY <1>4, WriteCounts DEF BatchWrite
  <2> QED
    BY <1>1, <2>1 DEF CompleteInv, Counts
<1>5. CASE BatchFlush
  BY <1>0, <1>2, <1>5 DEF BatchFlush
<1>6. CASE TimerFires \/ LoopTick
  BY <1>3, <1>6 DEF TimerFires, LoopTick
<1>7. CASE flushLoop
  <2>1. bwConf' = bwConf /\ (bw' \in flushLocked(bw) \/ bw' = bw)
    BY <1>7 DEF flushLoop
  <2>2. CASE bw' = bw
    BY <1>1, <2>1, <2>2 DEF CompleteInv, Counts
  <2> QED
    BY <1>0, <1>2, <2>1, <2>2
<1>8. CASE BatchClose
  <2> DEFINE b == [bw EXCEPT !.closed = TRUE, !.timer = "off"]
  <2>1. /\ b \in BatchState /\ b.out = bw.out /\ b.buf = bw.buf /\ b.sent = bw.sent
        /\ b.failed = bw.failed
    BY <1>0 DEF BatchState
  <2>2. bw' \in flushLocked(b) /\ bwConf' = bwConf
    BY <1>8 DEF BatchClose
  <2> HIDE DEF b
  <2>3. Good(b) /\ (Counts(bw) => Counts(b))
    BY <1>0, <2>1 DEF Good, Counts
  <2> QED
    BY <1>2, <2>1, <2>2, <2>3
<1>9. CASE UNCHANGED BatchVars
  BY <1>1, <1>9 DEF BatchVars, CompleteInv, Counts
<1> QED
  BY <1>4, <1>5, <1>6, <1>7, <1>8, <1>9 DEF BatchNext

\* Unless dst fails, a BatchWriter whose buffer is as large as its capacity has
\* every accepted byte in its buffer or written, and an empty buffer once it is
\* closed (batch.go:48-121).
THEOREM NothingMissing == BatchSpec => []BatchComplete
<1>1. BatchInit => CompleteInv
  <2> SUFFICES ASSUME BatchInit PROVE CompleteInv
    OBVIOUS
  <2>1. bw.out = <<>> /\ bw.buf = <<>> /\ bw.sent = 0 /\ Len(<<>>) = 0
    BY EmptySeq DEF BatchInit
  <2> QED
    BY <2>1, BatchInitOK DEF CompleteInv, Counts
<1>2. CompleteInv /\ [BatchNext]_BatchVars => CompleteInv'
  BY CompleteStep
<1>3. CompleteInv => BatchComplete
  <2> SUFFICES ASSUME CompleteInv PROVE BatchComplete
    OBVIOUS
  <2>1. Len(Stream) = Len(bw.out) + Len(bw.buf)
    BY ConcatProperties DEF CompleteInv, BatchInv, Good, BatchState, Stream
  <2> QED
    BY <2>1 DEF CompleteInv, Counts, BatchComplete
<1> QED
  BY <1>1, <1>2, <1>3, PTL DEF BatchSpec

-----------------------------------------------------------------------------
\* The items a + 1 to b.
Items(a, b) == [i \in 1..(b - a) |-> a + i]

PumpPC == {"loop", "read", "write", "count", "close", "closeBoth", "close2", "done"}
ConfType == rlConf \in [mode: {"direct", "metrics", "packet"}, net: {"tcp", "quic"}]
PeerType == rlPeer \in [Sides -> [sent: Nat, ended: BOOLEAN]]
ConnType == rlConn \in [Sides -> [read: Nat, out: Seq(Nat), open: BOOLEAN]]
PumpType == rlPump \in [Sides -> [pc: PumpPC, buf: Seq(Nat)]]
StatType ==
  rlStat \in [closed: BOOLEAN, count: [Sides -> Nat], errors: Nat, failed: BOOLEAN]
RelayTypeOK == ConfType /\ PeerType /\ ConnType /\ PumpType /\ StatType

\* The pump that reads from s has written the first items; in its loop all that it
\* has read, before a write all but its buffer.
PumpOK(s) ==
  LET n == Len(rlConn[Other(s)].out) IN
  /\ rlConn[Other(s)].out = Items(0, n)
  /\ n <= rlConn[s].read /\ rlConn[s].read <= rlPeer[s].sent
  /\ rlPump[s].pc \in {"loop", "read", "count"} => n = rlConn[s].read
  /\ rlPump[s].pc = "write" => rlPump[s].buf = Items(n, rlConn[s].read)
CountOK(s) ==
  LET n == Len(rlConn[Other(s)].out) IN
  rlConf.mode # "direct" =>
    n = rlStat.count[s] + IF rlPump[s].pc = "count" THEN Len(rlPump[s].buf) ELSE 0

RelayInv == RelayTypeOK /\ \A s \in Sides : PumpOK(s) /\ CountOK(s)

\* Consecutive items, one run behind another.
LEMMA ItemsConcat ==
  ASSUME NEW a \in Nat, NEW b \in Nat, a <= b
  PROVE  /\ Items(0, a) \in Seq(Nat) /\ Items(a, b) \in Seq(Nat)
         /\ Len(Items(0, a)) = a /\ Len(Items(a, b)) = b - a
         /\ Items(0, a) \o Items(a, b) = Items(0, b)
<1>1. Items(0, a) \in Seq(Nat) /\ Items(a, b) \in Seq(Nat) /\ Items(0, b) \in Seq(Nat)
  BY DEF Items
<1>2. Len(Items(0, a)) = a /\ Len(Items(a, b)) = b - a /\ Len(Items(0, b)) = b
  BY DEF Items
<1> DEFINE c == Items(0, a) \o Items(a, b)
<1>3. c \in Seq(Nat) /\ Len(c) = b
  <2>1. c \in Seq(Nat) /\ Len(c) = Len(Items(0, a)) + Len(Items(a, b))
    BY <1>1, ConcatProperties
  <2> QED
    BY <1>2, <2>1
<1>4. ASSUME NEW i \in 1..b PROVE c[i] = Items(0, b)[i]
  <2>1. c[i] = IF i <= a THEN Items(0, a)[i] ELSE Items(a, b)[i - a]
    BY <1>1, <1>2, ConcatProperties
  <2> QED
    BY <2>1 DEF Items
<1>5. c = Items(0, b)
  BY <1>1, <1>2, <1>3, <1>4, SeqEqual
<1> QED
  BY <1>1, <1>2, <1>5

\* The effect of the assignments of the actions, one lemma for each form.
LEMMA PumpMoves ==
  ASSUME PumpType, NEW s \in Sides, NEW from, NEW to \in PumpPC, At(s, from, to)
  PROVE  /\ PumpType' /\ rlPump'[s].pc = to /\ rlPump'[s].buf = rlPump[s].buf
         /\ \A t \in Sides \ {s} : rlPump'[t] = rlPump[t]
BY DEF PumpType, At

\* Opening or closing a connection leaves what it has carried alone.
LEMMA ConnOpens ==
  ASSUME ConnType, NEW s \in Sides, NEW b \in BOOLEAN,
         rlConn' = [rlConn EXCEPT ![s].open = b]
  PROVE  /\ ConnType'
         /\ \A t \in Sides : rlConn'[t].read = rlConn[t].read /\ rlConn'[t].out = rlConn[t].out
BY DEF ConnType

\* Counting an error leaves the count of the items alone.
LEMMA ErrorCounted ==
  ASSUME StatType, NEW b \in BOOLEAN, NEW n \in Nat,
         rlStat' = [rlStat EXCEPT !.failed = b, !.errors = n]
  PROVE  StatType' /\ rlStat'.count = rlStat.count
BY DEF StatType

\* The two sides of a relay.
LEMMA OtherSide ==
  ASSUME NEW s \in Sides
  PROVE  /\ Other(s) \in Sides /\ Other(s) # s /\ Other(Other(s)) = s
         /\ \A t \in Sides : t # s => t = Other(s)
BY DEF Sides, Other

\* What a step does that moves no item for the pump that reads from t.
Keeps(t) ==
  /\ rlConn'[Other(t)].out = rlConn[Other(t)].out /\ rlConn'[t].read = rlConn[t].read
  /\ rlPump'[t].buf = rlPump[t].buf /\ rlStat'.count[t] = rlStat.count[t]
  /\ rlConf' = rlConf /\ rlPeer'[t].sent \in Nat /\ rlPeer'[t].sent >= rlPeer[t].sent
  /\ \/ rlPump'[t].pc = rlPump[t].pc
     \/ rlPump[t].pc = "loop" /\ rlPump'[t].pc = "read"
     \/ rlPump[t].pc # "count" /\ rlPump'[t].pc \in {"close", "closeBoth", "close2", "done"}

\* What holds of a pump holds as long as nothing of it changes.
LEMMA KeepsOK ==
  ASSUME RelayTypeOK, NEW t \in Sides, PumpOK(t), CountOK(t), Keeps(t)
  PROVE  PumpOK(t)' /\ CountOK(t)'
<1>1. /\ rlConn[t].read \in Nat /\ rlPeer[t].sent \in Nat
  BY DEF RelayTypeOK, ConnType, PeerType
<1>2. PumpOK(t)'
  BY <1>1 DEF PumpOK, Keeps
<1>3. CountOK(t)'
  BY DEF CountOK, Keeps
<1> QED
  BY <1>2, <1>3

\* Peers that send, hang up or are lost disturb no pump.
LEMMA PeerStep ==
  ASSUME RelayInv, NEW s \in Sides, PeerSend(s) \/ PeerEnd(s)
  PROVE  RelayInv'
<1>1. PeerType' /\ \A t \in Sides : rlPeer'[t].sent \in Nat /\ rlPeer'[t].sent >= rlPeer[t].sent
  <2>1. CASE PeerSend(s)
    <3>1. PeerType /\ rlPeer' = [rlPeer EXCEPT ![s].sent = @ + 1]
      BY <2>1 DEF PeerSend, RelayInv, RelayTypeOK
    <3> QED
      BY <3>1 DEF PeerType
  <2>2. CASE PeerEnd(s)
    <3>1. PeerType /\ rlPeer' = [rlPeer EXCEPT ![s].ended = TRUE]
      BY <2>2 DEF PeerEnd, RelayInv, RelayTypeOK
    <3>2. PeerType' /\ \A t \in Sides : rlPeer'[t].sent = rlPeer[t].sent
      BY <3>1 DEF PeerType
    <3>3. \A t \in Sides : rlPeer[t].sent \in Nat
      BY <3>1 DEF PeerType
    <3> QED
      BY <3>2, <3>3
  <2> QED
    BY <2>1, <2>2
<1>2. UNCHANGED <<rlConf, rlConn, rlPump, rlStat>>
  BY DEF PeerSend, PeerEnd
<1>3. RelayTypeOK'
  BY <1>1, <1>2 DEF RelayInv, RelayTypeOK, ConfType, ConnType, PumpType, StatType
<1>4. \A t \in Sides : Keeps(t)
  BY <1>1, <1>2 DEF Keeps
<1> QED
  BY <1>3, <1>4, KeepsOK DEF RelayInv

\* A step of the pump that reads from s leaves the other pump alone, if it keeps
\* what that pump has read and written.
LEMMA OtherPump ==
  ASSUME RelayInv, RelayTypeOK', NEW s \in Sides,
         UNCHANGED <<rlConf, rlPeer>>,
         rlPump'[Other(s)] = rlPump[Other(s)],
         rlConn'[s].out = rlConn[s].out, rlConn'[Other(s)].read = rlConn[Other(s)].read,
         rlStat'.count[Other(s)] = rlStat.count[Other(s)],
         PumpOK(s)', CountOK(s)'
  PROVE  RelayInv'
<1>1. Keeps(Other(s))
  BY OtherSide DEF Keeps, RelayInv, RelayTypeOK, PeerType
<1>2. PumpOK(Other(s))' /\ CountOK(Other(s))'
  BY <1>1, KeepsOK, OtherSide DEF RelayInv
<1> QED
  BY <1>2, OtherSide DEF RelayInv

\* A step that moves no item at all.
LEMMA QuietStep ==
  ASSUME RelayInv, NEW s \in Sides, NEW from, NEW to \in PumpPC, At(s, from, to),
         UNCHANGED <<rlConf, rlPeer>>,
         ConnType', StatType', rlStat'.count = rlStat.count,
         \A t \in Sides : rlConn'[t].read = rlConn[t].read /\ rlConn'[t].out = rlConn[t].out,
         \/ from = "loop" /\ to = "read"
         \/ from # "count" /\ to \in {"close", "closeBoth", "close2", "done"}
  PROVE  RelayInv'
<1>1. /\ PumpType' /\ rlPump[s].pc = from /\ rlPump'[s].pc = to
      /\ rlPump'[s].buf = rlPump[s].buf
      /\ \A t \in Sides \ {s} : rlPump'[t] = rlPump[t]
  BY PumpMoves DEF RelayInv, RelayTypeOK, At
<1>2. RelayTypeOK'
  BY <1>1 DEF RelayInv, RelayTypeOK, ConfType, PeerType
<1>3. Keeps(s)
  BY <1>1, OtherSide DEF Keeps, RelayInv, RelayTypeOK, PeerType
<1>4. PumpOK(s)' /\ CountOK(s)'
  BY <1>3, KeepsOK DEF RelayInv
<1> QED
  BY <1>1, <1>2, <1>4, OtherSide, OtherPump

\* The steps that only end a pump, close connections and count errors.
LEMMA EndStep ==
  ASSUME RelayInv, NEW s \in Sides,
         \/ PumpLoop(s) \/ PumpReadEnds(s) \/ PumpWriteFails(s)
         \/ PumpClose(s) \/ closeBoth(s) \/ PumpCloseSecond(s)
  PROVE  RelayInv'
<1> USE DEF PumpPC
<1>0. ConnType /\ StatType /\ Other(s) \in Sides /\ "client" \in Sides /\ "server" \in Sides
  BY OtherSide DEF RelayInv, RelayTypeOK, Sides
<1>a. ASSUME UNCHANGED rlConn
      PROVE  /\ ConnType'
             /\ \A t \in Sides : rlConn'[t].read = rlConn[t].read /\ rlConn'[t].out = rlConn[t].out
  BY <1>0, <1>a DEF ConnType
<1>b. ASSUME UNCHANGED rlStat PROVE StatType' /\ rlStat'.count = rlStat.count
  BY <1>0, <1>b DEF StatType
<1>1. CASE PumpLoop(s)
  <2>1. At(s, "loop", "close") \/ At(s, "loop", "read")
    BY <1>1 DEF PumpLoop
  <2>2. UNCHANGED <<rlConf, rlPeer, rlConn, rlStat>>
    BY <1>1 DEF PumpLoop
  <2> QED
    BY <1>a, <1>b, <2>1, <2>2, QuietStep
<1>2. CASE PumpReadEnds(s)
  <2>1. PICK lost \in BOOLEAN :
          rlStat' = [rlStat EXCEPT !.failed = @ \/ lost,
                        !.errors = IF rlConf.mode = "packet" /\ ~rlStat.closed
                                      /\ (lost \/ ReadFails(s)) THEN @ + 1 ELSE @]
    BY <1>2 DEF PumpReadEnds
  <2> DEFINE b == rlStat.failed \/ lost
             n == IF rlConf.mode = "packet" /\ ~rlStat.closed /\ (lost \/ ReadFails(s))
                  THEN rlStat.errors + 1 ELSE rlStat.errors
             o == rlConn[s].open /\ rlConf.mode # "packet"
  <2>2. b \in BOOLEAN /\ n \in Nat /\ o \in BOOLEAN
    BY <1>0 DEF StatType
  <2>3. /\ rlStat' = [rlStat EXCEPT !.failed = b, !.errors = n]
        /\ rlConn' = [rlConn EXCEPT ![s].open = o]
    BY <1>2, <2>1 DEF PumpReadEnds
  <2>4. StatType' /\ rlStat'.count = rlStat.count
    BY <1>0, <2>2, <2>3, ErrorCounted
  <2>5. /\ ConnType'
        /\ \A t \in Sides : rlConn'[t].read = rlConn[t].read /\ rlConn'[t].out = rlConn[t].out
    BY <1>0, <2>2, <2>3, ConnOpens
  <2>6. At(s, "read", "close") /\ UNCHANGED <<rlConf, rlPeer>>
    BY <1>2 DEF PumpReadEnds
  <2> QED
    BY <2>4, <2>5, <2>6, QuietStep
<1>3. CASE PumpWriteFails(s)
  <2> DEFINE n == IF rlConf.mode = "packet" /\ ~rlStat.closed THEN rlStat.errors + 1
                  ELSE rlStat.errors
  <2>1. n \in Nat /\ TRUE \in BOOLEAN
    BY <1>0 DEF StatType
  <2>2. rlStat' = [rlStat EXCEPT !.failed = TRUE, !.errors = n]
    BY <1>3 DEF PumpWriteFails
  <2>3. StatType' /\ rlStat'.count = rlStat.count
    BY <1>0, <2>1, <2>2, ErrorCounted
  <2>4. At(s, "write", "close") /\ UNCHANGED <<rlConf, rlPeer, rlConn>>
    BY <1>3 DEF PumpWriteFails
  <2> QED
    BY <1>a, <2>3, <2>4, QuietStep
<1>4. CASE PumpClose(s)
  <2>1. CASE rlConf.mode # "packet"
    <3>1. /\ At(s, "close", "close2") /\ UNCHANGED <<rlConf, rlPeer, rlStat>>
          /\ rlConn' = [rlConn EXCEPT ![Other(s)].open = FALSE]
      BY <1>4, <2>1 DEF PumpClose
    <3>2. /\ ConnType'
          /\ \A t \in Sides : rlConn'[t].read = rlConn[t].read /\ rlConn'[t].out = rlConn[t].out
      BY <1>0, <3>1, ConnOpens
    <3> QED
      BY <1>b, <3>1, <3>2, QuietStep
  <2>2. CASE rlConf.mode = "packet"
    <3>1. /\ At(s, "close", "done") \/ At(s, "close", "closeBoth")
          /\ UNCHANGED <<rlConf, rlPeer, rlConn>>
          /\ rlStat' = [rlStat EXCEPT !.closed = TRUE]
      BY <1>4, <2>2 DEF PumpClose
    <3>2. StatType' /\ rlStat'.count = rlStat.count
      BY <1>0, <3>1 DEF StatType
    <3> QED
      BY <1>a, <3>1, <3>2, QuietStep
  <2> QED
    BY <2>1, <2>2
<1>5. CASE closeBoth(s) \/ PumpCloseSecond(s)
  <2>1. /\ At(s, "closeBoth", "close2") \/ At(s, "close2", "done")
        /\ UNCHANGED <<rlConf, rlPeer, rlStat>>
    BY <1>5 DEF closeBoth, PumpCloseSecond
  <2>2. PICK t \in Sides : rlConn' = [rlConn EXCEPT ![t].open = FALSE]
    BY <1>0, <1>5 DEF closeBoth, PumpCloseSecond
  <2>3. /\ ConnType'
        /\ \A u \in Sides : rlConn'[u].read = rlConn[u].read /\ rlConn'[u].out = rlConn[u].out
    BY <1>0, <2>2, ConnOpens
  <2> QED
    BY <1>b, <2>1, <2>3, QuietStep
<1> QED
  BY <1>1, <1>2, <1>3, <1>4, <1>5

\* A read puts the next items into the buffer.
LEMMA ReadStep ==
  ASSUME RelayInv, NEW s \in Sides, PumpRead(s)
  PROVE  RelayInv'
<1>0. ConnType /\ PumpType /\ PeerType
  BY DEF RelayInv, RelayTypeOK
<1>1. PICK n \in (rlConn[s].read + 1)..rlPeer[s].sent :
        /\ rlConn' = [rlConn EXCEPT ![s].read = n]
        /\ rlPump' = [rlPump EXCEPT ![s] = [pc |-> "write",
                        buf |-> [i \in 1..(n - rlConn[s].read) |-> rlConn[s].read + i]]]
  BY DEF PumpRead
<1>2. /\ rlConn[s].read \in Nat /\ rlPeer[s].sent \in Nat /\ n \in Nat
      /\ rlConn[s].read <= n /\ n <= rlPeer[s].sent
  BY <1>0 DEF ConnType, PeerType
<1>3. ConnType' /\ rlConn'[s].read = n /\ \A t \in Sides : rlConn'[t].out = rlConn[t].out
  BY <1>0, <1>1, <1>2 DEF ConnType
<1>4. \A t \in Sides \ {s} : rlConn'[t].read = rlConn[t].read /\ rlPump'[t] = rlPump[t]
  BY <1>0, <1>1 DEF ConnType, PumpType
<1>5. /\ rlPump'[s].pc = "write" /\ rlPump'[s].buf = Items(rlConn[s].read, n)
      /\ Items(rlConn[s].read, n) \in Seq(Nat)
  BY <1>0, <1>1, <1>2, ItemsConcat DEF PumpType, Items
<1>6. PumpType'
  <2>1. [pc |-> "write", buf |-> Items(rlConn[s].read, n)] \in [pc: PumpPC, buf: Seq(Nat)]
    BY <1>5 DEF PumpPC
  <2>2. rlPump' = [rlPump EXCEPT ![s] = [pc |-> "write", buf |-> Items(rlConn[s].read, n)]]
    BY <1>1 DEF Items
  <2> QED
    BY <1>0, <2>1, <2>2 DEF PumpType
<1>7. UNCHANGED <<rlConf, rlPeer, rlStat>> /\ rlPump[s].pc = "read"
  BY DEF PumpRead
<1>8. RelayTypeOK'
  BY <1>3, <1>6, <1>7 DEF RelayInv, RelayTypeOK, ConfType, PeerType, StatType
<1>9. PumpOK(s)' /\ CountOK(s)'
  BY <1>2, <1>3, <1>5, <1>7, OtherSide DEF RelayInv, PumpOK, CountOK
<1> QED
  BY <1>3, <1>4, <1>7, <1>8, <1>9, OtherSide, OtherPump

\* A write adds the buffer to what was written: all that was read is then written.
LEMMA WriteStep ==
  ASSUME RelayInv, NEW s \in Sides, PumpWrite(s)
  PROVE  RelayInv'
<1> DEFINE out == rlConn[Other(s)].out
           pc == IF rlConf.mode = "direct" THEN "loop" ELSE "count"
           k == Len(out)
           n == rlConn[s].read
<1>0. /\ ConnType /\ PumpType /\ PumpOK(s) /\ CountOK(s) /\ Other(s) \in Sides
      /\ out \in Seq(Nat) /\ rlPump[s].buf \in Seq(Nat) /\ rlConn[s].read \in Nat
  BY OtherSide DEF RelayInv, RelayTypeOK, ConnType, PumpType
<1>1. /\ rlPump[s].pc = "write" /\ UNCHANGED <<rlConf, rlPeer, rlStat>>
      /\ At(s, "write", pc)
      /\ rlConn' = [rlConn EXCEPT ![Other(s)].out = @ \o rlPump[s].buf]
  BY DEF PumpWrite, At
<1>2. k \in Nat /\ n \in Nat /\ out = Items(0, k) /\ k <= n
  BY <1>0, LenProperties DEF PumpOK
<1>3. rlPump[s].buf = Items(k, n)
  BY <1>0, <1>1 DEF PumpOK
<1>4. /\ Items(0, k) \o Items(k, n) = Items(0, n) /\ Len(Items(k, n)) = n - k
      /\ Items(0, n) \in Seq(Nat) /\ Len(Items(0, n)) = n
  <2> HIDE DEF k, n
  <2>1. /\ Items(0, k) \o Items(k, n) = Items(0, n) /\ Len(Items(k, n)) = n - k
    BY <1>2, ItemsConcat
  <2>2. n <= n
    BY <1>2
  <2>3. Items(0, n) \in Seq(Nat) /\ Len(Items(0, n)) = n
    BY <1>2, <2>2, ItemsConcat
  <2> QED
    BY <2>1, <2>3
<1>5. rlConn' = [rlConn EXCEPT ![Other(s)].out = Items(0, n)]
  BY <1>1, <1>2, <1>3, <1>4
<1>6. /\ ConnType' /\ rlConn'[Other(s)].out = Items(0, n)
      /\ \A t \in Sides : rlConn'[t].read = rlConn[t].read
      /\ rlConn'[s].out = rlConn[s].out
  <2> DEFINE to == Other(s)
             new == Items(0, n)
  <2>1. to \in Sides /\ to # s /\ new \in Seq(Nat) /\ rlConn' = [rlConn EXCEPT ![to].out = new]
    BY <1>4, <1>5, OtherSide
  <2> HIDE DEF to, new
  <2>2. /\ ConnType' /\ rlConn'[to].out = new /\ \A t \in Sides : rlConn'[t].read = rlConn[t].read
        /\ rlConn'[s].out = rlConn[s].out
    BY <1>0, <2>1 DEF ConnType
  <2> QED
    BY <2>2 DEF to, new
<1>7. /\ PumpType' /\ rlPump'[s].pc = pc /\ rlPump'[s].buf = rlPump[s].buf
      /\ rlPump'[Other(s)] = rlPump[Other(s)]
  BY <1>0, <1>1, PumpMoves, OtherSide DEF PumpPC
<1>8. RelayTypeOK'
  BY <1>1, <1>6, <1>7 DEF RelayInv, RelayTypeOK, ConfType, PeerType, StatType
<1>9. PumpOK(s)'
  <2>1. Len(rlConn'[Other(s)].out) = n /\ rlConn'[s].read = n /\ n <= rlPeer[s].sent
    BY <1>0, <1>4, <1>6 DEF PumpOK
  <2>2. rlConn'[Other(s)].out = Items(0, Len(rlConn'[Other(s)].out))
    BY <1>6, <2>1
  <2>3. rlPump'[s].pc \in {"loop", "count"} /\ rlPeer' = rlPeer
    BY <1>1, <1>7
  <2> HIDE DEF n
  <2> QED
    BY <1>2, <2>1, <2>2, <2>3 DEF PumpOK
<1>10. rlStat.count[s] \in Nat
  BY DEF RelayInv, RelayTypeOK, StatType
<1>11. CountOK(s)'
  <2>1. /\ Len(rlConn'[Other(s)].out) = n /\ Len(rlPump'[s].buf) = n - k
        /\ rlPump'[s].pc = pc /\ UNCHANGED <<rlConf, rlStat>>
    BY <1>1, <1>3, <1>4, <1>6, <1>7
  <2>2. rlConf.mode # "direct" => k = rlStat.count[s]
    BY <1>0, <1>1, <1>10 DEF CountOK
  <2> QED
    BY <1>2, <1>10, <2>1, <2>2 DEF CountOK
<1> QED
  BY <1>1, <1>6, <1>7, <1>8, <1>9, <1>11, OtherSide, OtherPump

\* onByte counts what was written.
LEMMA CountStep ==
  ASSUME RelayInv, NEW s \in Sides, PumpCount(s)
  PROVE  RelayInv'
<1>0. PumpType /\ StatType /\ ConnType /\ PumpOK(s) /\ CountOK(s) /\ Other(s) \in Sides
  BY OtherSide DEF RelayInv, RelayTypeOK
<1>1. At(s, "count", "loop") /\ UNCHANGED <<rlConf, rlPeer, rlConn>>
  BY DEF PumpCount
<1>2. Len(rlPump[s].buf) \in Nat
  BY <1>0, LenProperties DEF PumpType
<1>3. rlStat' = [rlStat EXCEPT !.count[s] = @ + Len(rlPump[s].buf)]
  BY DEF PumpCount
<1>4. /\ StatType' /\ rlStat'.count[s] = rlStat.count[s] + Len(rlPump[s].buf)
      /\ rlStat'.count[Other(s)] = rlStat.count[Other(s)] /\ rlStat.count[s] \in Nat
  <2> DEFINE n == Len(rlPump[s].buf)
             more == [rlStat.count EXCEPT ![s] = @ + n]
  <2>1. rlStat.count \in [Sides -> Nat] /\ n \in Nat /\ Other(s) # s
    BY <1>0, <1>2, OtherSide DEF StatType
  <2> HIDE DEF n
  <2>2. /\ more \in [Sides -> Nat] /\ more[s] = rlStat.count[s] + n
        /\ more[Other(s)] = rlStat.count[Other(s)] /\ rlStat.count[s] \in Nat
    BY <1>0, <2>1
  <2>3. rlStat' = [rlStat EXCEPT !.count = more]
    BY <1>3 DEF n
  <2> HIDE DEF more
  <2>4. StatType' /\ rlStat'.count = more
    BY <1>0, <2>2, <2>3 DEF StatType
  <2> QED
    BY <2>2, <2>4 DEF n
<1>5. /\ PumpType' /\ rlPump[s].pc = "count" /\ rlPump'[s].pc = "loop"
      /\ rlPump'[Other(s)] = rlPump[Other(s)]
  BY <1>0, <1>1, PumpMoves, OtherSide DEF PumpPC, At
<1>6. RelayTypeOK'
  BY <1>1, <1>4, <1>5 DEF RelayInv, RelayTypeOK, ConfType, PeerType, ConnType
<1>7. PumpOK(s)'
  BY <1>0, <1>1, <1>5 DEF PumpOK
<1>8. CountOK(s)'
  BY <1>0, <1>1, <1>2, <1>4, <1>5 DEF CountOK
<1> QED
  BY <1>1, <1>4, <1>5, <1>6, <1>7, <1>8, OtherPump

\* The two halves of the induction.
LEMMA RelayInitOK ==
  ASSUME RelayInit
  PROVE  RelayInv
<1>1. RelayTypeOK
  BY DEF RelayInit, RelayTypeOK, ConfType, PeerType, ConnType, PumpType, StatType, PumpPC
<1>2. ASSUME NEW s \in Sides PROVE PumpOK(s) /\ CountOK(s)
  <2>1. /\ rlConn[Other(s)].out = <<>> /\ rlConn[s].read = 0 /\ rlPeer[s].sent = 0
        /\ rlPump[s].pc = "loop" /\ rlStat.count[s] = 0
    BY OtherSide DEF RelayInit
  <2>2. <<>> = Items(0, 0) /\ Len(<<>>) = 0
    BY DEF Items
  <2> QED
    BY <2>1, <2>2 DEF PumpOK, CountOK
<1> QED
  BY <1>1, <1>2 DEF RelayInv

\* Every step keeps what was relayed in order and counted.
LEMMA RelayStepOK ==
  ASSUME RelayInv, [RelayNext]_RelayVars
  PROVE  RelayInv'
<1>1. ASSUME RelayInv, UNCHANGED RelayVars PROVE RelayInv'
  BY <1>1 DEF RelayVars, RelayInv, RelayTypeOK, ConfType, PeerType, ConnType, PumpType,
              StatType, PumpOK, CountOK
<1> QED
  BY <1>1, PeerStep, EndStep, ReadStep, WriteStep, CountStep DEF RelayNext, PumpStep

\* For any number of items and however the two pumps interleave and end: what a
\* relay writes to one side is what the other side sent, in order and from the
\* start, and a relay that counts has counted it (relay.go:55-89, 101-166).
THEOREM RelaysInOrder == RelaySpec => []RelayInOrder
<1>1. RelayInit => RelayInv
  BY RelayInitOK
<1>2. RelayInv /\ [RelayNext]_RelayVars => RelayInv'
  BY RelayStepOK
<1>3. RelayInv => RelayInOrder
  <2> SUFFICES ASSUME RelayInv, NEW s \in Sides
               PROVE  LET out == rlConn[Other(s)].out IN
                      /\ out = [i \in 1..Len(out) |-> i] /\ Len(out) <= rlPeer[s].sent
                      /\ rlConf.mode # "direct" /\ rlPump[s].pc # "count"
                           => rlStat.count[s] = Len(out)
    BY DEF RelayInOrder
  <2> DEFINE out == rlConn[Other(s)].out
  <2>1. /\ Len(out) \in Nat /\ rlConn[s].read \in Nat /\ rlPeer[s].sent \in Nat
        /\ rlStat.count[s] \in Nat
    BY OtherSide, LenProperties DEF RelayInv, RelayTypeOK, ConnType, PeerType, StatType
  <2>2. Items(0, Len(out)) = [i \in 1..Len(out) |-> i]
    BY <2>1 DEF Items
  <2> QED
    BY <2>1, <2>2 DEF RelayInv, PumpOK, CountOK
<1> QED
  BY <1>1, <1>2, <1>3, PTL DEF RelaySpec
-----------------------------------------------------------------------------
\* Until a Relay sets its flag, a connection that is closed was closed by its own
\* pump, which is about to set the flag; only the shutdown comes after the flag.
QuietInv ==
  /\ QuietShutdown
  /\ rlConf.mode = "packet" => \A s \in Sides :
       /\ rlStat.closed \/ rlConn[s].open \/ rlPump[s].pc = "close"
       /\ rlPump[s].pc \in {"closeBoth", "close2"} => rlStat.closed

\* A step that counts no error, closes no connection and leaves the flag alone.
LEMMA QuietKept ==
  ASSUME QuietInv, UNCHANGED rlConf,
         rlStat'.errors = rlStat.errors, rlStat'.failed = rlStat.failed,
         rlStat'.closed = rlStat.closed,
         \A s \in Sides :
           /\ rlConn'[s].open = rlConn[s].open
           /\ \/ rlPump'[s].pc = rlPump[s].pc
              \/ rlPump[s].pc # "close" /\ rlPump'[s].pc \notin {"closeBoth", "close2"}
  PROVE  QuietInv'
BY DEF QuietInv, QuietShutdown

\* Once the flag is set, or if the relay has none, only the errors matter.
LEMMA QuietClosed ==
  ASSUME rlStat'.closed \/ rlConf'.mode # "packet", QuietShutdown'
  PROVE  QuietInv'
BY DEF QuietInv

\* What counting an error assigns.
LEMMA ErrorFields ==
  ASSUME StatType, NEW b \in BOOLEAN, NEW n \in Nat,
         rlStat' = [rlStat EXCEPT !.failed = b, !.errors = n]
  PROVE  rlStat'.failed = b /\ rlStat'.errors = n /\ rlStat'.closed = rlStat.closed
BY DEF StatType

\* Every step of a pump keeps it.
LEMMA QuietStepOK ==
  ASSUME RelayInv, QuietInv, NEW s \in Sides, PumpStep(s)
  PROVE  QuietInv'
<1>0. ConnType /\ StatType /\ PumpType /\ Other(s) \in Sides
  BY OtherSide DEF RelayInv, RelayTypeOK
<1>1. CASE PumpLoop(s)
  <2>1. At(s, "loop", "close") \/ At(s, "loop", "read")
    BY <1>1 DEF PumpLoop
  <2>2. UNCHANGED <<rlConf, rlConn, rlStat>>
    BY <1>1 DEF PumpLoop
  <2>3. \A t \in Sides : \/ rlPump'[t].pc = rlPump[t].pc
                         \/ rlPump[t].pc # "close" /\ rlPump'[t].pc \notin {"closeBoth", "close2"}
    BY <1>0, <2>1, PumpMoves DEF PumpPC, At
  <2> QED
    BY <2>2, <2>3, QuietKept
<1>2. CASE PumpRead(s)
  <2>1. PICK n, b :
          /\ rlConn' = [rlConn EXCEPT ![s].read = n]
          /\ rlPump' = [rlPump EXCEPT ![s] = [pc |-> "write", buf |-> b]]
    BY <1>2 DEF PumpRead
  <2>2. rlPump[s].pc = "read" /\ UNCHANGED <<rlConf, rlStat>>
    BY <1>2 DEF PumpRead
  <2>3. \A t \in Sides : rlConn'[t].open = rlConn[t].open
    BY <1>0, <2>1 DEF ConnType
  <2>4. rlPump'[s].pc = "write" /\ \A t \in Sides \ {s} : rlPump'[t] = rlPump[t]
    <3>1. rlPump'[s] = [pc |-> "write", buf |-> b]
      BY <1>0, <2>1 DEF PumpType
    <3>2. rlPump'[s].pc = "write"
      BY <3>1
    <3> QED
      BY <1>0, <2>1, <3>2 DEF PumpType
  <2> QED
    BY <2>2, <2>3, <2>4, QuietKept
<1>3. CASE PumpReadEnds(s)
  <2>1. PICK lost \in BOOLEAN :
          rlStat' = [rlStat EXCEPT !.failed = @ \/ lost,
                        !.errors = IF rlConf.mode = "packet" /\ ~rlStat.closed
                                      /\ (lost \/ ReadFails(s)) THEN @ + 1 ELSE @]
    BY <1>3 DEF PumpReadEnds
  <2> DEFINE b == rlStat.failed \/ lost
             n == IF rlConf.mode = "packet" /\ ~rlStat.closed /\ (lost \/ ReadFails(s))
                  THEN rlStat.errors + 1 ELSE rlStat.errors
             o == rlConn[s].open /\ rlConf.mode # "packet"
  <2>2. b \in BOOLEAN /\ n \in Nat /\ o \in BOOLEAN
    BY <1>0 DEF StatType
  <2>3. /\ rlStat' = [rlStat EXCEPT !.failed = b, !.errors = n]
        /\ rlConn' = [rlConn EXCEPT ![s].open = o]
    BY <1>3, <2>1 DEF PumpReadEnds
  <2>4. rlStat'.failed = b /\ rlStat'.errors = n /\ rlStat'.closed = rlStat.closed
    BY <1>0, <2>2, <2>3, ErrorFields
  <2>5. rlPump[s].pc = "read" /\ UNCHANGED rlConf
    BY <1>3 DEF PumpReadEnds, At
  <2>6. rlConf.mode = "packet" /\ ~rlStat.closed => ~ReadFails(s)
    BY <2>5 DEF QuietInv, ReadFails
  <2>7. QuietShutdown'
    BY <2>4, <2>6 DEF QuietInv, QuietShutdown
  <2>8. rlPump'[s].pc = "close" /\ \A t \in Sides \ {s} : rlPump'[t] = rlPump[t]
    BY <1>0, <1>3, PumpMoves DEF PumpReadEnds, PumpPC
  <2>9. \A t \in Sides \ {s} : rlConn'[t] = rlConn[t]
    BY <1>0, <2>3 DEF ConnType
  <2> HIDE DEF b, n, o
  <2> QED
    BY <2>4, <2>5, <2>7, <2>8, <2>9 DEF QuietInv
<1>4. CASE PumpWrite(s)
  <2>1. rlPump[s].pc = "write" /\ UNCHANGED <<rlConf, rlStat>>
    BY <1>4 DEF PumpWrite
  <2>2. PICK b : rlConn' = [rlConn EXCEPT ![Other(s)].out = b]
    BY <1>4 DEF PumpWrite
  <2>3. \A t \in Sides : rlConn'[t].open = rlConn[t].open
    BY <1>0, <2>2 DEF ConnType
  <2>4. PICK to \in {"loop", "count"} : At(s, "write", to)
    BY <1>4 DEF PumpWrite, At
  <2>5. rlPump'[s].pc = to /\ \A t \in Sides \ {s} : rlPump'[t] = rlPump[t]
    BY <1>0, <2>4, PumpMoves DEF PumpPC
  <2> QED
    BY <2>1, <2>3, <2>5, QuietKept
<1>5. CASE PumpWriteFails(s)
  <2> DEFINE n == IF rlConf.mode = "packet" /\ ~rlStat.closed THEN rlStat.errors + 1
                  ELSE rlStat.errors
  <2>1. n \in Nat /\ TRUE \in BOOLEAN
    BY <1>0 DEF StatType
  <2>2. rlStat' = [rlStat EXCEPT !.failed = TRUE, !.errors = n]
    BY <1>5 DEF PumpWriteFails
  <2>3. rlStat'.failed = TRUE /\ rlStat'.closed = rlStat.closed
    BY <1>0, <2>1, <2>2, ErrorFields
  <2>4. At(s, "write", "close") /\ UNCHANGED <<rlConf, rlConn>>
    BY <1>5 DEF PumpWriteFails
  <2>5. rlPump'[s].pc = "close" /\ \A t \in Sides \ {s} : rlPump'[t] = rlPump[t]
    BY <1>0, <2>4, PumpMoves DEF PumpPC
  <2> QED
    BY <2>3, <2>4, <2>5 DEF QuietInv, QuietShutdown
<1>6. CASE PumpCount(s)
  <2>1. At(s, "count", "loop") /\ UNCHANGED <<rlConf, rlConn>>
    BY <1>6 DEF PumpCount
  <2>2. PICK c : rlStat' = [rlStat EXCEPT !.count[s] = c]
    BY <1>6 DEF PumpCount
  <2>3. /\ rlStat'.errors = rlStat.errors /\ rlStat'.failed = rlStat.failed
        /\ rlStat'.closed = rlStat.closed
    BY <1>0, <2>2 DEF StatType
  <2>4. /\ rlPump[s].pc = "count" /\ rlPump'[s].pc = "loop"
        /\ \A t \in Sides \ {s} : rlPump'[t] = rlPump[t]
    BY <1>0, <2>1, PumpMoves DEF PumpPC, At
  <2> QED
    BY <2>1, <2>3, <2>4, QuietKept
<1>7. CASE PumpClose(s)
  <2>1. \/ rlConf.mode # "packet" /\ UNCHANGED rlStat
        \/ rlConf.mode = "packet" /\ rlStat' = [rlStat EXCEPT !.closed = TRUE]
    BY <1>7 DEF PumpClose
  <2>2. /\ rlStat'.errors = rlStat.errors /\ rlStat'.failed = rlStat.failed
        /\ rlStat'.closed \/ rlConf.mode # "packet"
    BY <1>0, <2>1 DEF StatType
  <2>3. UNCHANGED rlConf
    BY <1>7 DEF PumpClose
  <2> QED
    BY <2>2, <2>3, QuietClosed DEF QuietInv, QuietShutdown
<1>8. CASE closeBoth(s) \/ PumpCloseSecond(s)
  <2>1. rlPump[s].pc \in {"closeBoth", "close2"} /\ UNCHANGED <<rlConf, rlStat>>
    BY <1>8 DEF closeBoth, PumpCloseSecond, At
  <2> QED
    BY <2>1, QuietClosed DEF QuietInv, QuietShutdown
<1> QED
  BY <1>1, <1>2, <1>3, <1>4, <1>5, <1>6, <1>7, <1>8 DEF PumpStep

\* However the pumps interleave: the pump whose connection the other one closes
\* finds the flag set, so a Relay counts an error only if a peer was lost or a
\* write failed (relay.go:64-69, 91-97).
THEOREM ShutsDownQuietly == RelaySpec => []QuietShutdown
<1>1. RelayInit => RelayInv /\ QuietInv
  <2>1. RelayInit => QuietInv
    BY DEF RelayInit, QuietInv, QuietShutdown
  <2> QED
    BY <2>1, RelayInitOK
<1>2. RelayInv /\ QuietInv /\ [RelayNext]_RelayVars => (RelayInv /\ QuietInv)'
  <2> SUFFICES ASSUME RelayInv, QuietInv, [RelayNext]_RelayVars PROVE QuietInv'
    BY RelayStepOK
  <2>1. ASSUME NEW s \in Sides, PeerSend(s) \/ PeerEnd(s) PROVE QuietInv'
    BY <2>1, QuietKept DEF PeerSend, PeerEnd
  <2>2. CASE UNCHANGED RelayVars
    BY <2>2, QuietKept DEF RelayVars
  <2> QED
    BY <2>1, <2>2, QuietStepOK DEF RelayNext
<1>3. QuietInv => QuietShutdown
  BY DEF QuietInv
<1> QED
  BY <1>1, <1>2, <1>3, PTL DEF RelaySpec
=============================================================================
