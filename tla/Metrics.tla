------------------------------- MODULE Metrics ------------------------------
(***************************************************************************)
(* Metrics (conn/metrics.go): counters that goroutines update, read and    *)
(* reset one atomic operation at a time.  RecordLatency works under the    *)
(* mutex; Reset takes it only for the histogram, Snapshot not at all.      *)
(***************************************************************************)
EXTENDS Integers, Sequences, FiniteSetsExt

CONSTANTS
  Recorders,   \* goroutines that record
  Latencies,   \* latencies in ns
  ReadSizes,   \* packet sizes
  Records      \* bound: calls of the recorders

\* Goroutines are finitely many, and a size is the length of what was read.
ASSUME MetricAssumption ==
  /\ IsFiniteSet(Recorders) /\ "reset" \notin Recorders
  /\ Latencies \subseteq Int
  /\ ReadSizes \subseteq Nat /\ ReadSizes # {}

VARIABLES
  mt,       \* [read, bytes, avg, count, hist, samples]; samples is a history
  mtPc,     \* control point of each recorder, and of the caller of Reset
  mtArg,    \* the argument of the call of a recorder
  mtLoad,   \* the count that RecordLatency has loaded
  mtCalls,  \* how many calls the recorders have made
  mtMu,     \* whether the mutex is held
  mtRaced,  \* whether a Reset has overlapped a call
  mtSnap    \* the call of Snapshot: [pc, read, bytes]

MetricVars == <<mt, mtPc, mtArg, mtLoad, mtCalls, mtMu, mtRaced, mtSnap>>

Buckets == 0..7
NoMetrics == [read |-> 0, bytes |-> 0, avg |-> 0, count |-> 0, hist |-> [b \in Buckets |-> 0],
              samples |-> {}]
MetricInit ==
  /\ mt = NoMetrics
  /\ mtPc = [p \in Recorders \cup {"reset"} |-> "idle"]
  /\ mtArg = [p \in Recorders |-> 0] /\ mtLoad = [p \in Recorders |-> 0]
  /\ mtCalls = 0
  /\ mtMu = FALSE /\ mtRaced = FALSE
  /\ mtSnap = [pc |-> "idle", read |-> 0, bytes |-> 0]

Busy == \E p \in Recorders : mtPc[p] # "idle"
MtGoto(p, from, to) == mtPc[p] = from /\ mtPc' = [mtPc EXCEPT ![p] = to]
Begin(p, to, n) ==
  /\ MtGoto(p, "idle", to)
  /\ mtCalls < Records /\ mtCalls' = mtCalls + 1
  /\ mtArg' = [mtArg EXCEPT ![p] = n]
  /\ mtRaced' = (mtRaced \/ mtPc["reset"] # "idle")

\* RecordRead; RecordWrite does the same with two other counters.
RecordRead(p, n) ==
  /\ Begin(p, "bytes", n)
  /\ mt' = [mt EXCEPT !.read = @ + 1]
  /\ UNCHANGED <<mtLoad, mtMu, mtSnap>>
RecordBytes(p) ==
  /\ MtGoto(p, "bytes", "idle")
  /\ mt' = [mt EXCEPT !.bytes = @ + mtArg[p]]
  /\ mtArg' = [mtArg EXCEPT ![p] = 0]
  /\ UNCHANGED <<mtLoad, mtCalls, mtMu, mtRaced, mtSnap>>

\* Go's division rounds towards zero.
Quotient(a, b) == IF a >= 0 THEN a \div b ELSE -((-a) \div b)
Bucket(ns) == Cardinality({t \in {10^3, 10^4, 10^5, 10^6, 10^7, 10^8, 5 * 10^8} : ns >= t})

RecordLatency(p, ns) ==
  /\ Begin(p, "average", ns)
  /\ ~mtMu /\ mtMu' = TRUE
  /\ mtLoad' = [mtLoad EXCEPT ![p] = mt.count]
  /\ UNCHANGED <<mt, mtSnap>>
AverageDrifts(p) ==  \* mutant of UpdateAverage: adds a share of the sample itself
  /\ MtGoto(p, "average", "count")
  /\ mt' = [mt EXCEPT !.avg = @ + Quotient(mtArg[p], mtLoad[p] + 1)]
  /\ UNCHANGED <<mtArg, mtLoad, mtCalls, mtMu, mtRaced, mtSnap>>
UpdateAverage(p) ==
  /\ MtGoto(p, "average", "count")
  /\ mt' = [mt EXCEPT !.avg = IF mtLoad[p] = 0 THEN mtArg[p]
                              ELSE @ + Quotient(mtArg[p] - @, mtLoad[p] + 1)]
  /\ UNCHANGED <<mtArg, mtLoad, mtCalls, mtMu, mtRaced, mtSnap>>
CountSample(p) ==
  /\ MtGoto(p, "count", "hist")
  /\ mt' = [mt EXCEPT !.count = @ + 1, !.samples = @ \cup {mtArg[p]}]
  /\ UNCHANGED <<mtArg, mtLoad, mtCalls, mtMu, mtRaced, mtSnap>>
UpdateHistogram(p) ==
  /\ MtGoto(p, "hist", "idle")
  /\ mt' = [mt EXCEPT !.hist[Bucket(mtArg[p])] = @ + 1]
  /\ mtMu' = FALSE
  /\ mtArg' = [mtArg EXCEPT ![p] = 0] /\ mtLoad' = [mtLoad EXCEPT ![p] = 0]
  /\ UNCHANGED <<mtCalls, mtRaced, mtSnap>>

\* Reset: the packet counters, the byte counters, average, count, histogram.
ResetStore(from, to, m) ==
  /\ MtGoto("reset", from, to)
  /\ mt' = m
  /\ mtRaced' = (mtRaced \/ Busy \/ mtSnap.pc # "idle")
  /\ UNCHANGED <<mtArg, mtLoad, mtCalls, mtMu, mtSnap>>
Reset ==
  \/ mt # NoMetrics /\ ResetStore("idle", "bytes", [mt EXCEPT !.read = 0])
  \/ ResetStore("bytes", "average", [mt EXCEPT !.bytes = 0])
  \/ ResetStore("average", "count", [mt EXCEPT !.avg = 0])
  \/ ResetStore("count", "hist", [mt EXCEPT !.count = 0, !.samples = {}])
  \/ ~mtMu /\ ResetStore("hist", "idle", [mt EXCEPT !.hist = NoMetrics.hist])

\* Snapshot loads the packets first, the bytes later; what else it loads is
\* independent of both.
Snapshot ==
  /\ \/ mtSnap.pc = "idle" /\ mtSnap' = [mtSnap EXCEPT !.pc = "bytes", !.read = mt.read]
     \/ mtSnap.pc = "bytes" /\ mtSnap' = [mtSnap EXCEPT !.pc = "done", !.bytes = mt.bytes]
  /\ mtRaced' = (mtRaced \/ mtPc["reset"] # "idle")
  /\ UNCHANGED <<mt, mtPc, mtArg, mtLoad, mtCalls, mtMu>>

MetricNext ==
  \/ Reset \/ Snapshot
  \/ \E p \in Recorders :
       \/ RecordBytes(p) \/ UpdateAverage(p) \/ CountSample(p) \/ UpdateHistogram(p)
       \/ \E n \in ReadSizes : RecordRead(p, n)
       \/ \E ns \in Latencies : RecordLatency(p, ns)

MetricSpec == MetricInit /\ [][MetricNext]_MetricVars
-----------------------------------------------------------------------------
\* As long as no Reset overlaps a call: between calls the histogram holds as many
\* samples as were counted and the average lies within the samples, since the
\* mutex makes the update of the three one step (metrics.go:46-84); and a snapshot
\* shows the bytes of all packets it shows, but for those that are being recorded,
\* since it loads the packets first (metrics.go:34-37, 104-116).
MetricsConsistent ==
  ~mtRaced =>
    /\ ~Busy /\ mtPc["reset"] = "idle" =>
         /\ mt.count = MapThenSumSet(LAMBDA b : mt.hist[b], Buckets)
         /\ mt.samples # {} => Min(mt.samples) <= mt.avg /\ mt.avg <= Max(mt.samples)
    /\ mtSnap.pc = "done" =>
         mtSnap.bytes >= (mtSnap.read - Cardinality(Recorders)) * Min(ReadSizes)
=============================================================================
