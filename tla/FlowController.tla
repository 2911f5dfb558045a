--------------------------- MODULE FlowController ---------------------------
(***************************************************************************)
(* FlowController (conn/flow.go) and the goroutines that call it the way   *)
(* MineConn.WritePacket does: Acquire, write the packet, Release.  The     *)
(* counter is atomic; the mutex guards only the loop of Acquire, and       *)
(* Release takes neither the mutex nor any other lock.  maxItems is left   *)
(* out: the constructor stores it and no code reads it.                    *)
(***************************************************************************)
EXTENDS Integers, Sequences, FiniteSetsExt

CONSTANTS
  Procs,     \* the calling goroutines
  NoProc,    \* the owner of a mutex that is free
  Sizes,     \* packet sizes
  MaxSize,   \* the largest of them
  MaxBytes   \* FlowController.maxBytes

ASSUME FlowAssumption ==
  /\ NoProc \notin Procs
  /\ MaxSize \in Nat /\ Sizes \subseteq 0..MaxSize
  /\ MaxBytes \in Nat \ {0}

VARIABLES
  calls,    \* which of Acquire and AcquireNonBlock the program uses, never changed
  pc,       \* control point of each goroutine
  size,     \* the size a goroutine asks for or has been granted
  current,  \* FlowController.current
  mu,       \* owner of FlowController.mu
  waiters   \* goroutines in cond.Wait; Signal wakes the one that came first

vars == <<calls, pc, size, current, mu, waiters>>

Init ==
  /\ calls \in SUBSET {"Acquire", "AcquireNonBlock"}
  /\ pc = [p \in Procs |-> "idle"]
  /\ size = [p \in Procs |-> 0]
  /\ current = 0
  /\ mu = NoProc
  /\ waiters = <<>>

Goto(p, from, to) == pc[p] = from /\ pc' = [pc EXCEPT ![p] = to] /\ UNCHANGED calls

\* Acquire locks the mutex, loads the counter, and then either waits, which
\* queues it for a Signal and unlocks the mutex, or adds its size and unlocks.
Acquire(p, n) ==
  /\ "Acquire" \in calls
  /\ Goto(p, "idle", "test")
  /\ mu = NoProc /\ mu' = p
  /\ size' = [size EXCEPT ![p] = n]
  /\ UNCHANGED <<current, waiters>>

AcquireTestUnlocked(p) ==  \* mutant of AcquireTest: unlocks before it adds
  /\ Goto(p, "test", IF current >= MaxBytes THEN "wait" ELSE "grant")
  /\ mu' = NoProc
  /\ UNCHANGED <<size, current, waiters>>
AcquireTest(p) ==
  /\ Goto(p, "test", IF current >= MaxBytes THEN "wait" ELSE "grant")
  /\ UNCHANGED <<size, current, mu, waiters>>

AcquireWait(p) ==
  /\ Goto(p, "wait", "asleep")
  /\ waiters' = Append(waiters, p)
  /\ mu' = NoProc
  /\ UNCHANGED <<size, current>>

AcquireRelock(p) ==
  /\ Goto(p, "awake", "test")
  /\ mu = NoProc /\ mu' = p
  /\ UNCHANGED <<size, current, waiters>>

AcquireGrant(p) ==
  /\ Goto(p, "grant", "held")
  /\ current' = current + size[p]
  /\ mu' = NoProc
  /\ UNCHANGED <<size, waiters>>

\* AcquireNonBlock loads the counter and adds to it later, without the mutex.
\* A call that returns ErrQueueFull changes nothing.
AcquireNonBlock(p, n) ==
  /\ "AcquireNonBlock" \in calls
  /\ Goto(p, "idle", "add")
  /\ current + n <= MaxBytes
  /\ size' = [size EXCEPT ![p] = n]
  /\ UNCHANGED <<current, mu, waiters>>

NonBlockAdd(p) ==
  /\ Goto(p, "add", "held")
  /\ current' = current + size[p]
  /\ UNCHANGED <<size, mu, waiters>>

\* Release subtracts, then signals.
ReleaseItem(p) ==  \* mutant of Release: counts packets, not bytes
  /\ Goto(p, "held", "signal")
  /\ current' = current - 1
  /\ UNCHANGED <<size, mu, waiters>>
Release(p) ==
  /\ Goto(p, "held", "signal")
  /\ current' = current - size[p]
  /\ UNCHANGED <<size, mu, waiters>>

SignalForgotten(p) ==  \* mutant of Signal: wakes nobody
  /\ Goto(p, "signal", "idle")
  /\ UNCHANGED <<size, current, mu, waiters>>
Signal(p) ==
  /\ pc[p] = "signal"
  /\ IF waiters = <<>>
     THEN pc' = [pc EXCEPT ![p] = "idle"] /\ UNCHANGED waiters
     ELSE /\ pc' = [pc EXCEPT ![p] = "idle", ![Head(waiters)] = "awake"]
          /\ waiters' = Tail(waiters)
  /\ UNCHANGED <<calls, size, current, mu>>

InCall(p) ==
  \/ AcquireTest(p) \/ AcquireWait(p) \/ AcquireRelock(p) \/ AcquireGrant(p)
  \/ NonBlockAdd(p) \/ Release(p) \/ Signal(p)

Next ==
  \E p \in Procs : InCall(p) \/ \E n \in Sizes : Acquire(p, n) \/ AcquireNonBlock(p, n)

Spec == Init /\ [][Next]_vars

\* A goroutine inside a call runs on, and MineConn.WritePacket reaches its
\* deferred Release because the write of the packet returns.  A relock competes
\* for the mutex; sync.Mutex hands it over to a waiter that starves.
Fairness == \A p \in Procs : WF_vars(InCall(p)) /\ SF_vars(AcquireRelock(p))
FairSpec == Spec /\ Fairness

-----------------------------------------------------------------------------
Holders == {p \in Procs : pc[p] = "held"}

\* Every variable has its type, and the counter never becomes negative.
TypeOK ==
  /\ calls \subseteq {"Acquire", "AcquireNonBlock"}
  /\ pc \in [Procs -> {"idle", "test", "wait", "asleep", "awake", "grant", "add",
                       "held", "signal"}]
  /\ size \in [Procs -> 0..MaxSize]
  /\ current \in Nat
  /\ mu \in Procs \cup {NoProc}
  /\ waiters \in Seq(Procs)

\* The counter is the number of bytes of the packets being written: nothing is
\* lost or counted twice however calls interleave (flow.go:34-59).
Accounting == current = MapThenSumSet(LAMBDA p : size[p], Holders)

\* While goroutines call only Acquire, the packet that is admitted last may
\* exceed the limit, but only by less than one packet, because test and add are
\* under one lock (flow.go:34-44).
OneOver == calls = {"Acquire"} => current < MaxBytes + MaxSize

\* A goroutine that sleeps in Acquire is woken, unless everything has been
\* released (flow.go:34-44, 56-59).
WaiterMovesOn == \A p \in Procs : pc[p] = "asleep" ~> pc[p] # "asleep" \/ current = 0

\* A goroutine does not sleep on while there is room (flow.go:33).
NoIdleWait ==
  \A p \in Procs : pc[p] = "asleep" /\ current < MaxBytes
                   ~> pc[p] # "asleep" \/ current >= MaxBytes
=============================================================================
