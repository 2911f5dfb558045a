-------------------------------- MODULE MCConn ------------------------------
(***************************************************************************)
(* Model-checking module of package conn.  Its components do not call each *)
(* other but for WritePacket, whose flow control MineConn has as a         *)
(* counter, so a behaviour is one of one component, which part names.      *)
(***************************************************************************)
EXTENDS FlowController, PriorityQueue, Batch, Queues, Metrics, MineConn

CONSTANT Parts   \* the components to explore

VARIABLE part

allVars == <<vars, pqVars, BatchVars, QueueVars, MetricVars, ConnVars, part>>

\* The choices in the initial state of a component that is not explored are fixed.
ConnInits ==
  /\ part \in Parts
  /\ Init /\ PqInit /\ BatchInit /\ QueueInit /\ MetricInit /\ ConnInit
  /\ part # "flow" => calls = {}
  /\ part # "batch" => bwConf = [cap |-> Min(BufCaps), timed |-> FALSE]
  /\ part # "droppable" => dq.max = Min(DqSizes)

NotFlow == UNCHANGED <<pqVars, BatchVars, QueueVars, MetricVars, ConnVars, part>>
NotPq == UNCHANGED <<vars, BatchVars, QueueVars, MetricVars, ConnVars, part>>
NotBatch == UNCHANGED <<vars, pqVars, QueueVars, MetricVars, ConnVars, part>>
NotQueues == UNCHANGED <<vars, pqVars, BatchVars, MetricVars, ConnVars, part>>
NotMetrics == UNCHANGED <<vars, pqVars, BatchVars, QueueVars, ConnVars, part>>
NotConn == UNCHANGED <<vars, pqVars, BatchVars, QueueVars, MetricVars, part>>

ConnNexts ==
  \/ part = "flow" /\ Next /\ NotFlow
  \/ part = "pq" /\ PqNext /\ NotPq
  \/ part = "batch" /\ BatchNext /\ NotBatch
  \/ part = "droppable" /\ DroppableNext /\ NotQueues
  \/ part = "bounded" /\ BoundedNext /\ NotQueues
  \/ part = "metrics" /\ MetricNext /\ NotMetrics
  \/ part = "conn" /\ ConnNext /\ NotConn

ConnSpec == ConnInits /\ [][ConnNexts]_allVars

\* The fairness of the components: a goroutine inside a call runs on, and one
\* that competes for a mutex, a token or flow control gets it in the end.  Only
\* one component is explored at a time, so that their conditions may share a WF
\* or an SF.
RunsOn(p) ==
  \/ part = "flow" /\ InCall(p) /\ NotFlow
  \/ part = "batch" /\ BatchTimer /\ NotBatch
  \/ part = "conn" /\ p \in Writers /\ WriteStep(p) /\ NotConn
Competes(p) ==
  \/ part = "flow" /\ AcquireRelock(p) /\ NotFlow
  \/ part = "pq" /\ p \in Consumers /\ InPopBlock(p) /\ NotPq
  \/ part = "conn" /\ p \in Writers /\ WriteAcquire(p) /\ NotConn
FairConnSpec ==
  ConnSpec /\ \A p \in Procs : WF_allVars(RunsOn(p)) /\ SF_allVars(Competes(p))
=============================================================================
