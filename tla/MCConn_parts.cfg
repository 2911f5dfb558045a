SPECIFICATION FairConnSpec
CONSTANTS
  Parts = {"flow", "pq", "batch", "droppable", "bounded", "metrics", "conn"}
  Procs = {p1, p2, p3}
  NoProc = NoProc
  Sizes = {1, 2}
  MaxSize = 2
  MaxBytes = 2
  Consumers = {p1, p2}
  Levels = 2
  Priorities = {0, 1, 2}
  MaxPushes = 4
  BufLen = 4
  BufCaps = {4, 5}
  WriteSizes = {1, 2, 3, 4, 5}
  BatchBytes = 7
  DqSizes = {0, 1, 3}
  DqPushes = 6
  Producers = {p1, p2}
  BqCap = 1
  BqPushes = 3
  Recorders = {p1, p2}
  Latencies = {999, 500000000}
  ReadSizes = {3}
  Records = 3
  Writers = {p1, p2}
  UsesPriority = TRUE
  FlowMax = 1
  PoolCap = 2
  McPackets = 3
INVARIANTS
  Accounting OneOver
  FifoPerLevel WakeupPending
  BatchInOrder BatchComplete
  DroppableKeepsNewest BoundedFifo
  MetricsConsistent
  
PROPERTIES WaiterMovesOn  SomeoneWakes BatchFlushed 
CHECK_DEADLOCK FALSE
