\* Every caller against every other: locks, returns, maintenance, topology.
SPECIFICATION TopologySpec
CONSTANTS
  Threads = {t1, t2}
  NoThread = NoThread
  Locks = {topology, n1, n2, n3, mathlib, build}
  NoLock = NoLock
  Topology = topology
  MathlibIndex = mathlib
  BuildCache = build
  Nodes = {n1, n2, n3}
  n1 = n1
  n2 = n2
  n3 = n3
  Batches = {b1, b2}
  b1 = b1
  b2 = b2
  NoBatch = NoBatch
  BatchNodes <- MCBatchNodes
  PathRank <- MCPathRank
  InitialDeps <- MCInitialDeps
  Programs <- MCPrograms
  MaxCalls = 1
INVARIANTS HoldsItsLocks ReservedBatchIndependent OwnersMatchBatches CountsTransactions
PROPERTIES CallsReturn FrontierBlocksMaintenance ImplementsExclusion
