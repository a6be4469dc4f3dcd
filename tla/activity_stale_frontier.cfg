\* Maintenance admission against a reserved batch.
SPECIFICATION Spec
CONSTANTS
  Threads = {t1, t2}
  NoThread = NoThread
  Locks = {topology, n1, n2, mathlib, build}
  NoLock = NoLock
  Topology = topology
  MathlibIndex = mathlib
  BuildCache = build
  Nodes = {n1, n2}
  n1 = n1
  n2 = n2
  Batches = {b1, b2}
  b1 = b1
  b2 = b2
  NoBatch = NoBatch
  BatchNodes <- MCBatchNodes
  PathRank <- MCPathRank
  Programs <- OwnerPrograms
  MaxCalls = 1
PROPERTIES HeldBatchBlocksMaintenance
