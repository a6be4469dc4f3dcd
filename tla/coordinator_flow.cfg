\* The Coordinator: safety of waits, callbacks and batches, and waits that end.
SPECIFICATION FairSpec
CONSTANTS
  Children = {c1, c2}
  CheckpointsEnabled = TRUE
  MaxSteps = 13
INVARIANTS NeverStuck BatchLifecycle CheckpointsAreEligible CompletedMeansPublished
PROPERTIES CallbackOnce WaitReturns
CHECK_DEADLOCK FALSE
