SPECIFICATION Spec
CONSTANTS
  Batches <- MCBatches
  Overhead = 1
  MagicBytes = 1
  MaxRetained = 4
  MaxWal = 8
CHECK_DEADLOCK FALSE
INVARIANT CheckpointsValid
