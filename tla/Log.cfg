SPECIFICATION Spec
CONSTANTS
  Batches <- MCBatches
  Overhead = 1
  MagicBytes = 1
  MaxRetained = 5
  MaxWal = 9
CHECK_DEADLOCK FALSE
INVARIANTS AckedSurvive ReopensAfterCrash FileMatchesMemory
PROPERTY KeepsPromise
