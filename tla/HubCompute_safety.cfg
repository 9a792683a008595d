SPECIFICATION Spec
CONSTANTS
  j1 = j1
  j2 = j2
  Jobs = {j1, j2}
  t1 = t1
  t2 = t2
  Targets = {t1}
  Units <- OneUnit
  Budget = 2
  EnqueueLimits = {2}
  LeaseSeconds = 1
  MaxSeconds = 1
  MaxTime = 1
  MaxFaults = 1
  NoJob = NoJob
SYMMETRY JobSymmetry
INVARIANTS
  OneOwned SpawnedOnce LiveCallTracked ResultGenuine
  CancelledOnce
PROPERTIES CancelWins ImplementsLedger
