SPECIFICATION FairSpec
CONSTANTS
  j1 = j1
  j2 = j2
  Jobs = {j1}
  t1 = t1
  t2 = t2
  Targets = {t1, t2}
  Units <- OneUnit
  Budget = 2
  EnqueueLimits = {2}
  LeaseSeconds = 1
  MaxSeconds = 2
  MaxTime = 3
  MaxFaults = 2
  NoJob = NoJob
PROPERTIES ReceiptSettles
