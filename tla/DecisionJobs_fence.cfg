SPECIFICATION Spec
CONSTANTS
  j1 = j1
  p1 = p1
  Jobs = {j1}
  Profiles = {}
  Publications = {j1}
  QueueLimit = 1
  Batches <- Warm
  MaxRetries = 1
  MaxFaults = 2
  NoJob = NoJob
\* A dead verifier thread stops the queue: nothing else is due then.
CHECK_DEADLOCK FALSE
PROPERTIES OldWorkerHarmless
