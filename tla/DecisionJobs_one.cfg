SPECIFICATION SceneSpec
CONSTANTS
  j1 = j1
  p1 = p1
  Jobs = {j1, p1}
  Profiles = {p1}
  Publications = {j1}
  QueueLimit = 2
  Batches <- Cold
  MaxRetries = 1
  MaxFaults = 2
  NoJob = NoJob
INVARIANTS AttemptsDistinct
PROPERTIES SettledStays OldWorkerFenced MemberCompletes ActiveEnds
\* A dead verifier thread stops the queue: nothing else is due then.
CHECK_DEADLOCK FALSE
