SPECIFICATION FairSpec
CONSTANTS
  u1 = u1
  u2 = u2
  Uploads = {u1}
  Device <- OneDevice
  QueueLimit = 1
  MaxAttempts = 2
  BackoffCap = 2
  Replaceable = FALSE
  MaxRetries = 1
  MaxTime = 1
  MaxFaults = 2
  NoUpload = NoUpload
INVARIANTS ReceiptArchived OneDisposition
PROPERTIES ImplementsReception PendingEndsWhileServed
\* A dead verifier thread stops the queue: nothing else is due then.
CHECK_DEADLOCK FALSE
