SPECIFICATION FairSpec
CONSTANTS
  rival = rival
  rivalRequest = rivalRequest
  Rivals = {rival}
  Clients <- AllClients
  Requests <- AllRequests
  MaxOwn = 1
  MaxDecisions = 2
  Scenes <- AllScenes
  MaxSessions = 2
  LeaseTicks = 1
  FrameBatch = 1
  MaxGen = 2
  MaxSnap = 1
  MaxHosts = 2
  MaxQueue = 1
  NoLease = NoLease
  NoCommand = NoCommand
INVARIANTS
  AtMostOnce LandsWhereAimed ReceiptsTrue
  EvidenceComplete
PROPERTIES
  HumanTakesOver NeverActsBlind ClosedSessionsEnd HumanRules
\* With every bound used up nothing is left to do.
CHECK_DEADLOCK FALSE
