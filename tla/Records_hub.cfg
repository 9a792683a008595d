SPECIFICATION Spec
CONSTANTS
  a = a
  b = b
  c = c
  s1 = s1
  s2 = s2
  gold = gold
  merged = merged
  train = train
  boss = boss
  other = other
  old = old
  fresh = fresh
  Sources = {s1, s2}
  Content <- Batches
  RunOf <- RunOfDecision
  PrintOf <- PrintOfDecision
  Datasets = {gold, merged, train}
  Purpose <- Purposes
  Parents <- Lineage
  Users = {1}
  Inputs = {s1, s2, train}
  MaxNotes = 1
  Members = {boss, other}
  Boss = boss
  Computers = {old, fresh}
  Claims <- Roster
  f1 = f1
  f2 = f2
  Flows = {f1, f2}
  Quotas = {1}
  SessionLimit = 1
  MaxRotations = 1
  Nobody = Nobody
  x = x
  y = y
  z = z
  Plays = {x, y, z}
  Casts <- CastTable
  NoFrame = NoFrame
  RemoteClose = FALSE
  MaxMishaps = 1
SYMMETRY FlowSymmetry
INVARIANTS
  GoldNeverTrained GoldKeptApart RevokedMeansOut
   TransitionsPure
PROPERTIES
  QualityCurrent CredentialsLive
\* Annotations, retries, rotations and the inputs of a person are bounded.
CHECK_DEADLOCK FALSE
