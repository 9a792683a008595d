SPECIFICATION SceneSpec
CONSTANTS
  r1 = r1
  r2 = r2
  Runs = {r1, r2}
  MaxOps = 3
  MaxFaults = 2
  MaxOthers = 1
  Scenes <- AllScenes
  NoRun = NoRun
  Unnamed = Unnamed
INVARIANTS HumanFences
PROPERTIES UncertainFenced  OperationsEnd
\* With every bound used up nothing is left to do.
CHECK_DEADLOCK FALSE
