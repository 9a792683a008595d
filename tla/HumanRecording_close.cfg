SPECIFICATION RecordingSpec
CONSTANTS
  x = x
  y = y
  z = z
  Plays = {x, y, z}
  Casts <- CastTable
  NoFrame = NoFrame
  RemoteClose = TRUE
  MaxMishaps = 0
INVARIANT OneSemanticDisposition
\* A closed recording stops.
CHECK_DEADLOCK FALSE
