SPECIFICATION Spec
CONSTANTS
  Instance = {i1, i2, i3}
  Port = {p1, p2, p3}
  Elsewhere = Elsewhere
  NULL = NULL
INVARIANTS
  TypeOK
  RaceHasWinner
  LinkIsLive
PROPERTIES
  FilesAreKept
  FailureNeedsRace
SYMMETRY Alike
