SPECIFICATION FairSpec
CONSTANTS
  Entry = {e1, e2, e3}
  Job = {a, b}
  NULL = NULL
  Idle = Idle
INVARIANT
  RunsNextIteration
