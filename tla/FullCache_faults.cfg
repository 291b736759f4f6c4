SPECIFICATION Spec
CONSTANTS
  Client = {c1}
  Prompts = {p1, p2, p3}
  Cap = 2
  LockGap = TRUE
  Streaming = {TRUE, FALSE}
  Faults = {"abandon", "copy", "delete", "oom"}
  None = None
SYMMETRY Symmetry
INVARIANTS
  IndexBounded
  NoLeakedFiles
PROPERTIES
  EvictsOldest
