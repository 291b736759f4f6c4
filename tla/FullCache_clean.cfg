SPECIFICATION Spec
CONSTANTS
  Client = {c1, c2}
  Prompts = {p1, p2, p3, p4, p5}
  Cap = 4
  LockGap = FALSE
  Streaming = {FALSE}
  Faults = {}
  None = None
SYMMETRY Symmetry
INVARIANTS
  SlotsNotShared
  HitRunsOnOwnPrompt
PROPERTIES
  CompletedIsCached
