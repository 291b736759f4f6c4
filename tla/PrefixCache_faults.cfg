SPECIFICATION FairSpec
CONSTANTS
  Turn <- MCTurn
  SystemTurn <- MCSystemTurn
  Prompts <- Alternating
  Cap = 2
  Faults = {"abandon", "oom"}
  MaxStale = 1
  None = None
INVARIANTS
  IndexBounded
PROPERTIES
  EvictsOldest
  Answered
