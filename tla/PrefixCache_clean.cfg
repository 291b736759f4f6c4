SPECIFICATION Spec
CONSTANTS
  Turn <- MCTurn
  SystemTurn <- MCSystemTurn
  Prompts <- Alternating
  Cap = 3
  Faults = {}
  MaxStale = 0
  None = None
INVARIANTS
  SlotCountConsistent
  RunsOnOwnPrefix
  RestoreFindsSnapshot
PROPERTIES
  ConfirmedWasTaken
  RestoresLongest
