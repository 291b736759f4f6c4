SPECIFICATION CleanSpec
CONSTANTS
  Clients = {c1, c2}
  Calls <- MCCalls
  Modes = {"auto"}
  Texts = {"empty", "some"}
  Limits = {0, 1}
  MaxMade = 2
  Faults = {"drafter"}
  None = None
SYMMETRY Symmetry
INVARIANTS
  ReadyForGenerate
PROPERTIES
  Promised
