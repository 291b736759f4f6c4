SPECIFICATION Spec
CONSTANTS
  Clients = {c1, c2}
  Calls = {"chat_stream"}
  Modes = {"auto"}
  Texts = {"some"}
  Limits = {0, 1}
  MaxMade = 1
  Faults = {"leave"}
  None = None
INVARIANTS
  ReadyForGenerate
