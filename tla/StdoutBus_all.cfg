SPECIFICATION MCSpec
CONSTANTS
  Calls = {c1, c2, c3}
  Startup = Startup
  Prompts = {p1, p2, p3}
  Asked = {0, 1, 3}
  DAEMON_MAX_SLOTS = 2
  Hazards <- MCHazards
  None = None
INVARIANTS
  IndexMatchesSlots
PROPERTIES
  EveryCallEnds
