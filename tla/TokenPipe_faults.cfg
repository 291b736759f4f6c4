SPECIFICATION FaultSpec
CONSTANTS
  Clients = {c1, c2}
  Calls = {"messages_stream", "tools_stream"}
  Modes = {"always"}
  Texts = {"none", "empty", "some"}
  Limits = {1}
  MaxMade = 1
  Faults = {"leave", "stop", "reload", "die"}
  None = None
INVARIANTS
  SentinelsSuffice
  OneReader
  FilesLeft
PROPERTIES
  EveryRequestEnds
