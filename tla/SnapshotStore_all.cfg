SPECIFICATION Spec
CONSTANTS
  Token = {0, 1}
  Target <- MCTarget
  Garbled = 8
  None = None
  Prompts <- MCPrompts
  NGens = {0, 2}
  Cuts = {2, 3}
  QLen = 2
  MaxCtx = 7
  Ubatch = 2
  Slot = {0, 1}
  MaxThins = 2
  Commands = {"SNAPSHOT", "SNAPSHOT_THIN", "RESTORE_CHAIN"}
  LayerModes = {TRUE, FALSE}
  Faults = {"oom"}
INVARIANTS
  PrefillLands
  SnapshotsResumable
  InlineSnapTaken
  ChainRestoresAttention
CHECK_DEADLOCK FALSE
