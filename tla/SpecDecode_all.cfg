SPECIFICATION FairSpec
CONSTANTS
  Token = {0, 1, 2}
  Eos = {2}
  Target <- MCTarget
  Garbled = 8
  Pad = 9
  Prompts <- MCPrompts
  NGen = 4
  QLen = 3
  Budget = 4
  TopK = 2
  LogProbs <- MCLogProbs
  Threshold = 8
  MaxCtx = 9
  Strategies = {"legacy", "fast", "tree", "seeded"}
INVARIANTS
  StreamIsGreedy
  StateMatchesStream
  ChainEndConsistent
  OverrunBounded
  SeededCoversChain
PROPERTIES
  Ends
CHECK_DEADLOCK FALSE
