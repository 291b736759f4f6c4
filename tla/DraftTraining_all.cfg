SPECIFICATION Spec
CONSTANTS
  Layers = 2
  NumPrompts = 2
  Lengths = {2, 4}
  BlockSize = 2
  AnchorsPerTrace = 1
  Workers = 3
  Epochs = 2
  GradAccum = 2
  SaveInterval = 2
  Losses = {1, 2}
  Shuffle <- Apart
  UpstreamLayers = 3
  MaxInvocations = 2
  Torn = Torn
  None = None
INVARIANTS
  EpochCoversTraces
  EpochsTrained
  BestIsLowest
  FreshExport
  TensorsAccounted
