SPECIFICATION Spec
CONSTANTS
  Layers <- MCLayers
  KeyHeads = 1
  ValueHeads = 2
  Experts = 3
  RoutesPerToken = 2
  HeadChunks = 2
  Kernel <- MCKernel
  Tokens <- MCTokens
  Prompts <- MCPrompts
  Context = 5
  PrefillUbatch = 3
  RowsPerTask = 2
  MaxRows = 2
  MaxAdmissions = 2
  MaxDecodes = 2
INVARIANTS
  StatesAreWhole
  CachesMatchPositions
  BatchIsTokenByToken
  ExpertTasksPartitionRows
