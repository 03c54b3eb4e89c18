SPECIFICATION Spec
CONSTANTS
  MaxNesting = 6
  MaxExponent = 308
  MaxNameLength = 4
  MaxTools = 3
  Letters <- MCLetters
  Numbers <- MCNumbers
  Marks <- MCMarks
  Spaces <- MCSpaces
  CombiningClasses <- MCCombiningClasses
  Decompositions <- MCDecompositions
  Compositions <- MCCompositions
  Casefolds <- MCCasefolds
  Merges <- MCMerges
  Specials <- MCSpecials
  MaxEntries = 3
  MaxPieceBytes = 6
  ModelName <- MCModelName
  ToolDefinitions <- MCToolDefinitions
  Questions <- MCQuestions
  OtherBodies <- MCOtherBodies
  ToolOutputs <- MCToolOutputs
  ModelOutputs <- MCModelOutputs
  MaxU32 = 9
  MaxFloatExponent = 38
  MaxRequests = 3
  MaxFailures = 1
  BpeTables <- MCBpeTables
  BpeInputs <- MCBpeInputs
INVARIANTS BpeIsRepeatedBestMerge TokenCacheSound PromptSurvivesTokens HistoryRoundTrips
CHECK_DEADLOCK FALSE
