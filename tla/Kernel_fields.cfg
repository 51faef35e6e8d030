SPECIFICATION Spec
CONSTANTS
  FlagThreshold = 50
  BlockThreshold = 20
  Penalty = 15
  Window = 5
  NoChunk = NoChunk
  NoText = NoText
  NoExt = NoExt
  a = a
  b = b
  f1 = f1
  f2 = f2
  Values <- TwoValues
  MaxRuns = 1
  MaxCorrections = 1
  NChunks = 2
  Fields <- TwoFields
  Texts <- Documents2
  PackOutputs <- Outputs
INVARIANTS
  UngroundedHaltsRun
