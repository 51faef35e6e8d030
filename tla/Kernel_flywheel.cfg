SPECIFICATION Spec
CONSTANTS
  FlagThreshold = 50
  BlockThreshold = 20
  Penalty = 15
  Window = 5
  NoChunk = NoChunk
  NoText = NoText
  NoExt = NoExt
  a = a
  b = b
  f1 = f1
  f2 = f2
  Values <- OneValue
  MaxRuns = 2
  MaxCorrections = 6
  NChunks = 1
  Fields <- OneField
  Texts <- Documents1
  PackOutputs <- SureOutput
PROPERTIES
  SaturatedFieldNeverPasses
