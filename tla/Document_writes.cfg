SPECIFICATION Spec
CONSTANTS
  Writers = {"docx", "word", "xlsx", "pptx", "excel", "leased"}
  MaxWrites = 2
  MaxTyped = 2
  MaxFaults = 2
  MaxCrashes = 1
  Torn = Torn
  Absent = Absent
INVARIANTS
  OkMeansWritten
  ErrorMeansUnchanged
  LastCopyKept
  ClosedIsReopened
PROPERTIES
  WorkKept
CHECK_DEADLOCK FALSE
