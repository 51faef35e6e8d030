SPECIFICATION Spec
CONSTANTS
  NParas = 3
  MaxEdits = 4
INVARIANTS
  IndicesTrack
  PathsAgree
  SortedAgrees
  UntouchedStays
CHECK_DEADLOCK FALSE
