SPECIFICATION Spec
CONSTANTS
  Files = {f1, f2}
  Cap = 2
  MaxChanges = 3
  MaxRequests = 4
  MaxCrashes = 1
  Nothing = Nothing
  Live = Live
INVARIANTS
  AnswersTrue
  EvictionKept
CHECK_DEADLOCK FALSE
