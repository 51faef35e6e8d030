SPECIFICATION Spec
CONSTANTS
  w1 = w1
  w2 = w2
  w3 = w3
  w4 = w4
  w5 = w5
  w6 = w6
  w7 = w7
  w8 = w8
  c1 = c1
  c2 = c2
  c3 = c3
  Windows <- EightWindows
  Kind <- OneOfEach
  Shared <- TheLast
  Cmds <- ThreeCommands
  Mode <- Modes
  Keys = {"hotkey"}
  Answers <- AllAnswers
  Results = {"ok", "refused", "unavailable", "failed", "lost"}
  QueueCap = 2
  UndoLimit = 2
  MaxActs = 3
INVARIANTS
  Screened
  OneOutcome
  NativeOrPasted
CHECK_DEADLOCK FALSE
