SPECIFICATION FairSpec
CONSTANTS
  w1 = w1
  w2 = w2
  w3 = w3
  w4 = w4
  w5 = w5
  w6 = w6
  w7 = w7
  w8 = w8
  c1 = c1
  c2 = c2
  c3 = c3
  Windows <- TwoWindows
  Kind <- PlainAndMarkdown
  Shared <- None
  Cmds <- OneCommand
  Mode <- Writing
  Keys = {"hotkey", "undo", "tab", "esc", "voice"}
  Answers <- GoodOrBad
  Results = {"ok", "failed"}
  QueueCap = 2
  UndoLimit = 1
  MaxActs = 4
INVARIANTS
  TypeOK
  PlansTakenInOrder
PROPERTIES
  LoopComesBack
CHECK_DEADLOCK FALSE
