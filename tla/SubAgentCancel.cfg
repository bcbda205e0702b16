SPECIFICATION Spec
CONSTANTS
  Children = {c1, c2}
  NoChild = NoChild
  MaxRuns = 2
  ParentOps = 4
  UserOps = 0
  MaxOps <- MCMaxOps
  Features = {"spawnTool", "spawn", "cancel", "resume", "launchFail", "killEarly"}
SYMMETRY Symmetry
CHECK_DEADLOCK FALSE
INVARIANTS
  AtMostOncePerRun
  NoMarkerOverOutput
  CancelledMeansStopped
  NoTwoNatives
  
