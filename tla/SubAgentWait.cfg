SPECIFICATION FairSpec
CONSTANTS
  Children = {c1, c2}
  NoChild = NoChild
  MaxRuns = 1
  ParentOps = 2
  UserOps = 1
  MaxOps <- MCMaxOps
  Features = {"spawn", "cancel", "cancelTool", "kill", "promptFail", "onEnd", "stop", "rstop"}
CHECK_DEADLOCK FALSE

  
PROPERTIES
  ParentFinishes
  ImplementsLifecycle
