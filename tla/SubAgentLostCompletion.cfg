SPECIFICATION Spec
CONSTANTS
  Children = {c1}
  NoChild = NoChild
  MaxRuns = 1
  ParentOps = 1
  UserOps = 0
  MaxOps <- MCMaxOps
  Features = {"spawn"}
CHECK_DEADLOCK FALSE
INVARIANT NoLostCompletion
