SPECIFICATION Spec
CONSTANTS
  Procs = {p1, p2}
  NoProc = NoProc
  MaxKeys = 2
  MaxTokens = 3
  MaxOps = 3
  MaxFlows = 2
  MaxHits = 3
  Commands = {"add", "invoke", "test", "remove"}
  Faults = {"keychain", "write", "response", "kill"}
INVARIANTS
  KeyOpensFiles
  TokenUsable
  
  
SYMMETRY Symmetry
CHECK_DEADLOCK FALSE
