SPECIFICATION Spec
CONSTANTS
  Sessions = {s1, s2}
  Commands = {c1, c2}
  Skills = {k}
  k = k
  s1 = s1
  s2 = s2
  c1 = c1
  c2 = c2
  UserFiles <- MCUserFiles
  InitialFiles <- MCFiles
  Walk <- MCWalk
  Scenarios <- MCScenarios
  Absent = Absent
  Var = Var
  MaxEdits = 1
CHECK_DEADLOCK FALSE
INVARIANTS InstructionsKept  
