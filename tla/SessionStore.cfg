SPECIFICATION FairStoreSpec
CONSTANTS
  Actors = {a1, a2}
  NoActor = NoActor
  s1 = s1
  g1 = g1
  g2 = g2
  Sessions = {s1, s2}
  Statuses = {active, completed}
  Agents = {g1, g2}
  AgentOf <- MCAgentOf
  MaxOps = 4
  StoreFaults = {"crash", "tear"}
CHECK_DEADLOCK FALSE
INVARIANTS
  NotFoundIsTrue
PROPERTIES
  ImplementsTable
  OperationsEnd
