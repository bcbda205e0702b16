SPECIFICATION Spec
CONSTANTS
  Slack = TRUE
  Capabilities <- MCCapabilities
  Procs = {p1, p2}
  NoProc = NoProc
  Actions <- MCActions
  Targets <- MCTargets
  Manifests <- MCManifests
  NoGrant = NoGrant
  Limit <- MCLimit
  Window = 1
  MaxTime = 2
  MaxCalls = 2
  Faults = {"kill", "fail", "persist"}
CHECK_DEADLOCK FALSE
INVARIANTS
  CallsAuthorised
  OverrideIsLocal
  OverrideRecorded
  LimitHoldsAlone
  LoopAgrees
  LockInUse
