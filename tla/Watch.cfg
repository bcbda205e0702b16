SPECIFICATION Spec
CONSTANTS
  Observers = {o1, o2}
  Runtimes = {"native", "claude"}
  MaxEvents = 3
  MaxUses = 3
  Faults = {"crash", "cancel", "interrupt"}
INVARIANTS
  WatchComplete
  
SYMMETRY Symmetry
CHECK_DEADLOCK FALSE
