SPECIFICATION FairSpec
CONSTANTS
  Modes = {"detached", "interactive"}
  Tools = {"Write"}
  Behaviors <- MCBehaviors
  KeepRecent = 2
  MaxIter = 2
  MaxCalls = 2
  MaxPrompts = 2
  MaxBoots = 2
  Faults = {"crash", "torn", "panic", "error", "budget"}
CHECK_DEADLOCK FALSE
INVARIANTS
  CheckpointCoversCalls
  EventsCoverState
  MessagesEndTranscript
  

  
