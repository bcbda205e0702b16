CONSTANTS
  Paths <- MCPaths
  f = f
  g = g
  Absent = Absent
  Blank = Blank
  Marks = {"x", "y", "z", "w", Blank}
  InitialDisk <- MCDisk
  Calls <- MCCalls
  Manifests <- MCManifests
  NoManifest = NoManifest
  EnabledTools = {}
  MaxWorkingSet = 1
  MaxCalls = 2
  Faults = {"hang", "full"}
  OnEnd = TRUE
  MaxLines = 1
  MaxNotes = 1
SPECIFICATION Spec
CHECK_DEADLOCK FALSE
INVARIANTS TranscriptTellsFiles 
PROPERTY PromptsReturn
