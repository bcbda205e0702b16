SPECIFICATION FairSpec
CONSTANTS
  Submitters = {s1, s2, s3}
  NoFile = NoFile
  MaxQuestions = 2
  Faults = {"kill", "writeFails"}
CHECK_DEADLOCK FALSE
INVARIANTS
  StaleAnswersUnused
  AcceptedIsUsed
PROPERTIES
  QuestionEnds
