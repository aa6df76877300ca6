SPECIFICATION RecordingSpec
CONSTANTS
  MaxSessions = 1
  Cap = 1
  MayThrow = TRUE
PROPERTY StopAnswers
CHECK_DEADLOCK FALSE
