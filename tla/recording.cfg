SPECIFICATION RecordingSpec
CONSTANTS
  MaxSessions = 2
  Cap = 1
  MayThrow = FALSE
INVARIANT CaptureIsBacked
INVARIANT QuietBeforeEos
PROPERTY CallsAnswered
PROPERTY ImplementsService
