SPECIFICATION Spec
CONSTANTS
  MaxSessions = 1
  Cap = 1
  MayThrow = FALSE
PROPERTY EncoderFinishes
