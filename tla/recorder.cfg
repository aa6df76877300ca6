SPECIFICATION Spec
CONSTANTS
  MaxSessions = 2
  Cap = 2
  MayThrow = TRUE
INVARIANT TypeOK
INVARIANT OneDrain
INVARIANT FlagIsTrue
INVARIANT CleanBetween
PROPERTY DrainsEnd
