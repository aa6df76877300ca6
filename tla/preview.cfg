SPECIFICATION Spec
CONSTANTS
  s1 = s1
  s2 = s2
  Size = {s1, s2}
  First = s1
  MaxEvents = 3
CHECK_DEADLOCK FALSE
INVARIANT TypeOK
INVARIANT TextureLives
INVARIANT WindowLives
INVARIANT TexturesAccounted
INVARIANT ShownAtRest
INVARIANT QuietAtRest
