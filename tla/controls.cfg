SPECIFICATION Spec
CONSTANTS
  c1 = c1
  c2 = c2
  c3 = c3
  exposure = exposure
  brightness = brightness
  digital_mult = digital_mult
  Absent = Absent
  Call = {c1, c2, c3}
  Control = {exposure, brightness, digital_mult}
  Processing = {brightness, digital_mult}
  Listed = {exposure, brightness}
  Value = {1, 2, 3}
  Fit <- MCFit
  NumSizes = 2
  MaxAdjust = 1
SYMMETRY Symmetry
CHECK_DEADLOCK FALSE
INVARIANT TypeOK
INVARIANT ListingsComplete
INVARIANT AnswersCurrent
INVARIANT SetsApplied
INVARIANT CacheIsTrue
