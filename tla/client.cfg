SPECIFICATION Spec
CONSTANTS
  c1 = c1
  c2 = c2
  c3 = c3
  c4 = c4
  c5 = c5
  NoPath = NoPath
  Task = {c1, c2, c3, c4, c5}
SYMMETRY Symmetry
CHECK_DEADLOCK FALSE
INVARIANT TypeOK
INVARIANT CanBeStopped
INVARIANT FieldsAgree
INVARIANT CancelRemoves
INVARIANT OnlyRecordedDraws
