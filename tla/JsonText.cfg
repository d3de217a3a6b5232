SPECIFICATION TextSpec
CONSTANTS
  Bytes = {1, 10, 34, 92, 97, 128, 144, 160, 193, 195, 224, 237, 240, 244}
  MaxLen = 4
  Caps = {1, 4, 9, 30}
  NameSizes = {4, 5}
INVARIANTS
  TextTypeOK
  NameShownWhole
  RowOrNothing
  CutNameShown
CHECK_DEADLOCK FALSE
