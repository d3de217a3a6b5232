SPECIFICATION SinkSpec
CONSTANTS
  Size = 3
  Readers = {httpd}
  MaxLines = 7
  Tasks = {t1, t2}
  CapPerSec = 2
  CountMod = 4
  LastSecond = 2
INVARIANTS
  TypeOK
  WalkIsFaithful
  CapIsExact
PROPERTIES
  ImplementsBoundedLog
CHECK_DEADLOCK FALSE
