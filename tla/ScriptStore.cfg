SPECIFICATION Spec
CONSTANTS
  Deleters = {httpd, relay}
  Httpd = httpd
  Names = {a, b, c}
  MaxLen = 4
  Cap = 3
  ListRows = 2
  MaxOps = 5
  RecvMayFail = TRUE
  WriteMayFail = TRUE
  None = None
INVARIANTS
  AckedSourceIsWhole
  PageListsScripts
