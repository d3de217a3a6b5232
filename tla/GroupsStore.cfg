SPECIFICATION FairSpec
CONSTANTS
  Tasks = {httpd, task_remote}
  MaxGroups = 2
  Names = {n1}
  Members = {100, 250}
  RowCap = 256
  ListCap = 255
  Ops = {"create", "get", "delete", "list"}
  Faults = {"open", "get_u32", "get_blob", "set_blob", "set_u32", "erase_key", "commit"}
  MaxFaults = 1
  MaxCrashes = 1
  None = None
  NoClaim = NoClaim
  Gone = Gone
INVARIANTS
  TypeOK
  ListIsSnapshot
PROPERTIES
  RequestIsAnswered
