SPECIFICATION PushSpec
CONSTANTS
  Tasks = {httpd, task_remote}
  MaxGroups = 1
  Names = {n1}
  Members = {40, 240, 600}
  RowCap = 256
  ListCap = 270
  RspCap = 512
  Envelope = 30
  Ops = {"create", "update", "delete", "list"}
  Faults = {"get_blob", "set_blob", "erase_key", "commit"}
  MaxFaults = 1
  MaxCrashes = 1
  None = None
  NoClaim = NoClaim
  Gone = Gone
  RestTasks = {httpd}
INVARIANTS
  AckedGroupKept
  DivergenceIsMidOperation
  PageShowsStore
