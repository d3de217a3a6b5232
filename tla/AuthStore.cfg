SPECIFICATION Spec
CONSTANTS
  Passwords = {p1}
  Sockets = {fd1}
  Httpd = Httpd
  Relay = Relay
  FlagValues = {TRUE}
  MaxTokens = 2
  MaxSalts = 3
  Faults = {"get_u8", "get_str", "get_blob", "open", "set_str", "set_blob", "set_u8", "commit"}
  MaxFaults = 1
  MaxCrashes = 1
  None = None
INVARIANTS
  TypeOK
  RamMatchesFlash
  AckedPasswordKept
  SessionsCurrent
CHECK_DEADLOCK FALSE
