SPECIFICATION FairSpec
CONSTANTS
  Tasks = {httpd, relay}
  Nets = {home, full, huge}
  Home = home
  FullSsid = {full}
  FullPwd = {full}
  HugeSsid = {huge}
  HugePwd = {huge}
  MaxRequests = 3
  MaxOutages = 1
  MaxFaults = 1
  MaxCrashes = 1
  ConnectMayFail = TRUE
  None = None
  Unknown = Unknown
INVARIANTS
  FlagFollowsLink
  AnsweredIsUsed
PROPERTIES
  Reconnects
CHECK_DEADLOCK FALSE
