SPECIFICATION DevFairSpec
CONSTANTS
  Tasks = {httpd, relay}
  Httpd = httpd
  Ids = {1, 2}
  Contents = {a, b}
  Depth = 2
  MaxOps = 4
  MaxPageOps = 3
  MaxBrokerOps = 2
  None = None
  Devices = {d1, d2}
  DevNames = {n1, n2}
  Quoted = {n2}
  Values = {v1, v2}
  Wide = {v2}
  NoValue = NoValue
  Mqtt = Mqtt
  PumpTask = PumpTask
INVARIANTS
  PageShowsRules
  PageShowsDevices
  HaShowsDevices
PROPERTIES
  PageCatchesUp
  EventsDrain
CHECK_DEADLOCK FALSE
