SPECIFICATION Spec
CONSTANTS
  Tasks = {httpd, relay}
  Ieees = {4, 5, 9}
  KeyMax = 7
  Base = 2
  BodyFields = {{"flood_protection", "debounce_ms"}, {"occupancy_timeout", "throttle_ms"}}
  Values = {1, 4}
  Wrap = 4
  Faults = TRUE
  MaxRequests = 2
  None = None
INVARIANTS
  TypeOK
  NamedOptionsSurvive
  ShownIsInForce
  OptionsAreOwn
