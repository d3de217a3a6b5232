SPECIFICATION Spec
CONSTANTS
  Tasks = {httpd}
  Ieees = {2, 5}
  KeyMax = 7
  Base = 2
  BodyFields = {{"occupancy_timeout"}, {"debounce_ms"}}
  Values = {1, 4}
  Wrap = 4
  Faults = FALSE
  MaxRequests = 2
  None = None
INVARIANTS
  OptionsSurviveReboot
