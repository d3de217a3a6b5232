SPECIFICATION LockSpec
CONSTANTS
  Addresses = {a1, a2}
  Shared = Shared
  FailLimit = 2
  Window = 2
  Buckets = 2
  Wrap = 4
  MaxTime = 6
INVARIANTS
  GuessesAreBounded
  RefusedForCause
CHECK_DEADLOCK FALSE
