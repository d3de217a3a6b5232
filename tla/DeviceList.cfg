SPECIFICATION FairSpec
CONSTANTS
  PoolSize = 3
  Ieees = {1, 3, 5, 7}
  RowLens = {2, 3, 5}
  RowCap = 4
  HeadLen = 1
  TailLen = 1
  Cap = 6
  BaseLen = 3
  Slack = 1
  Guard = 2
  MaxChanges = 3
  MaxLosses = 1
INVARIANTS
  TypeOK
  EachDeviceOnce
  NoLiveDeviceSkipped
  ReplyFits
  FullListIsComplete
PROPERTIES
  WalkEnds
