\* One session and the one that follows it; a re-enumeration while the thread works.
SPECIFICATION Spec
CONSTANTS
  Handles = {h1}
  NULL = NULL
  MaxPcktLen = 2
  MaxSegSize = 3
  RxBufSize = 5
  PoolBufSize = 3
  PoolSize = 4
  MboxSize = 1
  MaxHeld = 1
  MaxFrames = 2
  MaxTeardowns = 1
CHECK_DEADLOCK FALSE
INVARIANT NackedTillDone
