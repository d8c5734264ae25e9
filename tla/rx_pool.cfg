\* One session; the core may retain as many pbufs as the pool has, as IP_REASS_MAX_PBUFS allows.
SPECIFICATION Spec
CONSTANTS
  Handles = {h1}
  NULL = NULL
  MaxPcktLen = 2
  MaxSegSize = 3
  RxBufSize = 5
  PoolBufSize = 3
  PoolSize = 3
  MboxSize = 1
  MaxHeld = 3
  MaxFrames = 4
  MaxTeardowns = 0
CHECK_DEADLOCK FALSE
INVARIANT PbufForEveryFrame
