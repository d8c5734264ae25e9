\* The threads are scheduled; the host tears the configuration down once.
SPECIFICATION FairSpec
CONSTANTS
  Handles = {h1, h2}
  NULL = NULL
  MaxPcktLen = 2
  MaxSegSize = 3
  RxBufSize = 5
  PoolBufSize = 3
  PoolSize = 4
  MboxSize = 1
  MaxHeld = 1
  MaxFrames = 2
  MaxTeardowns = 1
CHECK_DEADLOCK FALSE
PROPERTIES
  RxRearmed
  PacketsHandled
  EventsTaken
