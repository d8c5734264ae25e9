\* One session, no teardown: the link calls against the tcpip_thread.
SPECIFICATION Spec
CONSTANTS
  Handles = {h1}
  NULL = NULL
  MaxPcktLen = 2
  MaxSegSize = 3
  RxBufSize = 5
  PoolBufSize = 3
  PoolSize = 4
  MboxSize = 1
  MaxHeld = 1
  MaxFrames = 2
  MaxTeardowns = 0
CHECK_DEADLOCK FALSE
INVARIANT OneThreadInCore
