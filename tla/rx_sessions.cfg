\* Two sessions torn down by the host, three frames in all; two-byte packets, frames of up to three bytes.
SPECIFICATION Spec
CONSTANTS
  Handles = {h1, h2}
  NULL = NULL
  MaxPcktLen = 2
  MaxSegSize = 3
  RxBufSize = 5
  PoolBufSize = 3
  PoolSize = 3
  MboxSize = 1
  MaxHeld = 0
  MaxFrames = 3
  MaxTeardowns = 2
SYMMETRY Symmetry
CHECK_DEADLOCK FALSE
INVARIANTS
  TypeOK
  RxStoreInBounds
  PoolConserved
  CoreExclusive
  LinkUpOnlyWithClass
  LinkLostOnlyByMerge
  NackedInFirstSession
  FramesIntact
  NoFaultInFirstSession
  MutexReleasedWhileWaiting
PROPERTIES
  DeviceSpec
