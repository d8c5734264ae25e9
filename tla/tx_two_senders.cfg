\* Two senders without a lock between them, one session.
SPECIFICATION Spec
CONSTANTS
  Senders = {s1, s2}
  Handles = {h1}
  NULL = NULL
  MaxPcktLen = 2
  Lengths = {2}
  TxBufSize = 2
  Tries = 1
  MaxFrames = 3
  MaxTeardowns = 0
CHECK_DEADLOCK FALSE
INVARIANT CopyWhenFree
