\* Two senders without a lock between them, two sessions.
SPECIFICATION FairSpec
CONSTANTS
  Senders = {s1, s2}
  Handles = {h1, h2}
  NULL = NULL
  MaxPcktLen = 2
  Lengths = {1, 2}
  TxBufSize = 2
  Tries = 1
  MaxFrames = 2
  MaxTeardowns = 1
CHECK_DEADLOCK FALSE
INVARIANTS
  TypeOK
  NeverStuck
PROPERTIES
  CallsReturn
