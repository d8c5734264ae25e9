\* One sender, one session; frames of one to four bytes.
SPECIFICATION PollingSpec
CONSTANTS
  Senders = {s1}
  Handles = {h1}
  NULL = NULL
  MaxPcktLen = 2
  Lengths = {1, 2, 3, 4}
  TxBufSize = 4
  Tries = 2
  MaxFrames = 3
  MaxTeardowns = 0
CHECK_DEADLOCK FALSE
PROPERTIES
  PipeSpec
  AcceptedDelivered
