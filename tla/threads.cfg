SPECIFICATION ThreadsSpec
CONSTANTS
  MaxInFlight = 2
  ReqTimeout = 2
  ConnectTimeout = 1
  Interval = 1
  KeepAlive = 1
  RingSize = 4
  SndBuf = 2
  DiffMod = 8
  MaxPublishes = 2
  MaxUnasked = 1
  Readers = {"telemetry", "shell"}
  ReadSize = 2
  CountMod = 3
  Writers = {"log", "out", "error"}
  Locking = {"log", "out"}
  TextLen = 2
  XferMod = 3
  MaxKeys = 3
  MaxPrints = 1
  Period = 3
  MaxSec = 4
CHECK_DEADLOCK FALSE
INVARIANTS WalksEnd TableSound StreamIntact QuietBus LoneRead WaiterArmed TextIntact TimeRead
PROPERTIES TableSpec Settled
