\* A queued message that finishes in-process.
SPECIFICATION Safety
CONSTANTS
  c1 = c1
  c2 = c2
  w1 = w1
  w2 = w2
  pool1 = pool1
  pool2 = pool2
  Trigger = Trigger
  None = None
  Handler  <- StockHandlers
  Threaded <- StockThreaded
  Effects  <- StockEffects
  Conn <- OneConn
  Worker <- OneWorker
  Pool <- OnePool
  PoolOf <- SharedPool
  Phases <- MixedPhases
  MaxMsgs = 3
INVARIANT NoLostResult
