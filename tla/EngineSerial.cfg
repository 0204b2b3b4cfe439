\* Two connections and one worker: the trigger connection has one sender.
SPECIFICATION Spec
CONSTANTS
  c1 = c1
  c2 = c2
  w1 = w1
  w2 = w2
  pool1 = pool1
  pool2 = pool2
  Trigger = Trigger
  None = None
  Handler  <- StockHandlers
  Threaded <- StockThreaded
  Effects  <- StockEffects
  Conn <- TwoConns
  Worker <- OneWorker
  Pool <- OnePool
  PoolOf <- SharedPool
  Phases <- SerialPhases
  MaxMsgs = 2
INVARIANTS TypeOK NoLostWakeup
PROPERTY ImplementsSerial
