\* One transaction per chain, a cache of one record and queues of one place.
SPECIFICATION FairSpec
CONSTANTS
  eth = eth
  sol = sol
  t1 = t1
  t2 = t2
  NoTx = NoTx
  Listener = {eth, sol}
  Tx = {t1, t2}
  ListenerOf <- SeenBy
  Window = 1
  MaxAge = 1
  MaxCache = 1
  ChanCap = 1
  RecoveryCap = 1
  MaxTime = 2
  MaxDetections = 3
  MaxRetries = 1
  MaxFaults = 2
  MaxRestarts = 1
INVARIANTS HandledOnce
PROPERTIES FailedRelayed
CHECK_DEADLOCK FALSE
