SPECIFICATION SpecParts
CONSTANTS
  Caller = {k1, k2}
  Stopper = stopper
  Listener = {"eth"}
  PanicRecovery = TRUE
  ChanCap = 1
  MaxInits = 2
  MaxStarts = 2
  Event = {e1, e2, e3}
  RetryCap = 1
  DeadCap = 1
  Client = {c1}
  Filter = {{"info"}, {"debug", "info"}}
  RecentLimit = 2
  LogCap = 1
  SendCap = 1
  MaxEntries = 3
INVARIANTS OneIntake OnlyLateLeft ClientsServed
PROPERTIES ShutdownEnds HandlerEnds
\* The process may have panicked, or everything in it may have ended.
CHECK_DEADLOCK FALSE
