\* Everything a node does; it may block, which is what the properties are about.
\* One goroutine makes the calls of the mining loop and of a stream.
CONSTANTS
  Miner = {g1}
  Stream = {g1}
  Api = {api}
  Monitor = {mon}
  Forks = TRUE
  Executing = TRUE
  Reporting = TRUE
  NoThread = NoThread
SPECIFICATION LocksFairSpec
CHECK_DEADLOCK FALSE
INVARIANTS DeadlockNeedsRelock
PROPERTIES CallsReturn
