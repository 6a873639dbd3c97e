\* Two relay transactions and one call; bo's address is too short.
SPECIFICATION FairSpec
CONSTANTS
  ann = ann
  bo = bo
  Pool = Pool
  User = {ann, bo}
  Short = {bo}
  Funds <- AnnsFunds
  MaxSupply = 2
  MaxLocal = 1
  Local <- OutAndIn
  Events <- Seen
  Targets = {"blackhole", "polkadot"}
  Relay = {"r1", "r2"}
  Manual = {"m1"}
  Requester = {"r1", "r2", "m1", "local"}
  MaxRetries = 1
  Threshold = 2
  Successes = 2
  MaxFailures = 3
INVARIANTS BridgeBacked RelayedOnce FailedByBreaker
PROPERTIES RelaysSettle
CHECK_DEADLOCK FALSE
