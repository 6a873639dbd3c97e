\* One node mines, sends are lost, the other node may start anew.
SPECIFICATION FairSpec
CONSTANTS
  n1 = n1
  n2 = n2
  t1 = t1
  t2 = t2
  Node = {n1, n2}
  Gateway = {n1}
  Tx = {t1, t2}
  Suspicious = {t2}
  Restarting = {n2}
  Hash <- Blocks3
  Stake = {1}
  MaxIndex = 3
  MaxRestarts = 1
  MaxRequests = 2
  Lossy = TRUE
  NoBlock = NoBlock
INVARIANT ReplicasAgree
PROPERTY CatchUp
