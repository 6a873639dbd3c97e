\* Both nodes mine, nothing is lost, messages overtake one another.
SPECIFICATION Spec
CONSTANTS
  n1 = n1
  n2 = n2
  t1 = t1
  t2 = t2
  Node = {n1, n2}
  Gateway = {n1, n2}
  Tx = {t1, t2}
  Suspicious = {}
  Restarting = {}
  Hash <- Blocks3
  Stake = {1, 2}
  MaxIndex = 2
  MaxRestarts = 0
  MaxRequests = 2
  Lossy = FALSE
  NoBlock = NoBlock
SYMMETRY Symmetry
INVARIANTS ChainLinked AppliedInOrder ForkChoiceSettles
PROPERTY TipImproves
CONSTRAINT FewMessages
\* A node whose AddBlock waits for its own lock stops, and both may.
CHECK_DEADLOCK FALSE
