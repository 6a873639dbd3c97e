SPECIFICATION Spec
CONSTANTS
  User = {alice, bob}
  Desk = Desk
  Address = {a1, a2}
  Token = {gold, silver}
  Order = {o1, o2}
  Amount = {1}
  MaxSigners = 2
  Wallet = {w1, w2}
  Tx = {x1, x2}
  MaxOwners = 2
  Rich = 1
  Funds <- Endowment
SYMMETRY Symmetry
CONSTRAINT FewCalls
INVARIANTS DeskBacked
PROPERTIES SignedDebits IsSwap
CHECK_DEADLOCK FALSE
