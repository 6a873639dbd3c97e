SPECIFICATION SpecParts
CONSTANTS
  Wallet = {alice, bob, carol}
  Legacy = {alice, bob}
  Desk = Desk
  Staking = Staking
  Token = {BHX, USDT}
  BHX = BHX
  Amount = {1}
  Request = {r1, r2}
  Funds <- Endowment
  Name = {ann, ben}
  Password = {p, q}
  Registrant = {g1, g2}
  Browser = {b1, b2}
  MaxTime = 1
  MaxWallets = 1
SYMMETRY Symmetry
CONSTRAINT Bound
INVARIANTS FailedNeverSent SentWasRecorded RegisteredLogsIn OwnWallets
CHECK_DEADLOCK FALSE
