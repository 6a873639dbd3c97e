SPECIFICATION SpecParts
CONSTANTS
  alice = alice
  bob = bob
  carol = carol
  e1 = e1
  e2 = e2
  Party = {alice, bob}
  Nobody = Nobody
  Pool = Pool
  Id = {e1, e2}
  Rich = 2
  Funds <- Endowment
  Request = {r1}
  Asked = {1}
  Peers = 2
SYMMETRY Symmetry
CONSTRAINT Bound
INVARIANTS Backed StatusTellsSettled AnswersHold
PROPERTY IsCustody
