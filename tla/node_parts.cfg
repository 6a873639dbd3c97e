SPECIFICATION SpecParts
CONSTANTS
  alice = alice
  bob = bob
  genesis = genesis
  institutional = institutional
  Addr = {alice, bob}
  Word = 4
  MaxSupply = 2
  Validator = {genesis, institutional}
  Power <- MockPower
  CLIVoter = "cli-validator"
  Delay = 1
  VotingPeriod = 1
  MaxTime = 4
  MaxTallies = 2
  None = None
INVARIANTS SupplyIsCirculating DecidedByVotes
PROPERTIES ProposalsDecided
\* The operator may stop the node.
CHECK_DEADLOCK FALSE
