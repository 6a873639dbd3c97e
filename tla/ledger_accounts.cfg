\* A validator with genesis stake, native money and BHX, and "system"; words of 3 bits.
CONSTANTS
  val = val
  User <- Users
  Amounts = {1, 2}
  Word = 8
  Native <- StartNative
  Tokens <- StartTokens
  GenesisStake <- ValidatorStake
  Reward = 1
  MaxSupply = 3
  MaxBlocks = 1
  MaxGranted = 1
  MaxMints = 1
  MaxRestarts = 1
  Nothing = Nothing
SPECIFICATION Spec
INVARIANTS NativeConserved StakeBacked StakeExplained SupplyWithinMax
\* Once all money is stake, blocks are mined and restarts used up, nothing is left to do.
CHECK_DEADLOCK FALSE
