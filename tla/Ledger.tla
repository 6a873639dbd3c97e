------------------------------- MODULE Ledger -------------------------------
(***************************************************************************)
(* What a node's blocks do to its accounts: native balances (GlobalState,  *)
(* copied to LevelDB), BHX balances and stakes (in memory only).  AddBlock *)
(* executes transactions with Blockchain.mu locked, so one at a time; the  *)
(* mining loop pays the reward of its own block after AddBlock, without    *)
(* that lock, and meets the next block's transactions half-way.            *)
(*                                                                         *)
(* Balances and stakes are unsigned words, and so are their sums: a sum    *)
(* that is too large wraps.  Clients send in their own names and in that   *)
(* of "system", whose native transfers make money: the sender is neither   *)
(* checked nor debited.                                                    *)
(***************************************************************************)
EXTENDS Integers, FiniteSets, Totals

CONSTANTS
  User,         \* addresses that send transactions, "system" among them
  Amounts,      \* amounts of a transaction
  Word,         \* number of values of a balance: 2^64 in the code
  Native,       \* native balance of each user that NewBlockchain sets
  Tokens,       \* BHX balance of each user that NewBlockchain mints
  GenesisStake, \* stake of each user set without a deposit
  Reward,       \* BlockReward
  MaxSupply,    \* maximum supply of BHX
  MaxBlocks,    \* bound on the blocks mined by this node
  MaxGranted,   \* bound on the native money "system" gives
  MaxMints,     \* bound on the calls of AddTokenBalance
  MaxRestarts,  \* bound on the number of restarts
  Nothing       \* no transaction, no stored account, no reward

Account == User \cup {"staking_contract"}

InitTokens == [a \in Account |-> IF a \in User THEN Tokens[a] ELSE 0]

Balance == 0 .. Word - 1

\* The node starts within the maximum supply, which leaves room in a word for the
\* genesis stakes, the rewards and any one amount.
ASSUME LedgerAssumption ==
  /\ IsFiniteSet(User) /\ "system" \in User /\ "staking_contract" \notin User
  /\ {Word, MaxSupply} \subseteq Nat \ {0}
  /\ {MaxBlocks, MaxGranted, MaxMints, MaxRestarts} \subseteq Nat
  /\ Amounts \subseteq Nat \ {0} /\ Reward \in Amounts
  /\ Native \in [User -> Balance]
  /\ Tokens \in [User -> Balance] /\ Total(InitTokens) <= MaxSupply
  /\ GenesisStake \in [User -> Balance]
  /\ \A amount \in Amounts :
       MaxSupply + Total(GenesisStake) + MaxBlocks * Reward + amount < Word

TxInProgress ==
  [do : {"credit", "addStake", "withdraw", "setStake"}, user : User,
   amount : Amounts, seen : Balance]

RewardInProgress == [do : {"mint", "addStake"}, user : User]

ASSUME NothingAssumption ==
  Nothing \notin TxInProgress \cup RewardInProgress \cup Balance

VARIABLES
  native,    \* GlobalState's balances
  db,        \* balances stored in LevelDB, Nothing where there is none
  tokens,    \* balances of BHX
  stake,     \* StakeLedger.Stakes
  tx,        \* the transaction AddBlock is in the middle of
  reward,    \* the reward the mining loop is in the middle of
  added,     \* stake added for blocks to each validator since the start
  deposits,  \* deposits less withdrawals of each user since the start
  blocks,    \* blocks this node mined and added since the start
  granted,   \* native money "system" has given
  overflow,  \* a mint since the start made the supply reach Word
  mints,     \* calls of AddTokenBalance
  restarts   \* restarts

history == <<added, deposits, blocks, granted, overflow, mints, restarts>>
vars == <<native, db, tokens, stake, tx, reward, history>>

\* What a restart finds of u's native balance.
Stored(u) == IF db[u] = Nothing THEN Native[u] ELSE db[u]

Zero == [u \in User |-> 0]

Init ==
  /\ native = Native
  /\ db = [u \in User |-> Nothing]
  /\ tokens = InitTokens
  /\ stake = GenesisStake
  /\ tx = Nothing
  /\ reward = Nothing
  /\ added = Zero /\ deposits = Zero
  /\ blocks = 0 /\ granted = 0 /\ overflow = FALSE
  /\ mints = 0 /\ restarts = 0
-----------------------------------------------------------------------------
(***************************************************************************)
(* Transactions of a block.  validateTransactionSecurity lets no transfer  *)
(* go back to its sender; a transaction that fails is skipped.             *)
(***************************************************************************)

FaultySetBalance(u, balance) ==
  /\ native' = [native EXCEPT ![u] = balance]
  /\ db' = [db EXCEPT ![u] = IF balance = 0 THEN @ ELSE balance]

\* SetBalance writes the account through to LevelDB.
SetBalance(u, balance) ==
  /\ native' = [native EXCEPT ![u] = balance]
  /\ db' = [db EXCEPT ![u] = balance]

\* The receiver's balance wraps.
Credit(u, amount) == SetBalance(u, (native[u] + amount) % Word)

\* applyRegularTransfer writes the sender's account and then the receiver's.
DebitRegular(from, to, amount) ==
  /\ tx = Nothing /\ from # to
  /\ from # "system" /\ native[from] >= amount
  /\ SetBalance(from, native[from] - amount)
  /\ tx' = [do |-> "credit", user |-> to, amount |-> amount, seen |-> 0]
  /\ UNCHANGED <<tokens, stake, reward, history>>

CreditRegular ==
  /\ tx # Nothing /\ tx.do = "credit"
  /\ Credit(tx.user, tx.amount)
  /\ tx' = Nothing
  /\ UNCHANGED <<tokens, stake, reward, history>>

\* When "system" is the sender there is only the receiver's account to write.
CreditFromSystem(to, amount) ==
  /\ tx = Nothing /\ to # "system"
  /\ granted + amount <= MaxGranted
  /\ Credit(to, amount)
  /\ granted' = granted + amount
  /\ UNCHANGED <<tokens, stake, tx, reward, added, deposits, blocks, overflow, mints,
                 restarts>>

Transferred(from, to, amount) ==
  [tokens EXCEPT ![from] = @ - amount, ![to] = (@ + amount) % Word]

\* A transfer of BHX; "system" pays the rewards of the blocks of other nodes.
applyTokenTransfer(from, to, amount) ==
  /\ tx = Nothing /\ from # to
  /\ tokens[from] >= amount
  /\ tokens' = Transferred(from, to, amount)
  /\ UNCHANGED <<native, db, stake, tx, reward, history>>

FaultyDepositTokens(u, amount) ==
  /\ tx = Nothing
  /\ IF tokens[u] >= amount
     THEN tokens' = Transferred(u, "staking_contract", amount)
     ELSE UNCHANGED tokens
  /\ tx' = [do |-> "addStake", user |-> u, amount |-> amount, seen |-> 0]
  /\ UNCHANGED <<native, db, stake, reward, history>>

\* applyStakeDeposit moves the tokens and then adds the stake.
DepositTokens(u, amount) ==
  /\ tx = Nothing
  /\ tokens[u] >= amount
  /\ tokens' = Transferred(u, "staking_contract", amount)
  /\ tx' = [do |-> "addStake", user |-> u, amount |-> amount, seen |-> 0]
  /\ UNCHANGED <<native, db, stake, reward, history>>

DepositStake ==
  /\ tx # Nothing /\ tx.do = "addStake"
  /\ stake' = [stake EXCEPT ![tx.user] = (@ + tx.amount) % Word]
  /\ deposits' = [deposits EXCEPT ![tx.user] = @ + tx.amount]
  /\ tx' = Nothing
  /\ UNCHANGED <<native, db, tokens, reward, added, blocks, granted, overflow, mints,
                 restarts>>

\* applyStakeWithdraw reads the stake, moves the tokens, and sets the stake to
\* what it read less the amount: three calls, three critical sections.
WithdrawCheck(u, amount) ==
  /\ tx = Nothing
  /\ stake[u] >= amount
  /\ tx' = [do |-> "withdraw", user |-> u, amount |-> amount, seen |-> stake[u]]
  /\ UNCHANGED <<native, db, tokens, stake, reward, history>>

WithdrawTokens ==
  /\ tx # Nothing /\ tx.do = "withdraw"
  /\ IF tokens["staking_contract"] >= tx.amount
     THEN /\ tokens' = Transferred("staking_contract", tx.user, tx.amount)
          /\ tx' = [tx EXCEPT !.do = "setStake"]
     ELSE tx' = Nothing /\ UNCHANGED tokens
  /\ UNCHANGED <<native, db, stake, reward, history>>

FaultyWithdrawStake ==
  /\ tx # Nothing /\ tx.do = "setStake"
  /\ stake' = [stake EXCEPT ![tx.user] = tx.seen]
  /\ deposits' = [deposits EXCEPT ![tx.user] = @ - tx.amount]
  /\ tx' = Nothing
  /\ UNCHANGED <<native, db, tokens, reward, added, blocks, granted, overflow, mints,
                 restarts>>

WithdrawStake ==
  /\ tx # Nothing /\ tx.do = "setStake"
  /\ stake' = [stake EXCEPT ![tx.user] = tx.seen - tx.amount]
  /\ deposits' = [deposits EXCEPT ![tx.user] = @ - tx.amount]
  /\ tx' = Nothing
  /\ UNCHANGED <<native, db, tokens, reward, added, blocks, granted, overflow, mints,
                 restarts>>
-----------------------------------------------------------------------------
(***************************************************************************)
(* The mining loop's own block, AddTokenBalance and restarts.              *)
(***************************************************************************)

\* AddBlock has executed a block of this node for validator v.  MineBlock put a
\* reward transaction from "system" in it, which fails when "system" has run dry.
AddMined(v) ==
  /\ tx = Nothing /\ reward = Nothing
  /\ blocks < MaxBlocks
  /\ stake[v] > 0
  /\ blocks' = blocks + 1
  /\ IF v # "system" /\ tokens["system"] >= Reward
     THEN tokens' = Transferred("system", v, Reward)
     ELSE UNCHANGED tokens
  /\ reward' = [do |-> "mint", user |-> v]
  /\ UNCHANGED <<native, db, stake, tx, added, deposits, granted, overflow, mints,
                 restarts>>

FaultyCanMint(to, amount) ==
  /\ Total(tokens) % Word <= MaxSupply
  /\ tokens[to] <= Word - 1 - amount

\* Mint compares a sum that may have wrapped with the maximum; only the receiver's
\* own balance is kept from wrapping.
CanMint(to, amount) ==
  /\ (Total(tokens) + amount) % Word <= MaxSupply
  /\ tokens[to] <= Word - 1 - amount

\* Then the mining loop mints the reward, if the maximum supply allows it.
MintReward ==
  /\ reward # Nothing /\ reward.do = "mint"
  /\ IF CanMint(reward.user, Reward)
     THEN tokens' = [tokens EXCEPT ![reward.user] = @ + Reward]
     ELSE UNCHANGED tokens
  /\ reward' = [reward EXCEPT !.do = "addStake"]
  /\ UNCHANGED <<native, db, stake, tx, history>>

\* The stake grows by the reward, minted or not.
AddRewardStake ==
  /\ reward # Nothing /\ reward.do = "addStake"
  /\ stake' = [stake EXCEPT ![reward.user] = (@ + Reward) % Word]
  /\ added' = [added EXCEPT ![reward.user] = @ + Reward]
  /\ reward' = Nothing
  /\ UNCHANGED <<native, db, tokens, tx, deposits, blocks, granted, overflow, mints,
                 restarts>>

\* The admin call, with Blockchain.mu locked, for any account and any amount.
AddTokenBalance(to, amount) ==
  /\ tx = Nothing
  /\ mints < MaxMints
  /\ CanMint(to, amount)
  /\ tokens' = [tokens EXCEPT ![to] = @ + amount]
  /\ overflow' = (overflow \/ Total(tokens) + amount >= Word)
  /\ mints' = mints + 1
  /\ UNCHANGED <<native, db, stake, tx, reward, added, deposits, blocks, granted, restarts>>

\* The process stops anywhere and starts again: LevelDB has the native balances,
\* tokens and stakes start anew.
Restart ==
  /\ restarts < MaxRestarts
  /\ restarts' = restarts + 1
  /\ native' = [u \in User |-> Stored(u)]
  /\ tokens' = InitTokens
  /\ stake' = GenesisStake
  /\ tx' = Nothing /\ reward' = Nothing
  /\ added' = Zero /\ deposits' = Zero /\ blocks' = 0 /\ overflow' = FALSE
  /\ UNCHANGED <<db, granted, mints>>

Next ==
  \/ \E from, to \in User, amount \in Amounts : DebitRegular(from, to, amount)
  \/ CreditRegular
  \/ \E to \in User, amount \in Amounts : CreditFromSystem(to, amount)
  \/ \E from \in User, to \in Account, amount \in Amounts :
       applyTokenTransfer(from, to, amount)
  \/ \E u \in User, amount \in Amounts : DepositTokens(u, amount) \/ WithdrawCheck(u, amount)
  \/ DepositStake
  \/ WithdrawTokens
  \/ WithdrawStake
  \/ \E v \in User : AddMined(v)
  \/ MintReward
  \/ AddRewardStake
  \/ \E to \in Account, amount \in Balance \ {0} : AddTokenBalance(to, amount)
  \/ Restart

Spec == Init /\ [][Next]_vars
-----------------------------------------------------------------------------
(***************************************************************************)
(* Properties.                                                             *)
(***************************************************************************)
\* Type invariant: every balance and every stake is a word; none ever falls below
\* zero, where it would wrap to a fortune.
TypeOK ==
  /\ native \in [User -> Balance]
  /\ db \in [User -> Balance \cup {Nothing}]
  /\ tokens \in [Account -> Balance]
  /\ stake \in [User -> Balance]
  /\ tx \in TxInProgress \cup {Nothing}
  /\ reward \in RewardInProgress \cup {Nothing}
  /\ added \in [User -> Nat]
  /\ deposits \in [User -> Int]
  /\ granted \in Nat /\ overflow \in BOOLEAN
  /\ blocks \in 0 .. MaxBlocks /\ mints \in 0 .. MaxMints
  /\ restarts \in 0 .. MaxRestarts

\* The amount that has left a sender and not reached its receiver.
InFlight == IF tx # Nothing /\ tx.do = "credit" THEN tx.amount ELSE 0

\* All native money is of the genesis state or given by "system", whatever crashes
\* fall between the two writes of a transfer (applyRegularTransfer writes one account
\* after the other), and before the first restart none of it is lost, but for whole
\* words when a receiver's balance wraps.
NativeConserved ==
  /\ Total(native) + InFlight <= Total(Native) + granted
  /\ restarts = 0 =>
       (Total(native) + InFlight) % Word = (Total(Native) + granted) % Word

\* The amount a withdrawal has paid out and not yet taken off the stake.
PaidOut == IF tx # Nothing /\ tx.do = "setStake" THEN tx.amount ELSE 0

\* Stake comes from a deposit whose tokens the staking contract holds, from the
\* genesis stakes or from a block's reward, and from nowhere else, whichever way
\* withdrawals and the mining loop's rewards meet; unless a mint has overflowed,
\* after which the contract's balance may wrap.
StakeBacked ==
  ~overflow =>
    Total(stake) <=
      tokens["staking_contract"] + Total(GenesisStake) + Total(added) + PaidOut

\* Nobody has more stake than the genesis stake, the deposits less the withdrawals
\* and the rewards account for, though a withdrawal writes the stake it read two
\* steps earlier and the mining loop adds to it in between: an update may be lost,
\* none counts twice.
StakeExplained ==
  \A u \in User : stake[u] <= GenesisStake[u] + deposits[u] + added[u]

\* The supply a node adds up for itself never passes the maximum, whatever mints,
\* transfers and rewards wrap (Mint); the true supply passes it only when the admin
\* has minted an amount that makes the sum wrap, never by rewards or transfers.
SupplyWithinMax ==
  /\ Total(tokens) % Word <= MaxSupply
  /\ ~overflow => Total(tokens) <= MaxSupply
=============================================================================
