--------------------------- MODULE LedgerProofs ---------------------------
(***************************************************************************)
(* What a node's accounts guarantee for any users, amounts, genesis state  *)
(* and rewards, whatever the interleaving of a block's transactions, the   *)
(* mining loop's reward and restarts; then, for its locks, that goroutines *)
(* wait for one another in a circle only when one of them waits for        *)
(* itself.                                                                 *)
(***************************************************************************)
EXTENDS Ledger, NodeLocks, TotalsProofs, SequenceTheorems

\* A withdrawal never has seen more stake than there is (the mining loop only adds).
SeenStake ==
  tx # Nothing /\ tx.do \in {"withdraw", "setStake"} =>
    tx.amount <= tx.seen /\ (~overflow => tx.seen <= stake[tx.user])

\* What is stored is what is in memory.
MemoryIsStored == \A u \in User : native[u] = Stored(u)

\* The amount a deposit has moved to the contract and not yet added to the stake.
Entering == IF tx # Nothing /\ tx.do = "addStake" THEN tx.amount ELSE 0

\* StakeBacked with what is about to be added already counted.
StakeCovered ==
  ~overflow =>
    Total(stake) + Entering <=
      tokens["staking_contract"] + Total(GenesisStake) + Total(added) + PaidOut

\* Each block adds one reward to the stakes.
Pending == IF reward # Nothing THEN Reward ELSE 0
AddedBounded == Total(added) + Pending <= blocks * Reward

Inv ==
  /\ TypeOK /\ SeenStake /\ MemoryIsStored /\ AddedBounded
  /\ NativeConserved /\ StakeCovered /\ SupplyWithinMax

LEMMA BalanceFacts ==
  /\ Word \in Nat \ {0} /\ 0 \in Balance
  /\ \A b : b \in Balance <=> b \in Nat /\ b < Word
  /\ \A a \in Amounts : a \in Balance /\ a \in Nat \ {0}
  /\ Reward \in Amounts
<1>1. Word \in Nat \ {0} /\ Amounts \subseteq Nat \ {0} /\ Reward \in Amounts
  BY LedgerAssumption
<1>2. 0 \in Balance /\ \A b : b \in Balance <=> b \in Nat /\ b < Word
  BY <1>1 DEF Balance
<1>3. ASSUME NEW a \in Amounts PROVE a < Word
  <2>1. GenesisStake \in [User -> Nat] /\ IsFiniteSet(User)
    BY <1>2, LedgerAssumption
  <2>2. Total(GenesisStake) \in Nat
    BY <2>1, TotalType
  <2>3. MaxBlocks * Reward \in Nat
    BY <1>1, LedgerAssumption
  <2>4. MaxSupply + Total(GenesisStake) + MaxBlocks * Reward + a < Word /\ MaxSupply \in Nat
    BY LedgerAssumption
  <2> DEFINE g == Total(GenesisStake)
             m == MaxBlocks * Reward
  <2> HIDE DEF g, m
  <2>5. MaxSupply + g + m + a < Word /\ g \in Nat /\ m \in Nat
    BY <2>2, <2>3, <2>4 DEF g, m
  <2> QED
    BY <1>1, <2>4, <2>5
<1> QED
  BY <1>1, <1>2, <1>3

\* Balances are numbers.
LEMMA NatFunction ==
  ASSUME NEW S, NEW f \in [S -> Balance]
  PROVE  f \in [S -> Nat]
BY BalanceFacts

LEMMA ConstantFacts ==
  /\ IsFiniteSet(User) /\ IsFiniteSet(Account)
  /\ User \subseteq Account
  /\ "staking_contract" \in Account \ User /\ "system" \in User
  /\ Reward \in Nat /\ MaxSupply \in Nat
  /\ Zero \in [User -> Nat] /\ Total(Zero) = 0
  /\ InitTokens \in [Account -> Balance] /\ InitTokens["staking_contract"] = 0
  /\ Total(InitTokens) <= MaxSupply
<1>1. IsFiniteSet(Account)
  BY LedgerAssumption, FS_AddElement DEF Account
<1>2. Zero \in [User -> Nat] /\ \A u \in User : Zero[u] = 0
  BY DEF Zero
<1>3. Total(Zero) = 0
  BY <1>2, TotalZero
<1>4. InitTokens \in [Account -> Balance] /\ InitTokens["staking_contract"] = 0
  BY BalanceFacts, LedgerAssumption DEF InitTokens, Account
<1> QED
  BY <1>1, <1>2, <1>3, <1>4, BalanceFacts, LedgerAssumption DEF Account

LEMMA GenesisTotals ==
  /\ Total(Native) \in Nat /\ Total(GenesisStake) \in Nat /\ Total(InitTokens) \in Nat
<1>1. /\ Native \in [User -> Nat] /\ GenesisStake \in [User -> Nat]
      /\ InitTokens \in [Account -> Nat]
  BY ConstantFacts, LedgerAssumption, NatFunction
<1> QED
  BY <1>1, ConstantFacts, TotalType

\* However many blocks there were, there is room for the rewards, the genesis stakes,
\* the maximum supply and any one amount in a word.
LEMMA ConstantRoom ==
  ASSUME NEW a \in Amounts \cup {0}, NEW b \in 0 .. MaxBlocks
  PROVE  /\ b * Reward \in Nat
         /\ MaxSupply + Total(GenesisStake) + b * Reward + a < Word
<1>1. /\ Reward \in Nat /\ MaxBlocks \in Nat /\ b \in Nat /\ MaxBlocks - b \in Nat
      /\ MaxSupply \in Nat /\ Total(GenesisStake) \in Nat /\ Word \in Nat
  BY BalanceFacts, ConstantFacts, GenesisTotals, LedgerAssumption
<1>2. b * Reward \in Nat /\ (MaxBlocks - b) * Reward \in Nat /\ MaxBlocks * Reward \in Nat
  BY <1>1
<1>3. MaxBlocks * Reward - b * Reward = (MaxBlocks - b) * Reward
  BY <1>1, SMTT(30)
<1> DEFINE x == b * Reward
           y == MaxBlocks * Reward
           z == (MaxBlocks - b) * Reward
           g == Total(GenesisStake)
<1>4. PICK c \in Amounts : a <= c /\ c \in Nat /\ a \in Nat
  BY BalanceFacts
<1>5. MaxSupply + g + y + c < Word
  BY <1>4, LedgerAssumption
<1> HIDE DEF x, y, z, g
<1>6. x \in Nat /\ y \in Nat /\ z \in Nat /\ g \in Nat /\ y - x = z
  BY <1>1, <1>2, <1>3 DEF x, y, z, g
<1>7. MaxSupply + g + x + a < Word
  BY <1>1, <1>4, <1>5, <1>6
<1> QED
  BY <1>6, <1>7 DEF x, g

\* A sum of two words, in one word.
LEMMA Wrapped ==
  ASSUME NEW x \in Balance, NEW y \in Balance
  PROVE  /\ x \in Nat /\ y \in Nat
         /\ (x + y) % Word \in Balance /\ (x + y) % Word <= x + y
         /\ x + y < Word => (x + y) % Word = x + y
         /\ x + y >= Word => (x + y) % Word = x + y - Word
<1>1. /\ Word \in Nat \ {0} /\ x \in 0 .. Word - 1 /\ y \in 0 .. Word - 1
      /\ x \in Nat /\ y \in Nat /\ x < Word /\ y < Word
  BY BalanceFacts
<1>2. (x + y) % Word = IF x + y < Word THEN x + y ELSE x + y - Word
  BY <1>1, WordSum
<1> DEFINE z == (x + y) % Word
<1> HIDE DEF z
<1>3. z = IF x + y < Word THEN x + y ELSE x + y - Word
  BY <1>2 DEF z
<1>4. z \in Nat /\ z < Word /\ z <= x + y
  BY <1>1, <1>3
<1>5. z \in Balance
  BY <1>4, BalanceFacts
<1> QED
  BY <1>1, <1>3, <1>4, <1>5 DEF z

\* Two sums that differ by nothing or by a word have one remainder.
LEMMA SameRemainder ==
  ASSUME NEW x \in Nat, NEW y \in Nat, y = x \/ y = x - Word
  PROVE  y % Word = x % Word
<1>1. Word \in Nat \ {0}
  BY BalanceFacts
<1>2. CASE y = x - Word
  <2>1. (y + Word) % Word = y % Word
    BY <1>1, RemainderWrap
  <2>2. y + Word = x
    BY <1>1, <1>2
  <2> QED
    BY <2>1, <2>2
<1> QED
  BY <1>2

\* A transfer between two accounts moves tokens and makes none; the sum loses a word
\* when the receiver wraps, which it does not as long as the sum is less than that.
LEMMA TransferredFacts ==
  ASSUME tokens \in [Account -> Balance], NEW from \in Account, NEW to \in Account,
         from # to, NEW amount \in Balance, amount <= tokens[from]
  PROVE  /\ Transferred(from, to, amount) \in [Account -> Balance]
         /\ Total(Transferred(from, to, amount)) \in Nat
         /\ Total(Transferred(from, to, amount)) % Word = Total(tokens) % Word
         /\ Transferred(from, to, amount)[from] = tokens[from] - amount
         /\ \A a \in Account \ {from, to} : Transferred(from, to, amount)[a] = tokens[a]
         /\ Total(tokens) < Word =>
              /\ Total(Transferred(from, to, amount)) = Total(tokens)
              /\ Transferred(from, to, amount)[to] = tokens[to] + amount
<1> DEFINE less == [tokens EXCEPT ![from] = @ - amount]
           sum == (tokens[to] + amount) % Word
           more == [less EXCEPT ![to] = sum]
<1>1. IsFiniteSet(Account) /\ tokens \in [Account -> Nat]
  BY ConstantFacts, NatFunction
<1>2. /\ tokens[from] \in Nat /\ tokens[to] \in Balance /\ amount \in Nat
      /\ tokens[from] - amount \in Balance
  BY BalanceFacts
<1>3. /\ sum \in Balance /\ sum \in Nat /\ tokens[to] \in Nat
      /\ sum = tokens[to] + amount \/ sum = tokens[to] + amount - Word
      /\ tokens[to] + amount < Word => sum = tokens[to] + amount
  <2>1. Word \in Nat /\ tokens[to] \in Nat /\ sum \in Balance
    BY <1>2, Wrapped, BalanceFacts
  <2>2. sum \in Nat
    BY <2>1, BalanceFacts
  <2> QED
    BY <1>2, <2>1, <2>2, Wrapped
<1> HIDE DEF sum
<1>4. /\ less \in [Account -> Balance] /\ less[from] = tokens[from] - amount
      /\ \A a \in Account \ {from} : less[a] = tokens[a]
  BY <1>2
<1>5. /\ more \in [Account -> Balance] /\ more[to] = sum
      /\ \A a \in Account \ {to} : more[a] = less[a]
  BY <1>3, <1>4
<1>6. Transferred(from, to, amount) = more
  BY <1>4 DEF Transferred, sum
<1> HIDE DEF less, more
<1>7. less \in [Account -> Nat] /\ more \in [Account -> Nat]
  BY <1>4, <1>5, NatFunction
<1>8. /\ Total(tokens) \in Nat /\ Total(less) \in Nat
      /\ Total(less) = Total(tokens) - tokens[from] + less[from]
  BY <1>1, <1>4, <1>7, TotalChange
<1>9. Total(more) \in Nat /\ Total(more) = Total(less) - less[to] + more[to]
  BY <1>1, <1>5, <1>7, TotalChange
<1>10. less[to] = tokens[to] /\ less[to] <= Total(less)
  BY <1>1, <1>4, <1>7, TotalBounds
<1>11. Total(less) = Total(tokens) - amount
  BY <1>2, <1>4, <1>8
<1>12. Total(more) = Total(tokens) - amount - tokens[to] + sum
  BY <1>5, <1>9, <1>10, <1>11
<1>13. Total(more) = Total(tokens) \/ Total(more) = Total(tokens) - Word
  BY <1>2, <1>3, <1>8, <1>12, BalanceFacts
<1>14. Total(more) % Word = Total(tokens) % Word
  BY <1>8, <1>9, <1>13, SameRemainder
<1>15. ASSUME Total(tokens) < Word
       PROVE  Total(more) = Total(tokens) /\ more[to] = tokens[to] + amount
  <2>1. tokens[to] + amount <= Total(tokens)
    BY <1>2, <1>3, <1>8, <1>10, <1>11
  <2>2. tokens[to] + amount < Word /\ Word \in Nat
    BY <1>2, <1>3, <1>8, <1>15, <2>1, BalanceFacts
  <2> QED
    BY <1>2, <1>3, <1>5, <1>8, <1>12, <2>2
<1> QED
  BY <1>4, <1>5, <1>6, <1>9, <1>14, <1>15
-----------------------------------------------------------------------------
\* The transaction in progress, and the sums, in a state of the right type.
LEMMA Typed ==
  ASSUME TypeOK
  PROVE  /\ InFlight \in Nat /\ PaidOut \in Amounts \cup {0} /\ Entering \in Nat
         /\ Pending \in Nat
         /\ tx # Nothing =>
              /\ tx \in TxInProgress /\ tx.user \in User
              /\ tx.amount \in Amounts /\ tx.amount \in Balance
              /\ tx.amount \in Nat \ {0} /\ tx.seen \in Nat
         /\ reward # Nothing => reward \in RewardInProgress /\ reward.user \in User
         /\ Total(native) \in Nat /\ Total(stake) \in Nat /\ Total(added) \in Nat
         /\ Total(tokens) \in Nat /\ tokens["staking_contract"] \in Nat
<1>1. tx # Nothing =>
        /\ tx \in TxInProgress /\ tx.user \in User
        /\ tx.amount \in Amounts /\ tx.amount \in Balance
        /\ tx.amount \in Nat \ {0} /\ tx.seen \in Nat
  BY BalanceFacts DEF TypeOK, TxInProgress
<1>2. reward # Nothing => reward \in RewardInProgress /\ reward.user \in User
  BY DEF TypeOK, RewardInProgress
<1>3. /\ InFlight \in Nat /\ PaidOut \in Amounts \cup {0} /\ Entering \in Nat
      /\ Pending \in Nat
  BY <1>1, ConstantFacts DEF InFlight, PaidOut, Entering, Pending
<1>4. /\ native \in [User -> Nat] /\ stake \in [User -> Nat] /\ tokens \in [Account -> Nat]
  BY NatFunction DEF TypeOK
<1>5. Total(native) \in Nat /\ Total(stake) \in Nat /\ Total(added) \in Nat
  BY <1>4, ConstantFacts, TotalType DEF TypeOK
<1>6. Total(tokens) \in Nat /\ tokens["staking_contract"] \in Nat
  BY <1>4, ConstantFacts, TotalType
<1> QED
  BY <1>1, <1>2, <1>3, <1>5, <1>6

\* As long as no mint has overflowed, whatever one step adds fits in a word.
LEMMA Room ==
  ASSUME TypeOK, AddedBounded, StakeCovered, SupplyWithinMax, ~overflow
  PROVE  /\ \A a \in Amounts : Total(tokens) + a < Word
         /\ Total(tokens) < Word
         /\ \A u \in User : stake[u] + Entering + Pending < Word
<1> DEFINE S == Total(stake)
           T == Total(tokens)
           A == Total(added)
           G == Total(GenesisStake)
           c == tokens["staking_contract"]
           x == blocks * Reward
<1>1. /\ S \in Nat /\ T \in Nat /\ A \in Nat /\ G \in Nat /\ c \in Nat
      /\ Entering \in Nat /\ Pending \in Nat /\ PaidOut \in Amounts \cup {0}
      /\ MaxSupply \in Nat /\ Word \in Nat
  BY Typed, GenesisTotals, ConstantFacts, BalanceFacts
<1>2. T <= MaxSupply /\ S + Entering <= c + G + A + PaidOut /\ A + Pending <= x
  BY DEF SupplyWithinMax, StakeCovered, AddedBounded
<1>3. c <= T
  <2>1. tokens \in [Account -> Nat] /\ "staking_contract" \in Account /\ IsFiniteSet(Account)
    BY ConstantFacts, NatFunction DEF TypeOK
  <2> QED
    BY <2>1, TotalBounds
<1>4. blocks \in 0 .. MaxBlocks
  BY DEF TypeOK
<1>5. x \in Nat /\ \A a \in Amounts \cup {0} : MaxSupply + G + x + a < Word
  BY <1>4, ConstantRoom
<1>6. \A a \in Amounts \cup {0} : a \in Nat
  BY BalanceFacts
<1>7. \A u \in User : stake[u] \in Nat /\ stake[u] <= S
  <2>1. stake \in [User -> Nat] /\ IsFiniteSet(User)
    BY ConstantFacts, NatFunction DEF TypeOK
  <2> QED
    BY <2>1, TotalBounds
<1> HIDE DEF S, T, A, G, c, x
<1>8. \A a \in Amounts \cup {0} : T + a < Word
  BY <1>1, <1>2, <1>5, <1>6
<1>9. ASSUME NEW u \in User PROVE stake[u] + Entering + Pending < Word
  <2>1. PaidOut \in Nat /\ MaxSupply + G + x + PaidOut < Word
    BY <1>1, <1>5, <1>6
  <2> QED
    BY <1>1, <1>2, <1>3, <1>5, <1>7, <2>1
<1>10. T < Word
  <2>1. T + 0 < Word
    BY <1>8
  <2> QED
    BY <1>1, <2>1
<1> QED
  BY <1>8, <1>9, <1>10 DEF T

LEMMA InProgress ==
  /\ \A d \in {"credit", "addStake", "withdraw", "setStake"}, u \in User,
        a \in Amounts, n \in Balance :
       LET t == [do |-> d, user |-> u, amount |-> a, seen |-> n]
       IN t \in TxInProgress /\ t # Nothing
  /\ \A d \in {"mint", "addStake"}, u \in User :
       LET r == [do |-> d, user |-> u]
       IN r \in RewardInProgress /\ r # Nothing
<1>1. \A t \in TxInProgress : t # Nothing
  BY NothingAssumption
<1>2. \A r \in RewardInProgress : r # Nothing
  BY NothingAssumption
<1> QED
  BY <1>1, <1>2 DEF TxInProgress, RewardInProgress

LEMMA InitialSupply ==
  Total(InitTokens) <= MaxSupply /\ Total(InitTokens) % Word <= MaxSupply
<1> DEFINE T == Total(InitTokens)
<1>1. T <= MaxSupply /\ T \in Nat /\ MaxSupply \in Nat /\ Word \in Nat \ {0}
  BY ConstantFacts, GenesisTotals, BalanceFacts
<1>2. MaxSupply + Total(GenesisStake) + 0 * Reward + 0 < Word
  <2>1. 0 \in 0 .. MaxBlocks
    BY LedgerAssumption
  <2> QED
    BY <2>1, ConstantRoom
<1>3. MaxSupply < Word
  BY <1>1, <1>2, GenesisTotals, ConstantFacts
<1> HIDE DEF T
<1>4. T \in 0 .. Word - 1
  BY <1>1, <1>3
<1>5. T % Word = T
  BY <1>1, <1>4, RemainderSmall
<1> QED
  BY <1>1, <1>5 DEF T

LEMMA InitInv == Init => Inv
<1> SUFFICES ASSUME Init PROVE Inv
  OBVIOUS
<1>1. TypeOK
  <2>1. /\ 0 \in Nat /\ FALSE \in BOOLEAN
        /\ 0 \in 0 .. MaxBlocks /\ 0 \in 0 .. MaxMints /\ 0 \in 0 .. MaxRestarts
    BY LedgerAssumption
  <2>2. Zero \in [User -> Nat] /\ Zero \in [User -> Int]
    BY DEF Zero
  <2>3. /\ native \in [User -> Balance] /\ tokens \in [Account -> Balance]
        /\ stake \in [User -> Balance] /\ db \in [User -> Balance \cup {Nothing}]
    BY ConstantFacts, LedgerAssumption DEF Init
  <2> QED
    BY <2>1, <2>2, <2>3 DEF Init, TypeOK
<1>2. SeenStake /\ MemoryIsStored
  BY DEF Init, SeenStake, MemoryIsStored, Stored
<1>3. NativeConserved
  <2>1. InFlight = 0 /\ Total(native) = Total(Native) /\ granted = 0
    BY DEF Init, InFlight
  <2> QED
    BY <2>1, GenesisTotals DEF NativeConserved
<1>4. StakeCovered
  <2>1. /\ PaidOut = 0 /\ Entering = 0 /\ Total(stake) = Total(GenesisStake)
        /\ Total(added) = 0 /\ tokens["staking_contract"] = 0
    BY ConstantFacts DEF Init, PaidOut, Entering
  <2> QED
    BY <2>1, GenesisTotals DEF StakeCovered
<1>5. SupplyWithinMax
  BY InitialSupply DEF Init, SupplyWithinMax
<1>6. AddedBounded
  <2>1. Total(added) = 0 /\ Pending = 0 /\ blocks = 0 /\ Reward \in Nat
    BY ConstantFacts DEF Init, Pending
  <2> QED
    BY <2>1 DEF AddedBounded
<1> QED
  BY <1>1, <1>2, <1>3, <1>4, <1>5, <1>6 DEF Inv
-----------------------------------------------------------------------------
\* One lemma per action.  SetBalance keeps what is stored equal to what is in
\* memory and changes the sum by what it changes the one balance by.
LEMMA SetBalanceFacts ==
  ASSUME TypeOK, MemoryIsStored, NEW u \in User, NEW balance \in Balance,
         SetBalance(u, balance)
  PROVE  /\ native' \in [User -> Balance] /\ db' \in [User -> Balance \cup {Nothing}]
         /\ MemoryIsStored'
         /\ Total(native') \in Nat
         /\ Total(native') = Total(native) - native[u] + balance
<1>1. /\ native' \in [User -> Balance] /\ db' \in [User -> Balance \cup {Nothing}]
      /\ native'[u] = balance /\ db'[u] = balance
      /\ \A v \in User \ {u} : native'[v] = native[v] /\ db'[v] = db[v]
  BY DEF TypeOK, SetBalance
<1>2. balance # Nothing
  BY NothingAssumption
<1>3. MemoryIsStored'
  BY <1>1, <1>2 DEF MemoryIsStored, Stored
<1>4. /\ Total(native') \in Nat
      /\ Total(native') = Total(native) - native[u] + native'[u]
  <2>1. IsFiniteSet(User) /\ native \in [User -> Nat] /\ native' \in [User -> Nat]
    BY <1>1, ConstantFacts, NatFunction DEF TypeOK
  <2> QED
    BY <1>1, <2>1, TotalChange
<1> QED
  BY <1>1, <1>3, <1>4

\* A credit adds the amount to the sum, or a word less when the receiver wraps.
LEMMA CreditFacts ==
  ASSUME TypeOK, MemoryIsStored, NEW u \in User, NEW amount \in Amounts,
         Credit(u, amount)
  PROVE  /\ native' \in [User -> Balance] /\ db' \in [User -> Balance \cup {Nothing}]
         /\ MemoryIsStored'
         /\ Total(native') \in Nat /\ Total(native') <= Total(native) + amount
         /\ Total(native') % Word = (Total(native) + amount) % Word
<1> DEFINE sum == (native[u] + amount) % Word
<1>1. /\ native[u] \in Balance /\ amount \in Balance /\ amount \in Nat
      /\ Total(native) \in Nat /\ Word \in Nat
  BY BalanceFacts, Typed DEF TypeOK
<1>2. /\ sum \in Balance /\ sum <= native[u] + amount /\ native[u] \in Nat
      /\ sum = native[u] + amount \/ sum = native[u] + amount - Word
  <2>1. /\ sum \in Balance /\ sum <= native[u] + amount /\ native[u] \in Nat
        /\ native[u] + amount < Word => sum = native[u] + amount
        /\ native[u] + amount >= Word => sum = native[u] + amount - Word
    BY <1>1, Wrapped
  <2> HIDE DEF sum
  <2> QED
    BY <1>1, <2>1
<1>3. SetBalance(u, sum)
  BY DEF Credit
<1> HIDE DEF sum
<1>4. /\ native' \in [User -> Balance] /\ db' \in [User -> Balance \cup {Nothing}]
      /\ MemoryIsStored'
      /\ Total(native') \in Nat
      /\ Total(native') = Total(native) - native[u] + sum
  BY <1>2, <1>3, SetBalanceFacts
<1>5. sum \in Nat
  BY <1>2, BalanceFacts
<1>6. /\ Total(native') <= Total(native) + amount
      /\ \/ Total(native') = Total(native) + amount
         \/ Total(native') = Total(native) + amount - Word
  BY <1>1, <1>2, <1>4, <1>5
<1>7. Total(native') % Word = (Total(native) + amount) % Word
  <2> DEFINE x == Total(native) + amount
             y == Total(native')
  <2>1. x \in Nat /\ y \in Nat /\ (y = x \/ y = x - Word)
    BY <1>1, <1>4, <1>6
  <2> HIDE DEF x, y
  <2>2. y % Word = x % Word
    BY <2>1, SameRemainder
  <2> QED
    BY <2>2 DEF x, y
<1> QED
  BY <1>4, <1>6, <1>7

LEMMA DebitRegularInv ==
  ASSUME Inv, NEW from \in User, NEW to \in User, NEW amount \in Amounts,
         DebitRegular(from, to, amount)
  PROVE  Inv'
<1> USE DEF Inv
<1>1. /\ amount \in Nat /\ native[from] \in Nat /\ native[from] - amount \in Balance
      /\ Total(native) \in Nat
  BY BalanceFacts, Typed DEF DebitRegular, TypeOK
<1>2. /\ native' \in [User -> Balance] /\ db' \in [User -> Balance \cup {Nothing}]
      /\ MemoryIsStored'
      /\ Total(native') = Total(native) - amount
  <2>1. SetBalance(from, native[from] - amount)
    BY DEF DebitRegular
  <2>2. Total(native') = Total(native) - native[from] + (native[from] - amount)
    BY <1>1, <2>1, SetBalanceFacts
  <2> QED
    BY <1>1, <2>1, <2>2, SetBalanceFacts
<1>3. /\ tx' \in TxInProgress /\ tx' # Nothing
      /\ tx'.do = "credit" /\ tx'.amount = amount
  BY BalanceFacts, InProgress DEF DebitRegular
<1>4. UNCHANGED <<tokens, stake, reward, added, deposits, blocks, granted, overflow,
                  mints, restarts>>
  BY DEF DebitRegular, history
<1>5. TypeOK'
  BY <1>2, <1>3, <1>4 DEF TypeOK
<1>6. SeenStake'
  BY <1>3 DEF SeenStake
<1>7. NativeConserved'
  <2>1. tx = Nothing /\ InFlight = 0 /\ InFlight' = amount
    BY <1>3 DEF DebitRegular, InFlight
  <2>2. Total(native') + InFlight' = Total(native) + InFlight
    BY <1>1, <1>2, <2>1
  <2> QED
    BY <1>4, <2>2 DEF NativeConserved
<1>8. StakeCovered'
  <2>1. /\ Entering = 0 /\ Entering' = 0 /\ PaidOut = 0 /\ PaidOut' = 0
    BY <1>3 DEF DebitRegular, Entering, PaidOut
  <2> QED
    BY <1>4, <2>1 DEF StakeCovered
<1>9. SupplyWithinMax' /\ AddedBounded'
  BY <1>4 DEF SupplyWithinMax, AddedBounded, Pending
<1> QED
  BY <1>2, <1>5, <1>6, <1>7, <1>8, <1>9

LEMMA CreditRegularInv ==
  ASSUME Inv, CreditRegular
  PROVE  Inv'
<1> USE DEF Inv
<1>1. /\ tx.user \in User /\ tx.amount \in Amounts /\ tx.amount \in Nat
      /\ tx # Nothing /\ tx.do = "credit" /\ tx' = Nothing /\ Credit(tx.user, tx.amount)
  BY Typed DEF CreditRegular
<1>2. /\ native' \in [User -> Balance] /\ db' \in [User -> Balance \cup {Nothing}]
      /\ MemoryIsStored'
      /\ Total(native') \in Nat /\ Total(native') <= Total(native) + tx.amount
      /\ Total(native') % Word = (Total(native) + tx.amount) % Word
  BY <1>1, CreditFacts
<1>3. UNCHANGED <<tokens, stake, reward, added, deposits, blocks, granted, overflow,
                  mints, restarts>>
  BY DEF CreditRegular, history
<1>4. TypeOK'
  BY <1>1, <1>2, <1>3 DEF TypeOK
<1>5. SeenStake'
  BY <1>1 DEF SeenStake
<1>6. NativeConserved'
  <2>1. InFlight = tx.amount /\ InFlight' = 0
    BY <1>1 DEF InFlight
  <2>2. Total(native') + InFlight' = Total(native')
    BY <1>2, <2>1
  <2>3. Total(native') <= Total(Native) + granted
    BY <1>1, <1>2, <2>1, Typed, GenesisTotals DEF NativeConserved, TypeOK
  <2> QED
    BY <1>2, <1>3, <2>1, <2>2, <2>3 DEF NativeConserved
<1>7. StakeCovered'
  <2>1. /\ Entering = 0 /\ Entering' = 0 /\ PaidOut = 0 /\ PaidOut' = 0
    BY <1>1 DEF Entering, PaidOut
  <2> QED
    BY <1>3, <2>1 DEF StakeCovered
<1>8. SupplyWithinMax' /\ AddedBounded'
  BY <1>3 DEF SupplyWithinMax, AddedBounded, Pending
<1> QED
  BY <1>2, <1>4, <1>5, <1>6, <1>7, <1>8

LEMMA CreditFromSystemInv ==
  ASSUME Inv, NEW to \in User, NEW amount \in Amounts, CreditFromSystem(to, amount)
  PROVE  Inv'
<1> USE DEF Inv
<1>1. /\ tx = Nothing /\ Credit(to, amount) /\ granted' = granted + amount
      /\ granted \in Nat /\ amount \in Nat
  BY BalanceFacts DEF CreditFromSystem, TypeOK
<1>2. /\ native' \in [User -> Balance] /\ db' \in [User -> Balance \cup {Nothing}]
      /\ MemoryIsStored'
      /\ Total(native') \in Nat /\ Total(native') <= Total(native) + amount
      /\ Total(native') % Word = (Total(native) + amount) % Word
  BY <1>1, CreditFacts
<1>3. UNCHANGED <<tokens, stake, tx, reward, added, deposits, blocks, overflow, mints,
                  restarts>>
  BY DEF CreditFromSystem
<1>4. TypeOK'
  BY <1>1, <1>2, <1>3 DEF TypeOK
<1>5. SeenStake'
  BY <1>1, <1>3 DEF SeenStake
<1>6. NativeConserved'
  <2> DEFINE old == Total(native)
             all == Total(Native) + granted
  <2>1. InFlight = 0 /\ InFlight' = 0 /\ old \in Nat /\ all \in Nat
    BY <1>1, <1>3, Typed, GenesisTotals DEF InFlight
  <2>2. /\ old <= all
        /\ restarts = 0 => old % Word = all % Word
    BY <2>1 DEF NativeConserved
  <2>3. Total(Native) + granted' = all + amount
    BY <1>1, GenesisTotals
  <2> HIDE DEF old, all
  <2>4. /\ Total(native') \in Nat /\ Total(native') <= old + amount
        /\ Total(native') % Word = (old + amount) % Word
    BY <1>2 DEF old
  <2>5. restarts = 0 => (old + amount) % Word = (all + amount) % Word
    <3>1. /\ ((old % Word) + amount) % Word = (old + amount) % Word
          /\ ((all % Word) + amount) % Word = (all + amount) % Word
      BY <1>1, <2>1, BalanceFacts, RemainderAdd
    <3> QED
      BY <2>2, <3>1
  <2>6. Total(native') + InFlight' = Total(native')
    BY <2>1, <2>4
  <2>7. Total(native') <= all + amount
    BY <1>1, <2>1, <2>2, <2>4
  <2> QED
    BY <1>3, <2>3, <2>4, <2>5, <2>6, <2>7 DEF NativeConserved
<1>7. StakeCovered'
  BY <1>3 DEF StakeCovered, Entering, PaidOut
<1>8. SupplyWithinMax' /\ AddedBounded'
  BY <1>3 DEF SupplyWithinMax, AddedBounded, Pending
<1> QED
  BY <1>2, <1>4, <1>5, <1>6, <1>7, <1>8

\* Nothing else touches the native balances.
LEMMA NativeFrame ==
  ASSUME Inv, UNCHANGED <<native, db, granted, restarts>>, InFlight' = InFlight
  PROVE  MemoryIsStored' /\ NativeConserved'
BY DEF Inv, MemoryIsStored, NativeConserved, Stored

\* Only the mining loop touches the rewards.
LEMMA AddedFrame ==
  ASSUME Inv, UNCHANGED <<added, reward, blocks>>
  PROVE  AddedBounded'
BY DEF Inv, AddedBounded, Pending

\* A transfer of tokens keeps the supply, as long as no mint has overflowed.
LEMMA TransferKeepsSupply ==
  ASSUME Inv, NEW from \in Account, NEW to \in Account, from # to,
         NEW amount \in Amounts, amount <= tokens[from],
         tokens' = Transferred(from, to, amount), overflow' = overflow
  PROVE  /\ tokens' \in [Account -> Balance]
         /\ SupplyWithinMax'
         /\ tokens'[from] = tokens[from] - amount
         /\ ~overflow => tokens'[to] = tokens[to] + amount
         /\ \A a \in Account \ {from, to} : tokens'[a] = tokens[a]
<1>1. tokens \in [Account -> Balance] /\ amount \in Balance
  BY BalanceFacts DEF Inv, TypeOK
<1>2. /\ tokens' \in [Account -> Balance]
      /\ Total(tokens') % Word = Total(tokens) % Word
      /\ tokens'[from] = tokens[from] - amount
      /\ \A a \in Account \ {from, to} : tokens'[a] = tokens[a]
      /\ Total(tokens) < Word =>
           Total(tokens') = Total(tokens) /\ tokens'[to] = tokens[to] + amount
  BY <1>1, TransferredFacts
<1>3. ~overflow => Total(tokens) < Word
  BY Room DEF Inv
<1> QED
  BY <1>2, <1>3 DEF Inv, SupplyWithinMax

LEMMA applyTokenTransferInv ==
  ASSUME Inv, NEW from \in User, NEW to \in Account,
         NEW amount \in Amounts, applyTokenTransfer(from, to, amount)
  PROVE  Inv'
<1> USE DEF Inv
<1>1. UNCHANGED <<native, db, stake, tx, reward, added, deposits, blocks, granted,
                  overflow, mints, restarts>>
  BY DEF applyTokenTransfer, history
<1>2. /\ tokens' \in [Account -> Balance] /\ SupplyWithinMax'
      /\ ~overflow => tokens'[to] = tokens[to] + amount
      /\ \A a \in Account \ {from, to} : tokens'[a] = tokens[a]
  <2>1. /\ from \in Account /\ from # to /\ amount <= tokens[from]
        /\ tokens' = Transferred(from, to, amount)
    BY BalanceFacts, ConstantFacts DEF applyTokenTransfer, TypeOK
  <2> QED
    BY <1>1, <2>1, TransferKeepsSupply
<1>3. TypeOK'
  BY <1>1, <1>2 DEF TypeOK
<1>4. SeenStake' /\ MemoryIsStored' /\ NativeConserved' /\ AddedBounded'
  BY <1>1, NativeFrame, AddedFrame DEF InFlight, SeenStake
<1>5. StakeCovered'
  <2>1. Entering' = Entering /\ PaidOut' = PaidOut
    BY <1>1 DEF Entering, PaidOut
  <2>2. ~overflow => tokens'["staking_contract"] >= tokens["staking_contract"]
    <3>1. "staking_contract" \in Account \ {from} /\ tokens["staking_contract"] \in Nat
      BY ConstantFacts, Typed
    <3> QED
      BY <1>2, <3>1, BalanceFacts
  <2>3. tokens'["staking_contract"] \in Nat /\ PaidOut \in Nat
    BY <1>2, ConstantFacts, BalanceFacts, Typed
  <2> QED
    BY <1>1, <2>1, <2>2, <2>3, Typed, GenesisTotals DEF StakeCovered
<1> QED
  BY <1>2, <1>3, <1>4, <1>5

LEMMA DepositTokensInv ==
  ASSUME Inv, NEW u \in User, NEW amount \in Amounts, DepositTokens(u, amount)
  PROVE  Inv'
<1> USE DEF Inv
<1>1. /\ UNCHANGED <<native, db, stake, reward, added, deposits, blocks, granted,
                     overflow, mints, restarts>>
      /\ tx = Nothing /\ amount \in Nat
  BY BalanceFacts DEF DepositTokens, history
<1>2. /\ tx' \in TxInProgress /\ tx' # Nothing
      /\ tx'.do = "addStake" /\ tx'.amount = amount
  BY BalanceFacts, InProgress DEF DepositTokens
<1>3. /\ tokens' \in [Account -> Balance] /\ SupplyWithinMax'
      /\ ~overflow => tokens'["staking_contract"] = tokens["staking_contract"] + amount
  <2>1. /\ u \in Account /\ "staking_contract" \in Account /\ u # "staking_contract"
        /\ tokens' = Transferred(u, "staking_contract", amount) /\ amount <= tokens[u]
    BY ConstantFacts, BalanceFacts DEF DepositTokens, TypeOK
  <2> QED
    BY <1>1, <2>1, TransferKeepsSupply
<1>4. TypeOK'
  BY <1>1, <1>2, <1>3 DEF TypeOK
<1>5. SeenStake' /\ MemoryIsStored' /\ NativeConserved' /\ AddedBounded'
  BY <1>1, <1>2, NativeFrame, AddedFrame DEF InFlight, SeenStake
<1>6. StakeCovered'
  <2>1. Entering = 0 /\ Entering' = amount /\ PaidOut = 0 /\ PaidOut' = 0
    BY <1>1, <1>2 DEF Entering, PaidOut
  <2> QED
    BY <1>1, <1>3, <2>1, Typed, GenesisTotals DEF StakeCovered
<1> QED
  BY <1>3, <1>4, <1>5, <1>6

LEMMA DepositStakeInv ==
  ASSUME Inv, DepositStake
  PROVE  Inv'
<1> USE DEF Inv
<1>1. /\ UNCHANGED <<native, db, tokens, reward, added, blocks, granted, overflow,
                     mints, restarts>>
      /\ tx # Nothing /\ tx.do = "addStake" /\ tx' = Nothing
      /\ stake' = [stake EXCEPT ![tx.user] = (@ + tx.amount) % Word]
      /\ deposits' = [deposits EXCEPT ![tx.user] = @ + tx.amount]
  BY DEF DepositStake
<1>2. tx.user \in User /\ tx.amount \in Nat /\ tx.amount \in Balance
  BY <1>1, Typed
<1>3. /\ stake[tx.user] \in Balance /\ stake[tx.user] \in Nat
      /\ (stake[tx.user] + tx.amount) % Word \in Balance
      /\ stake[tx.user] + tx.amount < Word =>
           (stake[tx.user] + tx.amount) % Word = stake[tx.user] + tx.amount
  <2>1. stake[tx.user] \in Balance
    BY <1>2 DEF TypeOK
  <2> QED
    BY <1>2, <2>1, Wrapped
<1>4. /\ stake' \in [User -> Balance]
      /\ stake'[tx.user] = (stake[tx.user] + tx.amount) % Word
      /\ \A v \in User \ {tx.user} : stake'[v] = stake[v]
  BY <1>1, <1>2, <1>3 DEF TypeOK
<1>5. ~overflow => Total(stake') = Total(stake) + tx.amount
  <2>1. IsFiniteSet(User) /\ stake \in [User -> Nat] /\ stake' \in [User -> Nat]
    BY <1>4, ConstantFacts, NatFunction DEF TypeOK
  <2>2. /\ Total(stake) \in Nat
        /\ Total(stake') = Total(stake) - stake[tx.user] + stake'[tx.user]
    BY <1>2, <1>4, <2>1, TotalChange
  <2>3. ~overflow => stake[tx.user] + tx.amount < Word
    <3>1. Entering = tx.amount /\ Pending \in Nat /\ Word \in Nat
      BY <1>1, Typed, BalanceFacts DEF Entering
    <3>2. ~overflow => stake[tx.user] + Entering + Pending < Word
      BY <1>2, Room
    <3> QED
      BY <1>2, <1>3, <3>1, <3>2
  <2> QED
    BY <1>2, <1>3, <1>4, <2>2, <2>3
<1>6. TypeOK'
  <2>1. deposits' \in [User -> Int]
    BY <1>1, <1>2 DEF TypeOK
  <2> QED
    BY <1>1, <1>4, <2>1 DEF TypeOK
<1>7. SeenStake' /\ MemoryIsStored' /\ NativeConserved' /\ AddedBounded'
  BY <1>1, NativeFrame, AddedFrame DEF InFlight, SeenStake
<1>8. StakeCovered'
  <2>1. Entering = tx.amount /\ Entering' = 0 /\ PaidOut = 0 /\ PaidOut' = 0
    BY <1>1 DEF Entering, PaidOut
  <2> QED
    BY <1>1, <1>2, <1>5, <2>1, Typed, GenesisTotals DEF StakeCovered
<1>9. SupplyWithinMax'
  BY <1>1 DEF SupplyWithinMax
<1> QED
  BY <1>6, <1>7, <1>8, <1>9

LEMMA WithdrawCheckInv ==
  ASSUME Inv, NEW u \in User, NEW amount \in Amounts, WithdrawCheck(u, amount)
  PROVE  Inv'
<1> USE DEF Inv
<1>1. /\ UNCHANGED <<native, db, tokens, stake, reward, added, deposits, blocks, granted,
                     overflow, mints, restarts>>
      /\ tx = Nothing /\ amount \in Nat /\ amount <= stake[u]
      /\ stake[u] \in Balance /\ stake[u] \in Nat
  BY BalanceFacts DEF WithdrawCheck, TypeOK, history
<1>2. /\ tx' \in TxInProgress /\ tx' # Nothing /\ tx'.do = "withdraw"
      /\ tx'.user = u /\ tx'.amount = amount /\ tx'.seen = stake[u]
  BY <1>1, InProgress DEF WithdrawCheck
<1>3. TypeOK'
  BY <1>1, <1>2 DEF TypeOK
<1>4. SeenStake'
  BY <1>1, <1>2 DEF SeenStake
<1>5. MemoryIsStored' /\ NativeConserved' /\ AddedBounded'
  BY <1>1, <1>2, NativeFrame, AddedFrame DEF InFlight
<1>6. StakeCovered'
  <2>1. Entering = 0 /\ Entering' = 0 /\ PaidOut = 0 /\ PaidOut' = 0
    BY <1>1, <1>2 DEF Entering, PaidOut
  <2> QED
    BY <1>1, <2>1 DEF StakeCovered
<1>7. SupplyWithinMax'
  BY <1>1 DEF SupplyWithinMax
<1> QED
  BY <1>3, <1>4, <1>5, <1>6, <1>7

LEMMA WithdrawTokensInv ==
  ASSUME Inv, WithdrawTokens
  PROVE  Inv'
<1> USE DEF Inv
<1>1. /\ UNCHANGED <<native, db, stake, reward, added, deposits, blocks, granted,
                     overflow, mints, restarts>>
      /\ tx # Nothing /\ tx.do = "withdraw"
  BY DEF WithdrawTokens, history
<1>2. /\ tx \in TxInProgress /\ tx.user \in User /\ tx.amount \in Nat
      /\ tx.amount \in Amounts /\ InFlight = 0 /\ Entering = 0 /\ PaidOut = 0
  BY <1>1, Typed DEF InFlight, Entering, PaidOut
<1>3. CASE tokens["staking_contract"] >= tx.amount
  <2>1. /\ tokens' = Transferred("staking_contract", tx.user, tx.amount)
        /\ tx' = [tx EXCEPT !.do = "setStake"]
    BY <1>3 DEF WithdrawTokens
  <2>2. /\ tx' \in TxInProgress /\ tx'.do = "setStake" /\ tx'.user = tx.user
        /\ tx'.amount = tx.amount /\ tx'.seen = tx.seen
    BY <1>2, <2>1 DEF TxInProgress
  <2>3. tx' # Nothing
    BY <2>2, NothingAssumption
  <2>4. /\ tokens' \in [Account -> Balance] /\ SupplyWithinMax'
        /\ tokens'["staking_contract"] = tokens["staking_contract"] - tx.amount
    <3>1. /\ tx.user \in Account /\ "staking_contract" \in Account
          /\ tx.user # "staking_contract"
      BY <1>2, ConstantFacts
    <3>2. tokens["staking_contract"] \in Nat
      BY Typed
    <3>3. tx.amount <= tokens["staking_contract"]
      BY <1>2, <1>3, <3>2
    <3> QED
      BY <1>1, <1>2, <2>1, <3>1, <3>3, TransferKeepsSupply
  <2>5. TypeOK'
    BY <1>1, <2>2, <2>4 DEF TypeOK
  <2>6. SeenStake'
    BY <1>1, <2>2 DEF SeenStake
  <2>7. MemoryIsStored' /\ NativeConserved' /\ AddedBounded'
    <3>1. InFlight' = 0
      BY <2>2 DEF InFlight
    <3> QED
      BY <1>1, <1>2, <3>1, NativeFrame, AddedFrame
  <2>8. StakeCovered'
    <3>1. Entering' = 0 /\ PaidOut' = tx.amount
      BY <2>2, <2>3 DEF Entering, PaidOut
    <3> QED
      BY <1>1, <1>2, <2>4, <3>1, Typed, GenesisTotals DEF StakeCovered
  <2> QED
    BY <2>4, <2>5, <2>6, <2>7, <2>8
<1>4. CASE ~ (tokens["staking_contract"] >= tx.amount)
  <2>1. tx' = Nothing /\ tokens' = tokens
    BY <1>4 DEF WithdrawTokens
  <2>2. InFlight' = 0 /\ Entering' = 0 /\ PaidOut' = 0
    BY <2>1 DEF InFlight, Entering, PaidOut
  <2>3. TypeOK'
    BY <1>1, <2>1 DEF TypeOK
  <2>4. SeenStake'
    BY <2>1 DEF SeenStake
  <2>5. MemoryIsStored' /\ NativeConserved' /\ AddedBounded'
    BY <1>1, <1>2, <2>2, NativeFrame, AddedFrame
  <2>6. StakeCovered'
    BY <1>1, <1>2, <2>1, <2>2 DEF StakeCovered
  <2>7. SupplyWithinMax'
    BY <1>1, <2>1 DEF SupplyWithinMax
  <2> QED
    BY <2>3, <2>4, <2>5, <2>6, <2>7
<1> QED
  BY <1>3, <1>4

\* The stake set is what was seen less the amount; since then it has only grown.
LEMMA WithdrawStakeInv ==
  ASSUME Inv, WithdrawStake
  PROVE  Inv'
<1> USE DEF Inv
<1>1. /\ UNCHANGED <<native, db, tokens, reward, added, blocks, granted, overflow,
                     mints, restarts>>
      /\ tx # Nothing /\ tx.do = "setStake" /\ tx' = Nothing
      /\ stake' = [stake EXCEPT ![tx.user] = tx.seen - tx.amount]
      /\ deposits' = [deposits EXCEPT ![tx.user] = @ - tx.amount]
  BY DEF WithdrawStake
<1>2. /\ tx.user \in User /\ tx.amount \in Nat /\ tx.seen \in Nat /\ tx.seen \in Balance
      /\ tx.amount <= tx.seen
      /\ ~overflow => tx.seen <= stake[tx.user]
  BY <1>1, Typed DEF SeenStake, TxInProgress
<1>3. tx.seen - tx.amount \in Balance /\ tx.seen - tx.amount \in Nat
  BY <1>2, BalanceFacts
<1>4. /\ stake' \in [User -> Balance] /\ stake'[tx.user] = tx.seen - tx.amount
      /\ \A v \in User \ {tx.user} : stake'[v] = stake[v]
      /\ stake[tx.user] \in Nat
  BY <1>1, <1>2, <1>3, BalanceFacts DEF TypeOK
<1>5. Total(stake') \in Nat /\ (~overflow => Total(stake') <= Total(stake) - tx.amount)
  <2>1. IsFiniteSet(User) /\ stake \in [User -> Nat] /\ stake' \in [User -> Nat]
    BY <1>4, ConstantFacts, NatFunction DEF TypeOK
  <2>2. /\ Total(stake) \in Nat /\ Total(stake') \in Nat
        /\ Total(stake') = Total(stake) - stake[tx.user] + stake'[tx.user]
    BY <1>2, <1>4, <2>1, TotalChange
  <2> QED
    BY <1>2, <1>4, <2>2
<1>6. TypeOK'
  <2>1. deposits' \in [User -> Int]
    BY <1>1, <1>2 DEF TypeOK
  <2> QED
    BY <1>1, <1>4, <2>1 DEF TypeOK
<1>7. SeenStake' /\ MemoryIsStored' /\ NativeConserved' /\ AddedBounded'
  BY <1>1, NativeFrame, AddedFrame DEF InFlight, SeenStake
<1>8. StakeCovered'
  <2>1. Entering = 0 /\ Entering' = 0 /\ PaidOut = tx.amount /\ PaidOut' = 0
    BY <1>1 DEF Entering, PaidOut
  <2> QED
    BY <1>1, <1>2, <1>5, <2>1, Typed, GenesisTotals DEF StakeCovered
<1>9. SupplyWithinMax'
  BY <1>1 DEF SupplyWithinMax
<1> QED
  BY <1>6, <1>7, <1>8, <1>9

LEMMA AddRewardStakeInv ==
  ASSUME Inv, AddRewardStake
  PROVE  Inv'
<1> USE DEF Inv
<1>1. /\ UNCHANGED <<native, db, tokens, tx, deposits, blocks, granted, overflow, mints,
                     restarts>>
      /\ reward # Nothing /\ reward' = Nothing
      /\ stake' = [stake EXCEPT ![reward.user] = (@ + Reward) % Word]
      /\ added' = [added EXCEPT ![reward.user] = @ + Reward]
  BY DEF AddRewardStake
<1>2. reward.user \in User /\ Reward \in Nat /\ Reward \in Balance
  BY <1>1, Typed, BalanceFacts
<1>3. /\ stake[reward.user] \in Balance /\ stake[reward.user] \in Nat
      /\ (stake[reward.user] + Reward) % Word \in Balance
      /\ stake[reward.user] + Reward < Word =>
           (stake[reward.user] + Reward) % Word = stake[reward.user] + Reward
  <2>1. stake[reward.user] \in Balance
    BY <1>2 DEF TypeOK
  <2> QED
    BY <1>2, <2>1, Wrapped
<1>4. ~overflow => stake[reward.user] + Reward < Word
  <2>1. Pending = Reward /\ Entering \in Nat /\ Word \in Nat
    BY <1>1, Typed, BalanceFacts DEF Pending
  <2>2. ~overflow => stake[reward.user] + Entering + Pending < Word
    BY <1>2, Room
  <2> QED
    BY <1>2, <1>3, <2>1, <2>2
<1>5. /\ stake' \in [User -> Balance]
      /\ ~overflow => stake'[reward.user] = stake[reward.user] + Reward
      /\ \A v \in User \ {reward.user} : stake'[v] = stake[v]
  BY <1>1, <1>2, <1>3, <1>4 DEF TypeOK
<1>6. /\ added' \in [User -> Nat] /\ added'[reward.user] = added[reward.user] + Reward
      /\ \A v \in User \ {reward.user} : added'[v] = added[v]
      /\ added[reward.user] \in Nat
  BY <1>1, <1>2 DEF TypeOK
<1>7. /\ ~overflow => Total(stake') = Total(stake) + Reward
      /\ Total(added') = Total(added) + Reward
  <2>1. /\ IsFiniteSet(User) /\ stake \in [User -> Nat] /\ stake' \in [User -> Nat]
        /\ added \in [User -> Nat]
    BY <1>5, ConstantFacts, NatFunction DEF TypeOK
  <2>2. /\ Total(stake) \in Nat
        /\ Total(stake') = Total(stake) - stake[reward.user] + stake'[reward.user]
    BY <1>2, <1>5, <2>1, TotalChange
  <2>3. /\ Total(added) \in Nat
        /\ Total(added') = Total(added) - added[reward.user] + added'[reward.user]
    BY <1>2, <1>6, <2>1, TotalChange
  <2> QED
    BY <1>2, <1>3, <1>5, <1>6, <2>2, <2>3
<1>8. TypeOK'
  BY <1>1, <1>5, <1>6 DEF TypeOK
<1>9. SeenStake'
  <2>1. tx # Nothing => tx.user \in User /\ tx.seen \in Nat
    BY Typed
  <2>2. \A v \in User : stake[v] \in Nat /\ stake'[v] \in Nat
    BY <1>5, BalanceFacts DEF TypeOK
  <2>3. ASSUME ~overflow, NEW v \in User PROVE stake[v] <= stake'[v]
    BY <1>2, <1>3, <1>5, <2>2, <2>3
  <2>4. tx # Nothing /\ tx.do \in {"withdraw", "setStake"} =>
          tx.amount <= tx.seen /\ (~overflow => tx.seen <= stake'[tx.user])
    BY <2>1, <2>2, <2>3 DEF SeenStake
  <2> QED
    BY <1>1, <2>4 DEF SeenStake
<1>10. MemoryIsStored' /\ NativeConserved'
  BY <1>1, NativeFrame DEF InFlight
<1>11. StakeCovered'
  <2>1. Entering' = Entering /\ PaidOut' = PaidOut /\ PaidOut \in Nat
    BY <1>1, Typed, BalanceFacts DEF Entering, PaidOut
  <2> QED
    BY <1>1, <1>2, <1>7, <2>1, Typed, GenesisTotals DEF StakeCovered
<1>12. AddedBounded'
  <2>1. Pending = Reward /\ Pending' = 0
    BY <1>1 DEF Pending
  <2>2. Total(added') + Pending' = Total(added) + Pending
    BY <1>2, <1>7, <2>1, Typed
  <2> QED
    BY <1>1, <2>2 DEF AddedBounded
<1>13. SupplyWithinMax'
  BY <1>1 DEF SupplyWithinMax
<1> QED
  BY <1>8, <1>9, <1>10, <1>11, <1>12, <1>13

\* Minting, by the mining loop or the admin: the sum that is compared with the maximum
\* is the remainder of the true one.
LEMMA MintFacts ==
  ASSUME TypeOK, NEW a \in Account, NEW amount \in Nat, CanMint(a, amount),
         tokens' = [tokens EXCEPT ![a] = @ + amount]
  PROVE  /\ tokens' \in [Account -> Balance]
         /\ tokens'["staking_contract"] >= tokens["staking_contract"]
         /\ Total(tokens') % Word <= MaxSupply
         /\ Total(tokens) + amount < Word => Total(tokens') <= MaxSupply
<1>1. /\ IsFiniteSet(Account) /\ tokens \in [Account -> Nat] /\ tokens \in [Account -> Balance]
      /\ "staking_contract" \in Account /\ MaxSupply \in Nat /\ Word \in Nat \ {0}
  BY ConstantFacts, BalanceFacts, NatFunction DEF TypeOK
<1>2. /\ tokens[a] \in Nat /\ tokens[a] + amount <= Word - 1
      /\ (Total(tokens) + amount) % Word <= MaxSupply
  BY <1>1 DEF CanMint
<1>3. tokens[a] + amount \in Balance
  BY <1>1, <1>2, BalanceFacts
<1>4. /\ tokens' \in [Account -> Balance] /\ tokens'[a] = tokens[a] + amount
      /\ \A b \in Account \ {a} : tokens'[b] = tokens[b]
  BY <1>1, <1>3
<1>5. /\ Total(tokens) \in Nat /\ Total(tokens') = Total(tokens) + amount
  <2>1. tokens' \in [Account -> Nat]
    BY <1>4, NatFunction
  <2>2. /\ Total(tokens) \in Nat
        /\ Total(tokens') = Total(tokens) - tokens[a] + tokens'[a]
    BY ONLY <1>1, <1>4, <2>1, TotalChange
  <2> QED
    BY <1>2, <1>4, <2>2
<1>6. ASSUME Total(tokens) + amount < Word PROVE Total(tokens') <= MaxSupply
  <2>1. Total(tokens) + amount \in 0 .. Word - 1
    BY <1>1, <1>5, <1>6
  <2>2. (Total(tokens) + amount) % Word = Total(tokens) + amount
    BY <1>1, <2>1, RemainderSmall
  <2> QED
    BY <1>2, <1>5, <2>2
<1>7. tokens'["staking_contract"] >= tokens["staking_contract"]
  <2>1. tokens["staking_contract"] \in Nat
    BY <1>1
  <2> QED
    BY <1>1, <1>2, <1>4, <2>1
<1> QED
  BY <1>2, <1>4, <1>5, <1>6, <1>7

LEMMA MintRewardInv ==
  ASSUME Inv, MintReward
  PROVE  Inv'
<1> USE DEF Inv
<1>1. /\ UNCHANGED <<native, db, stake, tx, added, deposits, blocks, granted, overflow,
                     mints, restarts>>
      /\ reward # Nothing /\ reward' = [reward EXCEPT !.do = "addStake"]
  BY DEF MintReward, history
<1>2. /\ reward \in RewardInProgress /\ reward.user \in User /\ reward.user \in Account
      /\ Reward \in Nat
  BY <1>1, Typed, ConstantFacts
<1>3. reward' \in RewardInProgress /\ reward' # Nothing
  BY <1>1, <1>2, NothingAssumption DEF RewardInProgress
<1>4. /\ tokens' \in [Account -> Balance]
      /\ tokens'["staking_contract"] >= tokens["staking_contract"]
      /\ SupplyWithinMax'
  <2>1. CASE CanMint(reward.user, Reward)
    <3>1. tokens' = [tokens EXCEPT ![reward.user] = @ + Reward]
      BY <2>1 DEF MintReward
    <3>2. ~overflow => Total(tokens) + Reward < Word
      BY Room, BalanceFacts
    <3> QED
      BY <1>1, <1>2, <2>1, <3>1, <3>2, MintFacts DEF SupplyWithinMax
  <2>2. CASE ~ CanMint(reward.user, Reward)
    <3>1. tokens' = tokens /\ tokens["staking_contract"] \in Nat
      BY <2>2, Typed DEF MintReward
    <3> QED
      BY <1>1, <3>1 DEF TypeOK, SupplyWithinMax
  <2> QED
    BY <2>1, <2>2
<1>5. TypeOK'
  BY <1>1, <1>3, <1>4 DEF TypeOK
<1>6. SeenStake' /\ MemoryIsStored' /\ NativeConserved'
  BY <1>1, NativeFrame DEF InFlight, SeenStake
<1>7. AddedBounded'
  BY <1>1, <1>3 DEF AddedBounded, Pending
<1>8. StakeCovered'
  <2>1. Entering' = Entering /\ PaidOut' = PaidOut /\ PaidOut \in Nat
    BY <1>1, Typed, BalanceFacts DEF Entering, PaidOut
  <2>2. tokens'["staking_contract"] \in Nat
    BY <1>4, ConstantFacts, BalanceFacts
  <2> QED
    BY <1>1, <1>4, <2>1, <2>2, Typed, GenesisTotals DEF StakeCovered
<1> QED
  BY <1>4, <1>5, <1>6, <1>7, <1>8

LEMMA AddTokenBalanceInv ==
  ASSUME Inv, NEW a \in Account, NEW amount \in Balance \ {0}, AddTokenBalance(a, amount)
  PROVE  Inv'
<1> USE DEF Inv
<1>1. /\ UNCHANGED <<native, db, stake, tx, reward, added, deposits, blocks, granted,
                     restarts>>
      /\ mints < MaxMints /\ mints' = mints + 1 /\ amount \in Nat
      /\ overflow' = (overflow \/ Total(tokens) + amount >= Word)
  BY BalanceFacts DEF AddTokenBalance
<1>2. /\ tokens' \in [Account -> Balance]
      /\ tokens'["staking_contract"] >= tokens["staking_contract"]
      /\ Total(tokens') % Word <= MaxSupply
      /\ Total(tokens) + amount < Word => Total(tokens') <= MaxSupply
  BY <1>1, MintFacts DEF AddTokenBalance
<1>3. TypeOK'
  <2>1. mints' \in 0 .. MaxMints
    BY <1>1, LedgerAssumption DEF TypeOK
  <2>2. overflow' \in BOOLEAN
    BY <1>1
  <2> QED
    BY <1>1, <1>2, <2>1, <2>2 DEF TypeOK
<1>4. ~overflow' => ~overflow /\ Total(tokens) + amount < Word
  <2>1. Total(tokens) \in Nat /\ Word \in Nat /\ amount \in Nat
    BY <1>1, Typed, BalanceFacts
  <2>2. ~(Total(tokens) + amount >= Word) => Total(tokens) + amount < Word
    BY <2>1
  <2>3. ~overflow' => ~overflow /\ ~(Total(tokens) + amount >= Word)
    BY <1>1, Zenon
  <2> QED
    BY <2>2, <2>3
<1>5. SeenStake'
  BY <1>1, <1>4 DEF SeenStake
<1>6. MemoryIsStored' /\ NativeConserved' /\ AddedBounded'
  BY <1>1, NativeFrame, AddedFrame DEF InFlight
<1>7. StakeCovered'
  <2>1. Entering' = Entering /\ PaidOut' = PaidOut /\ PaidOut \in Nat
    BY <1>1, Typed, BalanceFacts DEF Entering, PaidOut
  <2>2. tokens'["staking_contract"] \in Nat
    BY <1>2, ConstantFacts, BalanceFacts
  <2> QED
    BY <1>1, <1>2, <1>4, <2>1, <2>2, Typed, GenesisTotals DEF StakeCovered
<1>8. SupplyWithinMax'
  BY <1>2, <1>4 DEF SupplyWithinMax
<1> QED
  BY <1>3, <1>5, <1>6, <1>7, <1>8

LEMMA AddMinedInv ==
  ASSUME Inv, NEW v \in User, AddMined(v)
  PROVE  Inv'
<1> USE DEF Inv
<1>1. /\ UNCHANGED <<native, db, stake, tx, added, deposits, granted, overflow, mints,
                     restarts>>
      /\ blocks < MaxBlocks /\ blocks' = blocks + 1 /\ tx = Nothing
      /\ reward = Nothing /\ reward' = [do |-> "mint", user |-> v]
  BY DEF AddMined
<1>2. reward' \in RewardInProgress /\ reward' # Nothing /\ Reward \in Nat
  BY <1>1, InProgress, ConstantFacts
<1>3. /\ tokens' \in [Account -> Balance] /\ SupplyWithinMax'
      /\ tokens'["staking_contract"] = tokens["staking_contract"]
  <2>1. CASE v # "system" /\ tokens["system"] >= Reward
    <3>1. tokens' = Transferred("system", v, Reward)
      BY <2>1 DEF AddMined
    <3>2. /\ Reward <= tokens["system"]
          /\ "system" \in Account /\ v \in Account /\ "system" # v
          /\ "staking_contract" \in Account \ {"system", v}
      BY <1>2, <2>1, ConstantFacts, BalanceFacts DEF TypeOK
    <3> QED
      BY <1>1, <3>1, <3>2, BalanceFacts, TransferKeepsSupply
  <2>2. CASE ~ (v # "system" /\ tokens["system"] >= Reward)
    <3>1. tokens' = tokens
      BY <2>2 DEF AddMined
    <3> QED
      BY <1>1, <3>1 DEF TypeOK, SupplyWithinMax
  <2> QED
    BY <2>1, <2>2
<1>4. TypeOK'
  <2>1. blocks' \in 0 .. MaxBlocks
    BY <1>1, LedgerAssumption DEF TypeOK
  <2> QED
    BY <1>1, <1>2, <1>3, <2>1 DEF TypeOK
<1>5. SeenStake' /\ MemoryIsStored' /\ NativeConserved'
  BY <1>1, NativeFrame DEF InFlight, SeenStake
<1>6. AddedBounded'
  <2>1. Pending = 0 /\ Pending' = Reward /\ blocks \in Nat
    BY <1>1, <1>2 DEF Pending, TypeOK
  <2>2. (blocks + 1) * Reward = blocks * Reward + Reward /\ blocks * Reward \in Nat
    BY <1>2, <2>1, SMTT(30)
  <2> DEFINE x == blocks * Reward
             y == blocks' * Reward
  <2>3. y = x + Reward /\ x \in Nat
    BY <1>1, <2>2
  <2>4. Total(added) + Pending <= x
    BY DEF AddedBounded
  <2> HIDE DEF x, y
  <2>5. Total(added) + Reward <= y
    BY <1>2, <2>1, <2>3, <2>4, Typed
  <2> QED
    BY <1>1, <2>1, <2>5 DEF AddedBounded, y
<1>7. StakeCovered'
  BY <1>1, <1>3 DEF StakeCovered, Entering, PaidOut
<1> QED
  BY <1>3, <1>4, <1>5, <1>6, <1>7

\* A restart finds the native balances as they were and loses what was in flight.
LEMMA RestartInv ==
  ASSUME Inv, Restart
  PROVE  Inv'
<1> USE DEF Inv
<1>1. /\ restarts < MaxRestarts /\ restarts' = restarts + 1
      /\ tokens' = InitTokens /\ stake' = GenesisStake
      /\ tx' = Nothing /\ reward' = Nothing
      /\ added' = Zero /\ deposits' = Zero /\ blocks' = 0 /\ overflow' = FALSE
      /\ UNCHANGED <<db, granted, mints>>
  BY DEF Restart
<1>2. native' = native
  BY DEF Restart, MemoryIsStored, TypeOK
<1>3. restarts' \in 0 .. MaxRestarts /\ restarts' # 0
  BY <1>1, LedgerAssumption DEF TypeOK
<1>4. TypeOK'
  <2>1. Zero \in [User -> Nat] /\ Zero \in [User -> Int]
    BY DEF Zero
  <2>2. blocks' \in 0 .. MaxBlocks
    BY <1>1, LedgerAssumption
  <2>3. InitTokens \in [Account -> Balance] /\ GenesisStake \in [User -> Balance]
    BY ConstantFacts, LedgerAssumption
  <2> QED
    BY <1>1, <1>2, <1>3, <2>1, <2>2, <2>3 DEF TypeOK
<1>5. SeenStake'
  BY <1>1 DEF SeenStake
<1>6. MemoryIsStored'
  BY <1>1, <1>2 DEF MemoryIsStored, Stored
<1>7. NativeConserved'
  <2>1. InFlight' = 0
    BY <1>1 DEF InFlight
  <2>2. Total(native) <= Total(Native) + granted
    BY Typed, GenesisTotals DEF NativeConserved, TypeOK
  <2>3. Total(native) \in Nat
    BY Typed
  <2> QED
    BY <1>1, <1>2, <1>3, <2>1, <2>2, <2>3 DEF NativeConserved
<1>8. StakeCovered'
  <2>1. /\ PaidOut' = 0 /\ Entering' = 0 /\ Total(added') = 0
        /\ tokens'["staking_contract"] = 0
    BY <1>1, ConstantFacts DEF PaidOut, Entering
  <2> QED
    BY <1>1, <2>1, GenesisTotals DEF StakeCovered
<1>9. SupplyWithinMax'
  BY <1>1, InitialSupply DEF SupplyWithinMax
<1>10. AddedBounded'
  <2>1. Total(added') = 0 /\ Pending' = 0 /\ blocks' = 0 /\ Reward \in Nat
    BY <1>1, ConstantFacts DEF Pending
  <2> QED
    BY <2>1 DEF AddedBounded
<1> QED
  BY <1>4, <1>5, <1>6, <1>7, <1>8, <1>9, <1>10
-----------------------------------------------------------------------------
LEMMA NextInv == Inv /\ [Next]_vars => Inv'
<1> SUFFICES ASSUME Inv, [Next]_vars PROVE Inv'
  OBVIOUS
<1>1. CASE UNCHANGED vars
  <2>1. /\ UNCHANGED <<native, db, tokens, stake, tx, reward>>
        /\ UNCHANGED <<added, deposits, blocks, granted, overflow, mints, restarts>>
    BY <1>1 DEF vars, history
  <2> QED
    BY <2>1 DEF Inv, TypeOK, SeenStake, MemoryIsStored, Stored, NativeConserved,
       InFlight, StakeCovered, Entering, PaidOut, SupplyWithinMax, AddedBounded, Pending
<1>2. CASE Next
  <2>1. ASSUME NEW from \in User, NEW to \in User, NEW amount \in Amounts,
               DebitRegular(from, to, amount)
        PROVE  Inv'
    BY <2>1, DebitRegularInv
  <2>2. CASE CreditRegular
    BY <2>2, CreditRegularInv
  <2>3. ASSUME NEW to \in User, NEW amount \in Amounts, CreditFromSystem(to, amount)
        PROVE  Inv'
    BY <2>3, CreditFromSystemInv
  <2>4. ASSUME NEW from \in User, NEW to \in Account, NEW amount \in Amounts,
               applyTokenTransfer(from, to, amount)
        PROVE  Inv'
    BY <2>4, applyTokenTransferInv
  <2>5. ASSUME NEW u \in User, NEW amount \in Amounts,
               DepositTokens(u, amount) \/ WithdrawCheck(u, amount)
        PROVE  Inv'
    BY <2>5, DepositTokensInv, WithdrawCheckInv
  <2>6. CASE DepositStake
    BY <2>6, DepositStakeInv
  <2>7. CASE WithdrawTokens
    BY <2>7, WithdrawTokensInv
  <2>8. CASE WithdrawStake
    BY <2>8, WithdrawStakeInv
  <2>9. ASSUME NEW v \in User, AddMined(v)
        PROVE  Inv'
    BY <2>9, AddMinedInv
  <2>10. CASE MintReward
    BY <2>10, MintRewardInv
  <2>11. CASE AddRewardStake
    BY <2>11, AddRewardStakeInv
  <2>12. ASSUME NEW to \in Account, NEW amount \in Balance \ {0},
                AddTokenBalance(to, amount)
         PROVE  Inv'
    BY <2>12, AddTokenBalanceInv
  <2>13. CASE Restart
    BY <2>13, RestartInv
  <2> QED
    BY <1>2, <2>1, <2>2, <2>3, <2>4, <2>5, <2>6, <2>7, <2>8, <2>9, <2>10, <2>11,
       <2>12, <2>13 DEF Next
<1> QED
  BY <1>1, <1>2

\* What explains a stake also explains the stake a withdrawal has seen, which may be
\* more than there still is once a stake has wrapped.
SeenExplained ==
  tx # Nothing /\ tx.do \in {"withdraw", "setStake"} =>
    tx.seen <= GenesisStake[tx.user] + deposits[tx.user] + added[tx.user]

\* One step of the argument for StakeExplained: only three actions and a restart
\* touch stakes or what explains them, and three set what a withdrawal has seen.
LEMMA StakeExplainedStep ==
  Inv /\ StakeExplained /\ SeenExplained /\ [Next]_vars => (StakeExplained /\ SeenExplained)'
<1> SUFFICES ASSUME Inv, StakeExplained, SeenExplained, [Next]_vars
             PROVE  StakeExplained' /\ SeenExplained'
  OBVIOUS
<1>1. /\ TypeOK /\ SeenStake /\ Reward \in Nat /\ Reward \in Balance
      /\ \A u \in User : /\ GenesisStake[u] \in Nat /\ stake[u] \in Nat
                         /\ stake[u] \in Balance
                         /\ deposits[u] \in Int /\ added[u] \in Nat
                         /\ stake[u] <= GenesisStake[u] + deposits[u] + added[u]
      /\ tx # Nothing => tx.user \in User
  BY LedgerAssumption, BalanceFacts, Typed DEF Inv, StakeExplained, TypeOK
<1>2. CASE UNCHANGED <<stake, deposits, added>> /\ tx' \in {tx, Nothing}
  BY <1>1, <1>2 DEF StakeExplained, SeenExplained
<1>3. CASE /\ UNCHANGED <<stake, deposits, added>>
           /\ tx' # Nothing => tx'.do \in {"credit", "addStake"}
  BY <1>1, <1>3 DEF StakeExplained, SeenExplained
<1>4. ASSUME NEW u \in User, NEW amount \in Amounts, WithdrawCheck(u, amount)
      PROVE  StakeExplained' /\ SeenExplained'
  <2>1. /\ UNCHANGED <<stake, deposits, added>>
        /\ tx' = [do |-> "withdraw", user |-> u, amount |-> amount, seen |-> stake[u]]
    BY <1>4 DEF WithdrawCheck, history
  <2> QED
    BY <1>1, <2>1 DEF StakeExplained, SeenExplained
<1>5. CASE WithdrawTokens
  <2>1. /\ UNCHANGED <<stake, deposits, added>> /\ tx # Nothing /\ tx.do = "withdraw"
        /\ tx' \in {[tx EXCEPT !.do = "setStake"], Nothing}
    BY <1>5 DEF WithdrawTokens, history
  <2>2. tx' # Nothing => tx'.user = tx.user /\ tx'.seen = tx.seen
    BY <1>1, <2>1 DEF TypeOK, TxInProgress
  <2>3. tx.seen <= GenesisStake[tx.user] + deposits[tx.user] + added[tx.user]
    BY <2>1 DEF SeenExplained
  <2> QED
    BY <1>1, <2>1, <2>2, <2>3 DEF StakeExplained, SeenExplained
<1>6. CASE DepositStake
  <2>1. /\ UNCHANGED added /\ tx.user \in User /\ tx.amount \in Nat /\ tx' = Nothing
        /\ tx.amount \in Balance
        /\ stake' = [stake EXCEPT ![tx.user] = (@ + tx.amount) % Word]
        /\ deposits' = [deposits EXCEPT ![tx.user] = @ + tx.amount]
    BY <1>1, <1>6, Typed DEF DepositStake
  <2>2. (stake[tx.user] + tx.amount) % Word <= stake[tx.user] + tx.amount
    BY <1>1, <2>1, Wrapped
  <2> DEFINE sum == (stake[tx.user] + tx.amount) % Word
  <2>3. sum \in Nat
    BY <1>1, <2>1, Wrapped, BalanceFacts
  <2>4. /\ stake'[tx.user] = sum /\ deposits'[tx.user] = deposits[tx.user] + tx.amount
        /\ \A u \in User \ {tx.user} : stake'[u] = stake[u] /\ deposits'[u] = deposits[u]
    BY <2>1 DEF TypeOK, Inv
  <2>5. sum <= stake[tx.user] + tx.amount
    BY <2>2
  <2> HIDE DEF sum
  <2>6. ASSUME NEW u \in User
        PROVE  stake'[u] <= GenesisStake[u] + deposits'[u] + added[u]
    <3>1. CASE u = tx.user
      BY <1>1, <2>1, <2>3, <2>4, <2>5, <3>1
    <3> QED
      BY <1>1, <2>4, <3>1
  <2> QED
    BY <2>1, <2>6 DEF StakeExplained, SeenExplained
<1>7. CASE WithdrawStake
  <2>1. /\ UNCHANGED added /\ tx # Nothing /\ tx.do = "setStake" /\ tx' = Nothing
        /\ tx.user \in User /\ tx.amount \in Nat /\ tx.seen \in Nat
        /\ stake' = [stake EXCEPT ![tx.user] = tx.seen - tx.amount]
        /\ deposits' = [deposits EXCEPT ![tx.user] = @ - tx.amount]
    BY <1>1, <1>7, Typed DEF WithdrawStake
  <2>2. tx.seen <= GenesisStake[tx.user] + deposits[tx.user] + added[tx.user]
    BY <2>1 DEF SeenExplained
  <2>3. /\ stake'[tx.user] = tx.seen - tx.amount
        /\ deposits'[tx.user] = deposits[tx.user] - tx.amount
        /\ \A u \in User \ {tx.user} : stake'[u] = stake[u] /\ deposits'[u] = deposits[u]
    BY <1>1, <2>1 DEF TypeOK
  <2>4. ASSUME NEW u \in User
        PROVE  stake'[u] <= GenesisStake[u] + deposits'[u] + added[u]
    BY <1>1, <2>1, <2>2, <2>3
  <2> QED
    BY <2>1, <2>4 DEF StakeExplained, SeenExplained
<1>8. CASE AddRewardStake
  <2>1. /\ UNCHANGED <<deposits, tx>> /\ reward.user \in User
        /\ stake' = [stake EXCEPT ![reward.user] = (@ + Reward) % Word]
        /\ added' = [added EXCEPT ![reward.user] = @ + Reward]
    BY <1>1, <1>8, Typed DEF AddRewardStake
  <2> DEFINE sum == (stake[reward.user] + Reward) % Word
  <2>2. sum \in Balance /\ sum <= stake[reward.user] + Reward
    BY <1>1, <2>1, Wrapped
  <2>3. /\ stake'[reward.user] = sum /\ added'[reward.user] = added[reward.user] + Reward
        /\ \A u \in User \ {reward.user} : stake'[u] = stake[u] /\ added'[u] = added[u]
    BY <1>1, <2>1 DEF TypeOK
  <2> HIDE DEF sum
  <2>4. sum \in Nat
    BY <2>2, BalanceFacts
  <2>5. \A u \in User : added[u] <= added'[u] /\ added'[u] \in Nat
    BY <1>1, <2>1, <2>3
  <2>6. ASSUME NEW u \in User
        PROVE  stake'[u] <= GenesisStake[u] + deposits[u] + added'[u]
    BY <1>1, <2>1, <2>2, <2>3, <2>4
  <2>7. ASSUME tx # Nothing, tx.do \in {"withdraw", "setStake"}
        PROVE  tx.seen <= GenesisStake[tx.user] + deposits[tx.user] + added'[tx.user]
    <3>1. /\ tx.seen <= GenesisStake[tx.user] + deposits[tx.user] + added[tx.user]
          /\ tx.seen \in Nat /\ tx.user \in User
      BY <1>1, <2>7, Typed DEF SeenExplained
    <3> QED
      BY <1>1, <2>5, <3>1
  <2> QED
    BY <2>1, <2>6, <2>7 DEF StakeExplained, SeenExplained
<1>9. CASE Restart
  <2>1. stake' = GenesisStake /\ deposits' = Zero /\ added' = Zero /\ tx' = Nothing
    BY <1>9 DEF Restart
  <2> QED
    BY <1>1, <2>1 DEF StakeExplained, SeenExplained, Zero
<1>10. CASE \E from, to \in User, amount \in Amounts : DebitRegular(from, to, amount)
  <2>1. UNCHANGED <<stake, deposits, added>> /\ tx'.do = "credit"
    BY <1>10 DEF DebitRegular, history
  <2> QED
    BY <1>3, <2>1
<1>11. CASE \E u \in User, amount \in Amounts : DepositTokens(u, amount)
  <2>1. UNCHANGED <<stake, deposits, added>> /\ tx'.do = "addStake"
    BY <1>11 DEF DepositTokens, history
  <2> QED
    BY <1>3, <2>1
<1> QED
  BY <1>2, <1>4, <1>5, <1>6, <1>7, <1>8, <1>9, <1>10, <1>11
     DEF Next, vars, history, CreditRegular, CreditFromSystem, applyTokenTransfer,
         AddTokenBalance, AddMined, MintReward

LEMMA AlwaysInv == Spec => []Inv
BY InitInv, NextInv, PTL DEF Spec

\* Every balance and every stake is a word and none ever falls below zero, whatever
\* the amounts (uint64 would wrap to a huge one).
THEOREM LedgerTyped == Spec => []TypeOK
<1>1. Inv => TypeOK
  BY DEF Inv
<1> QED
  BY <1>1, AlwaysInv, PTL

\* All native money is of the genesis state or a gift of "system", wherever the node
\* stops between the two writes of applyRegularTransfer, and until it stops none is
\* lost but whole words, where a receiver's balance wraps.
THEOREM NativeIsConserved == Spec => []NativeConserved
<1>1. Inv => NativeConserved
  BY DEF Inv
<1> QED
  BY <1>1, AlwaysInv, PTL

\* applyStakeDeposit, applyStakeWithdraw and the mining loop, interleaved, never
\* make stake that is not a deposit held, a genesis stake or a reward, as long as no
\* mint has overflowed.
THEOREM StakeIsBacked == Spec => []StakeBacked
<1>1. Inv => StakeBacked
  <2> SUFFICES ASSUME Inv PROVE StakeBacked
    OBVIOUS
  <2>1. Entering \in Nat /\ PaidOut \in Nat
    BY Typed, BalanceFacts DEF Inv
  <2> QED
    BY <2>1, Typed, GenesisTotals DEF Inv, StakeCovered, StakeBacked
<1> QED
  BY <1>1, AlwaysInv, PTL

\* The stake a withdrawal writes late never gives anybody more than genesis stake,
\* deposits and rewards account for (applyStakeWithdraw against the mining loop).
THEOREM StakeIsExplained == Spec => []StakeExplained
<1>1. Init => StakeExplained /\ SeenExplained
  <2>1. \A u \in User : GenesisStake[u] \in Nat
    BY LedgerAssumption, BalanceFacts
  <2> QED
    BY <2>1 DEF Init, StakeExplained, SeenExplained, Zero
<1> QED
  BY <1>1, AlwaysInv, StakeExplainedStep, PTL DEF Spec

\* The supply Mint computes never passes the maximum, whatever wraps, and the true
\* supply passes it only after AddTokenBalance has made the sum itself overflow: the
\* rewards the mining loop mints and all transfers never do.
THEOREM MaxSupplyKept == Spec => []SupplyWithinMax
<1>1. Inv => SupplyWithinMax
  BY DEF Inv
<1> QED
  BY <1>1, AlwaysInv, PTL
-----------------------------------------------------------------------------
(***************************************************************************)
(* Why the locks of a node have no other deadlock, for any number of       *)
(* goroutines. The locks have an order (Rank), and every call asks only    *)
(* for locks above those its goroutine is inside of, or for one of these   *)
(* (Allowed). Ordered says so of what a goroutine has still to do, from    *)
(* what it holds: it is proved once for every helper and composed for the  *)
(* calls (CallableIn), and LockInv keeps it from step to step. In a circle *)
(* of waiting goroutines the locks they wait for cannot all rise.          *)
(***************************************************************************)

\* The order in which the calls take the locks.
Rank(l) == IF l \in {"bc", "bad"} THEN 1 ELSE IF l \in {"slashing", "peers"} THEN 2 ELSE 3

\* What a goroutine is inside of: how often as a reader, and as the writer.
Hold == [rd : [Lock -> Nat], wr : SUBSET Lock]
NoLock == [rd |-> [l \in Lock |-> 0], wr |-> {}]

Held(a) == {l \in Lock : a.rd[l] > 0} \cup a.wr

\* It asks for a lock it holds, or for one above all those it holds, and gives back
\* what it has.
Allowed(op, a) ==
  /\ op.do \in {"RLock", "Lock"} => \A m \in Held(a) \ {op.lock} : Rank(m) < Rank(op.lock)
  /\ op.do = "RUnlock" => a.rd[op.lock] > 0
  /\ op.do = "Unlock" => op.lock \in a.wr

After(op, a) ==
  [rd |-> IF op.do = "RLock" THEN [a.rd EXCEPT ![op.lock] = @ + 1]
          ELSE IF op.do = "RUnlock" THEN [a.rd EXCEPT ![op.lock] = @ - 1] ELSE a.rd,
   wr |-> IF op.do = "Lock" THEN a.wr \cup {op.lock}
          ELSE IF op.do = "Unlock" THEN a.wr \ {op.lock} ELSE a.wr]

\* s leads from holding a to holding z, by what is allowed.
Holds(s, h, a, z) ==
  /\ h \in [1 .. Len(s) + 1 -> Hold]
  /\ h[1] = a /\ h[Len(s) + 1] = z
  /\ \A i \in 1 .. Len(s) : Allowed(s[i], h[i]) /\ h[i + 1] = After(s[i], h[i])

Ordered(s, a, z) == s \in Seq(Op) /\ \E h : Holds(s, h, a, z)

\* s may be called by one who holds locks of P, and holds them again at its end.
CallableIn(s, P) == s \in Seq(Op) /\ \A a \in Hold : Held(a) \subseteq P => Ordered(s, a, a)
-----------------------------------------------------------------------------
LEMMA OrderedEmpty == \A a \in Hold : Ordered(<<>>, a, a)
<1> SUFFICES ASSUME NEW a \in Hold PROVE Ordered(<<>>, a, a)
  OBVIOUS
<1> DEFINE h == [i \in 1 .. 1 |-> a]
<1>1. Holds(<<>>, h, a, a)
  BY DEF Holds
<1> QED
  BY <1>1 DEF Ordered

LEMMA OrderedOne ==
  ASSUME NEW op \in Op, NEW a \in Hold, Allowed(op, a), After(op, a) \in Hold
  PROVE  Ordered(<<op>>, a, After(op, a))
<1> DEFINE h == [i \in 1 .. 2 |-> IF i = 1 THEN a ELSE After(op, a)]
<1>1. <<op>> \in Seq(Op) /\ Len(<<op>>) = 1 /\ <<op>>[1] = op
  OBVIOUS
<1>2. h \in [1 .. 2 -> Hold] /\ h[1] = a /\ h[2] = After(op, a)
  OBVIOUS
<1> HIDE DEF h
<1>3. Holds(<<op>>, h, a, After(op, a))
  BY <1>1, <1>2 DEF Holds
<1> QED
  BY <1>1, <1>3 DEF Ordered

LEMMA OrderedConcat ==
  ASSUME NEW s, NEW t, NEW a, NEW b, NEW c, Ordered(s, a, b), Ordered(t, b, c)
  PROVE  Ordered(s \o t, a, c)
<1>1. PICK h1 : Holds(s, h1, a, b)
  BY DEF Ordered
<1>2. PICK h2 : Holds(t, h2, b, c)
  BY DEF Ordered
<1>3. s \in Seq(Op) /\ t \in Seq(Op)
  BY DEF Ordered
<1> DEFINE m == Len(s)
           n == Len(t)
           h == [i \in 1 .. m + n + 1 |-> IF i <= m THEN h1[i] ELSE h2[i - m]]
<1>4. /\ m \in Nat /\ n \in Nat /\ s \o t \in Seq(Op) /\ Len(s \o t) = m + n
      /\ \A i \in 1 .. m : (s \o t)[i] = s[i]
      /\ \A i \in m + 1 .. m + n : (s \o t)[i] = t[i - m]
  BY <1>3, ConcatProperties, LenProperties
<1>5. /\ h1 \in [1 .. m + 1 -> Hold] /\ h1[1] = a /\ h1[m + 1] = b
      /\ \A i \in 1 .. m : Allowed(s[i], h1[i]) /\ h1[i + 1] = After(s[i], h1[i])
  BY <1>1 DEF Holds
<1>6. /\ h2 \in [1 .. n + 1 -> Hold] /\ h2[1] = b /\ h2[n + 1] = c
      /\ \A i \in 1 .. n : Allowed(t[i], h2[i]) /\ h2[i + 1] = After(t[i], h2[i])
  BY <1>2 DEF Holds
<1> HIDE DEF m, n
<1>7. h \in [1 .. m + n + 1 -> Hold]
  <2> SUFFICES ASSUME NEW i \in 1 .. m + n + 1
               PROVE  (IF i <= m THEN h1[i] ELSE h2[i - m]) \in Hold
    OBVIOUS
  <2>1. CASE i <= m
    BY <1>4, <1>5, <2>1
  <2>2. CASE ~(i <= m)
    <3>1. i - m \in 1 .. n + 1
      BY <1>4, <2>2
    <3> QED
      BY <1>6, <2>2, <3>1
  <2> QED
    BY <2>1, <2>2
<1>8. \A i \in 1 .. m + n + 1 : h[i] = IF i <= m THEN h1[i] ELSE h2[i - m]
  OBVIOUS
<1> HIDE DEF h
<1>9. h[1] = a /\ h[m + n + 1] = c
  <2>1. h[1] = a
    <3>1. CASE m = 0
      BY <1>4, <1>5, <1>6, <1>8, <3>1
    <3>2. CASE m > 0
      BY <1>4, <1>5, <1>8, <3>2
    <3> QED
      BY <1>4, <3>1, <3>2
  <2>2. m + n + 1 \in 1 .. m + n + 1 /\ ~(m + n + 1 <= m) /\ (m + n + 1) - m = n + 1
    BY <1>4
  <2> QED
    BY <1>6, <1>8, <2>1, <2>2
<1>10. ASSUME NEW i \in 1 .. m + n
       PROVE  Allowed((s \o t)[i], h[i]) /\ h[i + 1] = After((s \o t)[i], h[i])
  <2>1. i \in 1 .. m + n + 1 /\ i + 1 \in 1 .. m + n + 1
    BY <1>4
  <2>2. CASE i <= m
    <3>1. i \in 1 .. m /\ h[i] = h1[i] /\ (s \o t)[i] = s[i]
      BY <1>4, <1>8, <2>1, <2>2
    <3>2. h[i + 1] = h1[i + 1]
      <4>1. CASE i + 1 <= m
        BY <1>8, <2>1, <4>1
      <4>2. CASE i = m
        <5>1. ~(i + 1 <= m) /\ (i + 1) - m = 1
          BY <1>4, <4>2
        <5> QED
          BY <1>5, <1>6, <1>8, <2>1, <4>2, <5>1
      <4> QED
        BY <1>4, <2>2, <4>1, <4>2
    <3> QED
      BY <1>5, <3>1, <3>2
  <2>3. CASE ~(i <= m)
    <3> DEFINE j == i - m
    <3>1. j \in 1 .. n /\ (i + 1) - m = j + 1 /\ ~(i + 1 <= m) /\ i \in m + 1 .. m + n
      BY <1>4, <2>3
    <3>2. h[i] = h2[j] /\ h[i + 1] = h2[j + 1] /\ (s \o t)[i] = t[j]
      BY <1>4, <1>8, <2>1, <2>3, <3>1
    <3> HIDE DEF j
    <3> QED
      BY <1>6, <3>1, <3>2
  <2> QED
    BY <2>2, <2>3
<1>11. Holds(s \o t, h, a, c)
  BY <1>4, <1>7, <1>9, <1>10 DEF Holds
<1> QED
  BY <1>4, <1>11 DEF Ordered

\* What is left after the first operation.
LEMMA OrderedTail ==
  ASSUME NEW s, NEW a, NEW z, Ordered(s, a, z), s # <<>>
  PROVE  /\ s \in Seq(Op) /\ Head(s) \in Op /\ Tail(s) \in Seq(Op) /\ a \in Hold
         /\ Allowed(Head(s), a) /\ Ordered(Tail(s), After(Head(s), a), z)
<1>1. PICK h : Holds(s, h, a, z)
  BY DEF Ordered
<1>2. s \in Seq(Op) /\ Len(s) \in Nat /\ Len(s) > 0
  BY EmptySeq, LenProperties DEF Ordered
<1>3. /\ Head(s) = s[1] /\ Head(s) \in Op
      /\ Tail(s) \in Seq(Op) /\ Len(Tail(s)) = Len(s) - 1
      /\ \A i \in 1 .. Len(Tail(s)) : Tail(s)[i] = s[i + 1]
  BY <1>2, HeadTailProperties
<1> DEFINE n == Len(s)
           g == [i \in 1 .. n |-> h[i + 1]]
<1>4. /\ h \in [1 .. n + 1 -> Hold] /\ h[1] = a /\ h[n + 1] = z
      /\ \A i \in 1 .. n : Allowed(s[i], h[i]) /\ h[i + 1] = After(s[i], h[i])
  BY <1>1 DEF Holds
<1>5. a \in Hold /\ Allowed(Head(s), a) /\ h[2] = After(Head(s), a)
  BY <1>2, <1>3, <1>4
<1> HIDE DEF n
<1>6. n \in Nat /\ n > 0 /\ n = Len(s) /\ Len(Tail(s)) + 1 = n
  BY <1>2, <1>3 DEF n
<1>7. g \in [1 .. Len(Tail(s)) + 1 -> Hold] /\ \A i \in 1 .. n : g[i] = h[i + 1]
  BY <1>4, <1>6
<1> HIDE DEF g
<1>8. Holds(Tail(s), g, After(Head(s), a), z)
  <2>1. g[1] = After(Head(s), a) /\ g[n] = z
    BY <1>4, <1>5, <1>6, <1>7
  <2>2. ASSUME NEW i \in 1 .. Len(Tail(s))
        PROVE  Allowed(Tail(s)[i], g[i]) /\ g[i + 1] = After(Tail(s)[i], g[i])
    <3>1. i + 1 \in 1 .. n /\ i \in 1 .. n
      BY <1>6
    <3> QED
      BY <1>3, <1>4, <1>7, <3>1
  <2> QED
    BY <1>6, <1>7, <2>1, <2>2 DEF Holds
<1> QED
  BY <1>2, <1>3, <1>5, <1>8 DEF Ordered

LEMMA OrderedEnd ==
  ASSUME NEW a, NEW z, Ordered(<<>>, a, z)
  PROVE  a = z
BY DEF Ordered, Holds
-----------------------------------------------------------------------------
LEMMA CallableEmpty == \A P : CallableIn(<<>>, P)
BY OrderedEmpty DEF CallableIn

LEMMA CallableConcat ==
  ASSUME NEW s, NEW t, NEW P, CallableIn(s, P), CallableIn(t, P)
  PROVE  CallableIn(s \o t, P)
<1>1. s \o t \in Seq(Op)
  BY ConcatProperties DEF CallableIn
<1>2. ASSUME NEW a \in Hold, Held(a) \subseteq P
      PROVE  Ordered(s \o t, a, a)
  BY <1>2, OrderedConcat DEF CallableIn
<1> QED
  BY <1>1, <1>2 DEF CallableIn

\* What takes a lock above those held, or one that is held, for reading.
LEMMA CallableReading ==
  ASSUME NEW l \in Lock, NEW P, NEW body,
         \A m \in P \ {l} : Rank(m) < Rank(l), CallableIn(body, P \cup {l})
  PROVE  CallableIn(Reading(l, body), P)
<1> DEFINE r == [do |-> "RLock", lock |-> l]
           u == [do |-> "RUnlock", lock |-> l]
<1>1. r \in Op /\ u \in Op /\ <<r>> \in Seq(Op) /\ <<u>> \in Seq(Op) /\ body \in Seq(Op)
  BY DEF Op, CallableIn
<1>2. Reading(l, body) = (<<r>> \o body) \o <<u>>
  BY DEF Reading
<1>3. Reading(l, body) \in Seq(Op)
  BY <1>1, <1>2, ConcatProperties
<1>4. ASSUME NEW a \in Hold, Held(a) \subseteq P
      PROVE  Ordered(Reading(l, body), a, a)
  <2> DEFINE b == After(r, a)
  <2>1. a.rd \in [Lock -> Nat] /\ a.wr \in SUBSET Lock /\ a = [rd |-> a.rd, wr |-> a.wr]
    BY DEF Hold
  <2>2. b.rd = [a.rd EXCEPT ![l] = @ + 1] /\ b.wr = a.wr /\ b = [rd |-> b.rd, wr |-> b.wr]
    BY DEF After
  <2>3. b.rd \in [Lock -> Nat]
    BY <2>1, <2>2
  <2>4. b \in Hold
    BY <2>1, <2>2, <2>3 DEF Hold
  <2>5. Allowed(r, a)
    BY <1>4 DEF Allowed
  <2>6. Ordered(<<r>>, a, b)
    BY <1>1, <2>4, <2>5, OrderedOne
  <2>7. Held(b) \subseteq P \cup {l}
    BY <1>4, <2>1, <2>2 DEF Held
  <2>8. Ordered(body, b, b)
    BY <2>4, <2>7 DEF CallableIn
  <2>9. Allowed(u, b)
    BY <2>1, <2>2 DEF Allowed
  <2>10. After(u, b) = a
    <3>1. After(u, b) = [rd |-> [b.rd EXCEPT ![l] = @ - 1], wr |-> b.wr]
      BY DEF After
    <3>2. [b.rd EXCEPT ![l] = @ - 1] = a.rd
      BY <2>1, <2>2
    <3> QED
      BY <2>1, <2>2, <3>1, <3>2
  <2>11. Ordered(<<u>>, b, a)
    BY <1>1, <2>4, <2>9, <2>10, OrderedOne
  <2> HIDE DEF b, r, u
  <2> QED
    BY <1>2, <2>6, <2>8, <2>11, OrderedConcat
<1> QED
  BY <1>3, <1>4 DEF CallableIn

\* What takes a lock above those held for writing.
LEMMA CallableWriting ==
  ASSUME NEW l \in Lock, NEW P, NEW body,
         \A m \in P : Rank(m) < Rank(l), CallableIn(body, P \cup {l})
  PROVE  CallableIn(Writing(l, body), P)
<1> DEFINE r == [do |-> "Lock", lock |-> l]
           u == [do |-> "Unlock", lock |-> l]
<1>1. r \in Op /\ u \in Op /\ <<r>> \in Seq(Op) /\ <<u>> \in Seq(Op) /\ body \in Seq(Op)
  BY DEF Op, CallableIn
<1>2. Writing(l, body) = (<<r>> \o body) \o <<u>>
  BY DEF Writing
<1>3. Writing(l, body) \in Seq(Op)
  BY <1>1, <1>2, ConcatProperties
<1>4. ASSUME NEW a \in Hold, Held(a) \subseteq P
      PROVE  Ordered(Writing(l, body), a, a)
  <2> DEFINE b == After(r, a)
  <2>1. a.rd \in [Lock -> Nat] /\ a.wr \in SUBSET Lock /\ a = [rd |-> a.rd, wr |-> a.wr]
    BY DEF Hold
  <2>2. b.rd = a.rd /\ b.wr = a.wr \cup {l} /\ b = [rd |-> b.rd, wr |-> b.wr]
    BY DEF After
  <2>3. b \in Hold
    BY <2>1, <2>2 DEF Hold
  <2>4. Allowed(r, a)
    BY <1>4 DEF Allowed
  <2>5. Ordered(<<r>>, a, b)
    BY <1>1, <2>3, <2>4, OrderedOne
  <2>6. Held(b) \subseteq P \cup {l}
    BY <1>4, <2>1, <2>2 DEF Held
  <2>7. Ordered(body, b, b)
    BY <2>3, <2>6 DEF CallableIn
  <2>8. Allowed(u, b)
    BY <2>1, <2>2 DEF Allowed
  <2>9. After(u, b) = a
    <3>1. l \notin P
      <4>1. Rank(l) \in Nat
        BY DEF Rank
      <4> QED
        BY <4>1
    <3>2. l \notin a.wr
      BY <1>4, <3>1 DEF Held
    <3>3. After(u, b) = [rd |-> b.rd, wr |-> b.wr \ {l}]
      BY DEF After
    <3> QED
      BY <2>1, <2>2, <3>2, <3>3
  <2>10. Ordered(<<u>>, b, a)
    BY <1>1, <2>3, <2>8, <2>9, OrderedOne
  <2> HIDE DEF b, r, u
  <2> QED
    BY <1>2, <2>5, <2>7, <2>10, OrderedConcat
<1> QED
  BY <1>3, <1>4 DEF CallableIn
-----------------------------------------------------------------------------
Low == {"bc", "bad"}
Middle == {"bc", "bad", "slashing", "peers"}

LEMMA RankFacts ==
  /\ Low \subseteq Lock /\ Middle \subseteq Lock /\ Low \subseteq Middle
  /\ \A m \in Low : Rank(m) = 1
  /\ \A m \in Middle : Rank(m) <= 2 /\ Rank(m) \in Nat
  /\ Rank("slashing") = 2 /\ Rank("peers") = 2
  /\ Rank("stakes") = 3 /\ Rank("token") = 3
  /\ {"bc", "bad", "slashing", "peers", "stakes", "token"} = Lock
BY DEF Low, Middle, Lock, Rank

\* The calls that take one lock.
LEMMA LeafCalls ==
  ASSUME NEW P \in SUBSET Middle
  PROVE  /\ CallableIn(GetStake, P) /\ CallableIn(SetStake, P)
         /\ CallableIn(BalanceOf, P) /\ CallableIn(Transfer, P)
<1>1. /\ "stakes" \in Lock /\ "token" \in Lock
      /\ \A m \in P : Rank(m) < Rank("stakes") /\ Rank(m) < Rank("token")
  BY RankFacts
<1>2. CallableIn(<<>>, P \cup {"stakes"}) /\ CallableIn(<<>>, P \cup {"token"})
  BY CallableEmpty
<1>3. CallableIn(GetStake, P)
  BY <1>1, <1>2, CallableReading DEF GetStake
<1>4. CallableIn(BalanceOf, P)
  BY <1>1, <1>2, CallableReading DEF BalanceOf
<1>5. CallableIn(SetStake, P)
  BY <1>1, <1>2, CallableWriting DEF SetStake
<1>6. CallableIn(Transfer, P)
  BY <1>1, <1>2, CallableWriting DEF Transfer
<1> QED
  BY <1>3, <1>4, <1>5, <1>6

\* The slashing manager's, from the chain or from outside; IsValidatorJailed also
\* within its own lock.
LEMMA SlashingCalls ==
  ASSUME NEW P \in SUBSET Low
  PROVE  /\ CallableIn(IsValidatorJailed, P) /\ CallableIn(IsValidatorJailed, P \cup {"slashing"})
         /\ \A c \in ReportViolation \cup ExecuteSlashing : CallableIn(c, P)
<1>1. /\ "slashing" \in Lock /\ \A m \in P : Rank(m) < Rank("slashing")
      /\ P \cup {"slashing"} \in SUBSET Middle
  BY RankFacts DEF Middle, Low
<1> DEFINE Q == P \cup {"slashing"}
<1>2. \A R : CallableIn(<<>>, R)
  BY CallableEmpty
<1>3. CallableIn(IsValidatorJailed, P)
  BY <1>1, <1>2, CallableReading DEF IsValidatorJailed
<1>4. CallableIn(IsValidatorJailed, Q)
  <2>1. \A m \in Q \ {"slashing"} : Rank(m) < Rank("slashing")
    BY <1>1
  <2> HIDE DEF Q
  <2> QED
    BY <1>1, <1>2, <2>1, CallableReading DEF IsValidatorJailed
<1>5. CallableIn(GetStake, Q) /\ CallableIn(SetStake, Q) /\ CallableIn(Transfer, Q)
  BY <1>1, LeafCalls
<1>6. CallableIn(Writing("slashing", <<>>), P) /\ CallableIn(Writing("slashing", GetStake), P)
  BY <1>1, <1>2, <1>5, CallableWriting
<1>7. CallableIn(GetStake \o countActiveValidators \o SetStake \o Transfer, Q)
  <2> HIDE DEF Q
  <2>1. CallableIn(countActiveValidators, Q)
    BY <1>4, <1>5, CallableConcat DEF countActiveValidators
  <2>2. CallableIn(GetStake \o countActiveValidators, Q)
    BY <1>5, <2>1, CallableConcat
  <2>3. CallableIn((GetStake \o countActiveValidators) \o SetStake, Q)
    BY <1>5, <2>2, CallableConcat
  <2> QED
    BY <1>5, <2>3, CallableConcat
<1>8. CallableIn(Writing("slashing", GetStake \o countActiveValidators \o SetStake \o Transfer), P)
  BY <1>1, <1>7, CallableWriting
<1> QED
  BY <1>3, <1>4, <1>6, <1>8 DEF ReportViolation, ExecuteSlashing

\* Those that take the chain's lock, or read it within it.
LEMMA ChainCalls ==
  /\ CallableIn(GetLatestBlock, {})
  /\ \A c \in AddBlock \cup checkValidatorDowntime : CallableIn(c, {})
<1> DEFINE B == {"bc"}
<1>1. /\ "bc" \in Lock /\ "peers" \in Lock /\ {} \cup {"bc"} = B /\ B \cup {"bc"} = B
      /\ B \in SUBSET Low /\ B \in SUBSET Middle
      /\ \A m \in B : Rank(m) < Rank("peers")
  BY RankFacts DEF Low, Middle
<1>2. \A R : CallableIn(<<>>, R)
  BY CallableEmpty
<1>3. /\ CallableIn(GetStake, B) /\ CallableIn(SetStake, B) /\ CallableIn(Transfer, B)
      /\ CallableIn(IsValidatorJailed, B) /\ \A r \in ReportViolation : CallableIn(r, B)
  BY <1>1, LeafCalls, SlashingCalls
<1> HIDE DEF B
<1>4. ASSUME NEW c, CallableIn(c, B)
      PROVE  CallableIn(Reading("bc", c), {}) /\ CallableIn(Writing("bc", c), {})
  BY <1>1, <1>4, CallableReading, CallableWriting
<1>5. CallableIn(GetLatestBlock, {})
  BY <1>2, <1>4 DEF GetLatestBlock
<1>6. CallableIn(GetLatestBlock, B)
  <2>1. \A m \in B \ {"bc"} : Rank(m) < Rank("bc")
    BY DEF B
  <2> QED
    BY <1>1, <1>2, <2>1, CallableReading DEF GetLatestBlock
<1>7. CallableIn(Broadcast, B)
  BY <1>1, <1>2, CallableReading DEF Broadcast
<1>8. \A a \in ApplyTransaction : CallableIn(a, B)
  <2>1. CallableIn(Transfer \o SetStake, B) /\ CallableIn(GetStake \o Transfer, B)
    BY <1>3, CallableConcat
  <2>2. CallableIn((GetStake \o Transfer) \o SetStake, B)
    BY <1>3, <2>1, CallableConcat
  <2> QED
    BY <1>2, <1>3, <2>1, <2>2 DEF ApplyTransaction
<1>9. ASSUME NEW c \in AddBlock PROVE CallableIn(c, {})
  <2>1. \A a \in ApplyTransaction, r \in ReportViolation : CallableIn(a \o r, B)
    BY <1>3, <1>8, CallableConcat
  <2>2. \E b : CallableIn(b, B) /\ c = Writing("bc", b)
    BY <1>2, <1>3, <1>6, <1>7, <1>8, <2>1 DEF AddBlock, AutoSlash, handleFork
  <2> QED
    BY <1>4, <2>2
<1>10. ASSUME NEW c \in checkValidatorDowntime PROVE CallableIn(c, {})
  <2>1. CallableIn(GetStake \o IsValidatorJailed, B)
    BY <1>3, CallableConcat
  <2>2. CallableIn((GetStake \o IsValidatorJailed) \o GetLatestBlock, B)
    BY <1>6, <2>1, CallableConcat
  <2>3. \A r \in ReportViolation :
          CallableIn(((GetStake \o IsValidatorJailed) \o GetLatestBlock) \o r, B)
    BY <1>3, <2>2, CallableConcat
  <2>4. \E b : CallableIn(b, B) /\ c = Reading("bc", b)
    BY <2>1, <2>3 DEF checkValidatorDowntime
  <2> QED
    BY <1>4, <2>4
<1> QED
  BY <1>5, <1>9, <1>10

LEMMA AllCalls == \A t : \A c \in Calls(t) : CallableIn(c, {})
<1>1. \A R : CallableIn(<<>>, R)
  BY CallableEmpty
<1>2. /\ {} \in SUBSET Low /\ {} \in SUBSET Middle /\ {"bc"} \in SUBSET Middle
      /\ {} \cup {"bc"} = {"bc"} /\ {} \cup {"bad"} = {"bad"} /\ {} \cup {"peers"} = {"peers"}
      /\ "bc" \in Lock /\ "bad" \in Lock /\ "peers" \in Lock /\ Rank("bad") < Rank("peers")
  BY RankFacts DEF Low, Middle
<1>3. /\ CallableIn(GetStake, {}) /\ CallableIn(SetStake, {}) /\ CallableIn(Transfer, {})
      /\ CallableIn(IsValidatorJailed, {})
      /\ \A c \in ReportViolation \cup ExecuteSlashing : CallableIn(c, {})
  BY <1>2, LeafCalls, SlashingCalls
<1>4. ASSUME NEW c, CallableIn(c, {"bc"})
      PROVE  CallableIn(Reading("bc", c), {}) /\ CallableIn(Writing("bc", c), {})
  BY <1>2, <1>4, CallableReading, CallableWriting
<1>5. CallableIn(Broadcast, {}) /\ CallableIn(Writing("bad", <<>>), {})
  <2>1. CallableIn(Broadcast, {})
    BY <1>1, <1>2, CallableReading DEF Broadcast
  <2>2. CallableIn(Writing("bad", <<>>), {})
    <3>1. CallableIn(<<>>, {} \cup {"bad"}) /\ "bad" \in Lock
      BY <1>1, <1>2
    <3> QED
      BY <3>1, CallableWriting
  <2> QED
    BY <2>1, <2>2
<1>6. CallableIn(DropPeer, {})
  <2>1. CallableIn(Writing("peers", <<>>), {"bad"})
    BY <1>1, <1>2, CallableWriting
  <2> QED
    BY <1>2, <2>1, CallableWriting DEF DropPeer
<1>7. /\ CallableIn(GetStake, {"bc"}) /\ CallableIn(BalanceOf, {"bc"})
      /\ CallableIn(Transfer, {"bc"}) /\ CallableIn(BalanceOf \o GetStake, {"bc"})
  BY <1>2, LeafCalls, CallableConcat
<1>8. /\ CallableIn(Writing("bc", <<>>), {}) /\ CallableIn(Reading("bc", GetStake), {})
      /\ CallableIn(Writing("bc", BalanceOf), {}) /\ CallableIn(Writing("bc", Transfer), {})
      /\ CallableIn(Reading("bc", BalanceOf \o GetStake), {})
  BY <1>1, <1>4, <1>7
<1>9. \A c \in miningLoop : CallableIn(c, {})
  BY <1>3, <1>5, <1>8, ChainCalls DEF miningLoop
<1>10. \A c \in handleStream : CallableIn(c, {})
  BY <1>5, <1>6, <1>8, ChainCalls DEF handleStream
<1>11. \A c \in ApiCalls : CallableIn(c, {})
  BY <1>3, <1>8 DEF ApiCalls
<1>12. \A c \in checkValidatorDowntime : CallableIn(c, {})
  BY ChainCalls
<1> QED
  BY <1>9, <1>10, <1>11, <1>12 DEF Calls
-----------------------------------------------------------------------------
\* What a goroutine holds now.
HoldOf(t) ==
  [rd |-> [l \in Lock |-> reading[l][t]], wr |-> {l \in Lock : writing[l] = t}]

\* A queued reader is at its request, and an announced writer at its request or inside.
Queued ==
  \A l \in Lock :
    /\ \A r \in waiting[l] : At(r, "RLock", l)
    /\ announced[l] # NoThread => writing[l] = announced[l] \/ At(announced[l], "Lock", l)

LockInv ==
  /\ LocksTypeOK
  /\ writing \in [Lock -> Thread \cup {NoThread}]
  /\ Queued
  /\ \A t \in Thread : Ordered(todo[t], HoldOf(t), NoLock)

LEMMA HoldSame ==
  ASSUME NEW r \in Thread,
         \A l \in Lock : reading'[l][r] = reading[l][r] /\ (writing'[l] = r <=> writing[l] = r)
  PROVE  HoldOf(r)' = HoldOf(r)
BY DEF HoldOf

LEMMA LockInitInv == LocksInit => LockInv
<1> SUFFICES ASSUME LocksInit PROVE LockInv
  OBVIOUS
<1>1. LocksTypeOK /\ writing \in [Lock -> Thread \cup {NoThread}]
  BY DEF LocksInit, LocksTypeOK
<1>2. Queued
  BY DEF LocksInit, Queued
<1>3. NoLock \in Hold
  BY DEF NoLock, Hold
<1>4. ASSUME NEW t \in Thread PROVE Ordered(todo[t], HoldOf(t), NoLock)
  <2>1. HoldOf(t) = NoLock
    BY LocksAssumption DEF HoldOf, NoLock, LocksInit
  <2> QED
    BY <1>3, <2>1, OrderedEmpty DEF LocksInit
<1> QED
  BY <1>1, <1>2, <1>4 DEF LockInv

\* A call begins with nothing held and is ordered to its end.
LEMMA CallInv ==
  ASSUME LockInv, NEW t \in Thread, Call(t)
  PROVE  LockInv'
<1>1. /\ LocksTypeOK /\ writing \in [Lock -> Thread \cup {NoThread}] /\ Queued
      /\ \A r \in Thread : Ordered(todo[r], HoldOf(r), NoLock)
      /\ UNCHANGED <<announced, writing, reading, waiting>> /\ todo[t] = <<>>
  BY DEF LockInv, Call
<1>2. PICK c \in Calls(t) : todo' = [todo EXCEPT ![t] = c]
  BY DEF Call
<1>3. CallableIn(c, {}) /\ c \in Seq(Op)
  BY AllCalls DEF CallableIn
<1>4. /\ todo' \in [Thread -> Seq(Op)] /\ todo'[t] = c
      /\ \A r \in Thread \ {t} : todo'[r] = todo[r]
  BY <1>1, <1>2, <1>3 DEF LocksTypeOK
<1>5. LocksTypeOK'
  BY <1>1, <1>4 DEF LocksTypeOK
<1>6. \A r \in Thread : HoldOf(r)' = HoldOf(r)
  BY <1>1 DEF HoldOf
<1>7. NoLock \in Hold /\ Held(NoLock) = {} /\ HoldOf(t) = NoLock
  BY <1>1, OrderedEnd DEF NoLock, Hold, Held
<1>8. \A r \in Thread : Ordered(todo'[r], HoldOf(r)', NoLock)
  BY <1>1, <1>3, <1>4, <1>6, <1>7 DEF CallableIn
<1>9. Queued'
  <2>1. \A r \in Thread, d \in {"RLock", "Lock"}, l \in Lock : At(r, d, l) => At(r, d, l)'
    BY <1>1, <1>4 DEF At
  <2>2. \A l \in Lock : waiting[l] \subseteq Thread /\ announced[l] \in Thread \cup {NoThread}
    BY <1>1 DEF LocksTypeOK
  <2> QED
    BY <1>1, <2>1, <2>2 DEF Queued
<1> QED
  BY <1>1, <1>5, <1>8, <1>9 DEF LockInv

\* What every step knows of the goroutine that makes it.
LEMMA AtFacts ==
  ASSUME LockInv, NEW t \in Thread, NEW d, NEW l, At(t, d, l)
  PROVE  /\ l \in Lock /\ d \in {"RLock", "RUnlock", "Lock", "Unlock"}
         /\ Tail(todo[t]) \in Seq(Op) /\ HoldOf(t) \in Hold
         /\ Allowed([do |-> d, lock |-> l], HoldOf(t))
         /\ Ordered(Tail(todo[t]), After([do |-> d, lock |-> l], HoldOf(t)), NoLock)
         /\ \A k, m : At(t, k, m) => k = d /\ m = l
<1>1. Ordered(todo[t], HoldOf(t), NoLock) /\ todo[t] # <<>> /\ Head(todo[t]) = [do |-> d, lock |-> l]
  BY DEF LockInv, At
<1>2. [do |-> d, lock |-> l] \in Op
  BY <1>1, OrderedTail
<1>3. l \in Lock /\ d \in {"RLock", "RUnlock", "Lock", "Unlock"}
  BY <1>2 DEF Op
<1> QED
  BY <1>1, <1>3, OrderedTail DEF At

\* One goroutine makes its next operation, the others stay where they are.
LEMMA StepInv ==
  ASSUME LockInv, NEW t \in Thread, NEW d, NEW l, At(t, d, l), todo' = Done({t}),
         HoldOf(t)' = After([do |-> d, lock |-> l], HoldOf(t)),
         \A r \in Thread \ {t} : HoldOf(r)' = HoldOf(r),
         LocksTypeOK', writing' \in [Lock -> Thread \cup {NoThread}],
         UNCHANGED <<announced, waiting>>,
         \A m \in Lock : t \notin waiting[m],
         \A m \in Lock : announced[m] = t => writing'[m] = t,
         \A m \in Lock : writing[m] # NoThread => writing'[m] = writing[m]
  PROVE  LockInv'
<1>1. /\ LocksTypeOK /\ writing \in [Lock -> Thread \cup {NoThread}] /\ Queued
      /\ \A r \in Thread : Ordered(todo[r], HoldOf(r), NoLock)
  BY DEF LockInv
<1>2. todo'[t] = Tail(todo[t]) /\ \A r \in Thread \ {t} : todo'[r] = todo[r]
  BY DEF Done
<1>3. Ordered(todo'[t], HoldOf(t)', NoLock)
  BY <1>2, AtFacts
<1>4. \A r \in Thread : Ordered(todo'[r], HoldOf(r)', NoLock)
  BY <1>1, <1>2, <1>3
<1>5. \A r \in Thread \ {t} : \A k, m : At(r, k, m) => At(r, k, m)'
  BY <1>2 DEF At
<1>6. Queued'
  <2>1. \A m \in Lock : waiting[m] \subseteq Thread /\ announced[m] \in Thread \cup {NoThread}
    BY <1>1 DEF LocksTypeOK
  <2>2. ASSUME NEW m \in Lock, NEW r \in waiting[m] PROVE At(r, "RLock", m)'
    BY <1>1, <1>5, <2>1, <2>2 DEF Queued
  <2>3. ASSUME NEW m \in Lock, announced[m] # NoThread
        PROVE  writing'[m] = announced[m] \/ At(announced[m], "Lock", m)'
    <3>1. CASE announced[m] = t
      BY <3>1
    <3>2. CASE announced[m] # t /\ writing[m] = announced[m]
      BY <2>3, <3>2
    <3>3. CASE announced[m] # t /\ At(announced[m], "Lock", m)
      <4>1. PICK u \in Thread : u = announced[m]
        BY <2>1, <2>3
      <4>2. At(u, "Lock", m)'
        BY <1>5, <3>3, <4>1
      <4> QED
        BY <4>1, <4>2 DEF At
    <3> QED
      BY <1>1, <2>3, <3>1, <3>2, <3>3 DEF Queued
  <2> QED
    BY <2>2, <2>3 DEF Queued, At
<1> QED
  BY <1>4, <1>6 DEF LockInv

LEMMA RLockInv ==
  ASSUME LockInv, NEW t \in Thread, NEW l, RLock(t, l)
  PROVE  LockInv'
<1>1. /\ LocksTypeOK /\ writing \in [Lock -> Thread \cup {NoThread}] /\ Queued
      /\ At(t, "RLock", l) /\ announced[l] = NoThread /\ todo' = Done({t})
      /\ reading' = [reading EXCEPT ![l][t] = @ + 1]
      /\ UNCHANGED <<announced, writing, waiting>>
  BY DEF LockInv, RLock
<1>2. /\ l \in Lock /\ Tail(todo[t]) \in Seq(Op)
      /\ \A k, m : At(t, k, m) => k = "RLock" /\ m = l
  BY <1>1, AtFacts
<1>3. /\ reading \in [Lock -> [Thread -> Nat]] /\ todo \in [Thread -> Seq(Op)]
      /\ writing[l] \in {announced[l], NoThread} /\ waiting[l] = {}
  BY <1>1, <1>2 DEF LocksTypeOK
<1>4. /\ reading' \in [Lock -> [Thread -> Nat]]
      /\ reading'[l][t] = reading[l][t] + 1
      /\ \A m \in Lock, r \in Thread : m # l \/ r # t => reading'[m][r] = reading[m][r]
  BY <1>1, <1>2, <1>3
<1>5. todo' \in [Thread -> Seq(Op)]
  BY <1>1, <1>2, <1>3 DEF Done
<1>6. LocksTypeOK'
  BY <1>1, <1>3, <1>4, <1>5, LocksAssumption DEF LocksTypeOK
<1>7. HoldOf(t)' = After([do |-> "RLock", lock |-> l], HoldOf(t))
  <2>1. [m \in Lock |-> reading'[m][t]] = [[m \in Lock |-> reading[m][t]] EXCEPT ![l] = @ + 1]
    BY <1>2, <1>4
  <2> QED
    BY <1>1, <2>1 DEF HoldOf, After
<1>8. \A r \in Thread \ {t} : HoldOf(r)' = HoldOf(r)
  BY <1>1, <1>4, HoldSame
<1>9. \A m \in Lock : t \notin waiting[m] /\ (announced[m] = t => writing'[m] = t)
  BY <1>1, <1>2, <1>3, LocksAssumption DEF Queued
<1> QED
  BY <1>1, <1>6, <1>7, <1>8, <1>9, StepInv

LEMMA RUnlockInv ==
  ASSUME LockInv, NEW t \in Thread, NEW l, RUnlock(t, l)
  PROVE  LockInv'
<1>1. /\ LocksTypeOK /\ writing \in [Lock -> Thread \cup {NoThread}] /\ Queued
      /\ At(t, "RUnlock", l) /\ todo' = Done({t})
      /\ reading' = [reading EXCEPT ![l][t] = @ - 1]
      /\ UNCHANGED <<announced, writing, waiting>>
  BY DEF LockInv, RUnlock
<1>2. /\ l \in Lock /\ Tail(todo[t]) \in Seq(Op)
      /\ \A k, m : At(t, k, m) => k = "RUnlock" /\ m = l
      /\ Allowed([do |-> "RUnlock", lock |-> l], HoldOf(t))
  BY <1>1, AtFacts
<1>3. /\ reading \in [Lock -> [Thread -> Nat]] /\ todo \in [Thread -> Seq(Op)]
      /\ reading[l][t] > 0
  BY <1>1, <1>2 DEF LocksTypeOK, Allowed, HoldOf
<1>4. /\ reading' \in [Lock -> [Thread -> Nat]]
      /\ reading'[l][t] = reading[l][t] - 1
      /\ \A m \in Lock, r \in Thread : m # l \/ r # t => reading'[m][r] = reading[m][r]
  BY <1>1, <1>2, <1>3
<1>5. todo' \in [Thread -> Seq(Op)]
  BY <1>1, <1>2, <1>3 DEF Done
<1>6. \A m \in Lock : writing[m] = NoThread \/ m # l
  BY <1>1, <1>3 DEF LocksTypeOK
<1>7. LocksTypeOK'
  BY <1>1, <1>3, <1>4, <1>5, <1>6 DEF LocksTypeOK
<1>8. HoldOf(t)' = After([do |-> "RUnlock", lock |-> l], HoldOf(t))
  <2>1. [m \in Lock |-> reading'[m][t]] = [[m \in Lock |-> reading[m][t]] EXCEPT ![l] = @ - 1]
    BY <1>2, <1>4
  <2> QED
    BY <1>1, <2>1 DEF HoldOf, After
<1>9. \A r \in Thread \ {t} : HoldOf(r)' = HoldOf(r)
  BY <1>1, <1>4, HoldSame
<1>10. \A m \in Lock : t \notin waiting[m] /\ (announced[m] = t => writing'[m] = t)
  BY <1>1, <1>2, LocksAssumption DEF Queued
<1> QED
  BY <1>1, <1>7, <1>8, <1>9, <1>10, StepInv

LEMMA WLockInv ==
  ASSUME LockInv, NEW t \in Thread, NEW l, WLock(t, l)
  PROVE  LockInv'
<1>1. /\ LocksTypeOK /\ writing \in [Lock -> Thread \cup {NoThread}] /\ Queued
      /\ At(t, "Lock", l) /\ announced[l] = t /\ writing[l] = NoThread /\ todo' = Done({t})
      /\ \A r \in Thread : reading[l][r] = 0
      /\ writing' = [writing EXCEPT ![l] = t]
      /\ UNCHANGED <<announced, reading, waiting>>
  BY DEF LockInv, WLock
<1>2. /\ l \in Lock /\ Tail(todo[t]) \in Seq(Op)
      /\ \A k, m : At(t, k, m) => k = "Lock" /\ m = l
  BY <1>1, AtFacts
<1>3. todo' \in [Thread -> Seq(Op)]
  BY <1>1, <1>2 DEF Done, LocksTypeOK
<1>4. /\ writing' \in [Lock -> Thread \cup {NoThread}] /\ writing'[l] = t
      /\ \A m \in Lock \ {l} : writing'[m] = writing[m]
  BY <1>1, <1>2
<1>5. LocksTypeOK'
  BY <1>1, <1>2, <1>3, <1>4 DEF LocksTypeOK
<1>6. HoldOf(t)' = After([do |-> "Lock", lock |-> l], HoldOf(t))
  <2>1. {m \in Lock : writing'[m] = t} = {m \in Lock : writing[m] = t} \cup {l}
    BY <1>2, <1>4
  <2> QED
    BY <1>1, <2>1 DEF HoldOf, After
<1>7. \A r \in Thread \ {t} : HoldOf(r)' = HoldOf(r)
  BY <1>1, <1>2, <1>4, HoldSame, LocksAssumption
<1>8. \A m \in Lock : t \notin waiting[m] /\ (announced[m] = t => writing'[m] = t)
  BY <1>1, <1>2, <1>4, LocksAssumption DEF Queued
<1>9. \A m \in Lock : writing[m] # NoThread => writing'[m] = writing[m]
  BY <1>1, <1>4
<1> QED
  BY <1>1, <1>4, <1>5, <1>6, <1>7, <1>8, <1>9, StepInv

\* A reader queues up, or a writer announces itself.
LEMMA WaitInv ==
  ASSUME LockInv, NEW t \in Thread, NEW l, RWait(t, l) \/ Announce(t, l)
  PROVE  LockInv'
<1>1. /\ LocksTypeOK /\ writing \in [Lock -> Thread \cup {NoThread}] /\ Queued
      /\ \A r \in Thread : Ordered(todo[r], HoldOf(r), NoLock)
      /\ UNCHANGED <<todo, writing, reading>>
  BY DEF LockInv, RWait, Announce
<1>2. l \in Lock
  BY AtFacts DEF RWait, Announce
<1>3. \A r \in Thread : Ordered(todo[r], HoldOf(r), NoLock)'
  BY <1>1 DEF HoldOf
<1>4. \A r, d, m : At(r, d, m)' <=> At(r, d, m)
  BY <1>1 DEF At
<1>5. CASE RWait(t, l)
  <2>1. /\ At(t, "RLock", l) /\ announced[l] # NoThread /\ announced' = announced
        /\ waiting' = [waiting EXCEPT ![l] = @ \cup {t}]
    BY <1>5 DEF RWait
  <2>2. /\ waiting' \in [Lock -> SUBSET Thread] /\ waiting'[l] = waiting[l] \cup {t}
        /\ \A m \in Lock \ {l} : waiting'[m] = waiting[m]
    BY <1>1, <1>2, <2>1 DEF LocksTypeOK
  <2>3. LocksTypeOK'
    BY <1>1, <2>1, <2>2 DEF LocksTypeOK
  <2>4. Queued'
    BY <1>1, <1>4, <2>1, <2>2 DEF Queued
  <2> QED
    BY <1>1, <1>3, <2>3, <2>4 DEF LockInv
<1>6. CASE Announce(t, l)
  <2>1. /\ At(t, "Lock", l) /\ announced[l] = NoThread /\ waiting' = waiting
        /\ announced' = [announced EXCEPT ![l] = t]
    BY <1>6 DEF Announce
  <2>2. /\ announced' \in [Lock -> Thread \cup {NoThread}] /\ announced'[l] = t
        /\ \A m \in Lock \ {l} : announced'[m] = announced[m]
    BY <1>1, <1>2, <2>1 DEF LocksTypeOK
  <2>3. writing[l] = NoThread
    BY <1>1, <1>2, <2>1 DEF LocksTypeOK
  <2>4. LocksTypeOK'
    BY <1>1, <2>1, <2>2, <2>3, LocksAssumption DEF LocksTypeOK
  <2>5. Queued'
    <3>1. ASSUME NEW m \in Lock, announced'[m] # NoThread
          PROVE  writing'[m] = announced'[m] \/ At(announced'[m], "Lock", m)
      BY <1>1, <2>1, <2>2, <3>1 DEF Queued
    <3> QED
      BY <1>1, <1>4, <2>1, <3>1 DEF Queued, At
  <2> QED
    BY <1>1, <1>3, <2>4, <2>5 DEF LockInv
<1> QED
  BY <1>5, <1>6

\* The writer goes, and all that queued behind it are inside as readers.
LEMMA UnlockInv ==
  ASSUME LockInv, NEW t \in Thread, NEW l, Unlock(t, l)
  PROVE  LockInv'
<1>1. /\ LocksTypeOK /\ writing \in [Lock -> Thread \cup {NoThread}] /\ Queued
      /\ \A r \in Thread : Ordered(todo[r], HoldOf(r), NoLock)
      /\ At(t, "Unlock", l) /\ todo' = Done({t} \cup waiting[l])
      /\ writing' = [writing EXCEPT ![l] = NoThread]
      /\ announced' = [announced EXCEPT ![l] = NoThread]
      /\ waiting' = [waiting EXCEPT ![l] = {}]
      /\ reading' = [reading EXCEPT ![l] =
           [r \in Thread |-> @[r] + (IF r \in waiting[l] THEN 1 ELSE 0)]]
  BY DEF LockInv, Unlock
<1>2. /\ l \in Lock
      /\ \A k, m : At(t, k, m) => k = "Unlock" /\ m = l
      /\ Allowed([do |-> "Unlock", lock |-> l], HoldOf(t))
  BY <1>1, AtFacts
<1>3. writing[l] = t /\ announced[l] = t
  BY <1>1, <1>2, LocksAssumption DEF Allowed, HoldOf, LocksTypeOK
<1>4. /\ reading \in [Lock -> [Thread -> Nat]] /\ todo \in [Thread -> Seq(Op)]
      /\ waiting[l] \subseteq Thread /\ t \notin waiting[l]
      /\ \A r \in waiting[l] : At(r, "RLock", l)
  BY <1>1, <1>2 DEF LocksTypeOK, Queued
<1>5. /\ reading' \in [Lock -> [Thread -> Nat]]
      /\ \A r \in waiting[l] : reading'[l][r] = reading[l][r] + 1
      /\ \A r \in Thread : r \notin waiting[l] => reading'[l][r] = reading[l][r]
      /\ \A m \in Lock \ {l} : reading'[m] = reading[m]
  <2> DEFINE f == [r \in Thread |-> reading[l][r] + (IF r \in waiting[l] THEN 1 ELSE 0)]
  <2>1. reading' = [reading EXCEPT ![l] = f]
    BY <1>1
  <2>2. /\ f \in [Thread -> Nat]
        /\ \A r \in waiting[l] : f[r] = reading[l][r] + 1
        /\ \A r \in Thread : r \notin waiting[l] => f[r] = reading[l][r]
    BY <1>2, <1>4
  <2> HIDE DEF f
  <2> QED
    BY <1>2, <1>4, <2>1, <2>2
<1>6. /\ writing' \in [Lock -> Thread \cup {NoThread}] /\ writing'[l] = NoThread
      /\ announced' \in [Lock -> Thread \cup {NoThread}] /\ announced'[l] = NoThread
      /\ waiting' \in [Lock -> SUBSET Thread] /\ waiting'[l] = {}
      /\ \A m \in Lock \ {l} :
           writing'[m] = writing[m] /\ announced'[m] = announced[m] /\ waiting'[m] = waiting[m]
  BY <1>1, <1>2 DEF LocksTypeOK
<1>7. /\ \A r \in {t} \cup waiting[l] : todo'[r] = Tail(todo[r]) /\ Tail(todo[r]) \in Seq(Op)
      /\ \A r \in Thread \ ({t} \cup waiting[l]) : todo'[r] = todo[r]
      /\ todo' \in [Thread -> Seq(Op)]
  <2>1. \A r \in {t} \cup waiting[l] : r \in Thread /\ Tail(todo[r]) \in Seq(Op)
    BY <1>1, <1>4, AtFacts
  <2> QED
    BY <1>1, <1>4, <2>1 DEF Done
<1>8. LocksTypeOK'
  <2>1. ASSUME NEW m \in Lock, writing'[m] # NoThread, NEW r \in Thread
        PROVE  reading'[m][r] = 0
    <3>1. m # l /\ writing[m] # NoThread
      BY <1>6, <2>1
    <3> QED
      BY <1>1, <1>5, <3>1 DEF LocksTypeOK
  <2>2. \A m \in Lock : writing'[m] \in {announced'[m], NoThread}
    BY <1>1, <1>6 DEF LocksTypeOK
  <2>3. \A m \in Lock : announced'[m] = NoThread => waiting'[m] = {}
    BY <1>1, <1>6 DEF LocksTypeOK
  <2> QED
    BY <1>5, <1>6, <1>7, <2>1, <2>2, <2>3 DEF LocksTypeOK
<1>9. ASSUME NEW r \in Thread PROVE Ordered(todo'[r], HoldOf(r)', NoLock)
  <2>1. CASE r = t
    <3>1. HoldOf(t)' = After([do |-> "Unlock", lock |-> l], HoldOf(t))
      <4>1. {m \in Lock : writing'[m] = t} = {m \in Lock : writing[m] = t} \ {l}
        BY <1>2, <1>6, LocksAssumption
      <4>2. [m \in Lock |-> reading'[m][t]] = [m \in Lock |-> reading[m][t]]
        BY <1>4, <1>5
      <4> QED
        BY <4>1, <4>2 DEF HoldOf, After
    <3>2. Ordered(Tail(todo[t]), After([do |-> "Unlock", lock |-> l], HoldOf(t)), NoLock)
      BY <1>1, AtFacts
    <3> QED
      BY <1>7, <2>1, <3>1, <3>2
  <2>2. CASE r \in waiting[l]
    <3>1. HoldOf(r)' = After([do |-> "RLock", lock |-> l], HoldOf(r))
      <4>1. {m \in Lock : writing'[m] = r} = {m \in Lock : writing[m] = r}
        BY <1>3, <1>4, <1>6, <2>2, LocksAssumption
      <4>2. [m \in Lock |-> reading'[m][r]] = [[m \in Lock |-> reading[m][r]] EXCEPT ![l] = @ + 1]
        BY <1>2, <1>5, <2>2
      <4> QED
        BY <4>1, <4>2 DEF HoldOf, After
    <3> QED
      BY <1>4, <1>7, <2>2, <3>1, AtFacts
  <2>3. CASE r \notin {t} \cup waiting[l]
    <3>1. HoldOf(r)' = HoldOf(r)
      BY <1>3, <1>5, <1>6, <2>3, HoldSame, LocksAssumption
    <3> QED
      BY <1>1, <1>7, <2>3, <3>1
  <2> QED
    BY <2>1, <2>2, <2>3
<1>10. Queued'
  <2>1. ASSUME NEW m \in Lock, NEW r \in waiting'[m] PROVE At(r, "RLock", m)'
    <3>1. m # l /\ r \in waiting[m] /\ r \in Thread /\ At(r, "RLock", m)
      BY <1>1, <1>6, <2>1 DEF Queued
    <3>2. r # t
      BY <1>2, <3>1
    <3>3. r \notin waiting[l]
      <4>1. r \in waiting[l] => At(r, "RLock", l)
        BY <1>4
      <4>2. At(r, "RLock", l) => l = m
        BY <3>1, AtFacts
      <4> QED
        BY <3>1, <4>1, <4>2
    <3> QED
      BY <1>7, <3>1, <3>2, <3>3 DEF At
  <2>2. ASSUME NEW m \in Lock, announced'[m] # NoThread
        PROVE  writing'[m] = announced'[m] \/ At(announced[m], "Lock", m)'
    <3>1. m # l /\ announced'[m] = announced[m] /\ writing'[m] = writing[m]
      BY <1>6, <2>2
    <3>2. CASE writing[m] = announced[m]
      BY <3>1, <3>2
    <3>3. CASE At(announced[m], "Lock", m)
      <4>1. PICK u \in Thread : u = announced[m]
        BY <1>1, <2>2, <3>1 DEF LocksTypeOK
      <4>2. u # t
        BY <1>2, <3>3, <4>1
      <4>3. u \notin waiting[l]
        <5>1. At(u, "RLock", l) => "RLock" = "Lock"
          BY <3>3, <4>1, AtFacts
        <5> QED
          BY <1>4, <5>1
      <4>4. At(u, "Lock", m)'
        BY <1>7, <3>3, <4>1, <4>2, <4>3 DEF At
      <4> QED
        BY <3>1, <4>1, <4>4 DEF At
    <3> QED
      BY <1>1, <2>2, <3>1, <3>2, <3>3 DEF Queued
  <2> QED
    BY <2>1, <2>2 DEF Queued, At
<1> QED
  BY <1>6, <1>8, <1>9, <1>10 DEF LockInv

LEMMA LockNextInv == LockInv /\ [LocksNext]_locksVars => LockInv'
<1> SUFFICES ASSUME LockInv, [LocksNext]_locksVars PROVE LockInv'
  OBVIOUS
<1>1. CASE UNCHANGED locksVars
  BY <1>1 DEF locksVars, LockInv, LocksTypeOK, Queued, HoldOf, At
<1> QED
  BY <1>1, CallInv, RLockInv, RUnlockInv, WLockInv, WaitInv, UnlockInv DEF LocksNext, Step

LEMMA LockInvariant == LocksSpec => []LockInv
BY LockInitInv, LockNextInv, PTL DEF LocksSpec

\* Types; a writer is inside alone, and readers queue only behind one.
THEOREM LocksTyped == LocksSpec => []LocksTypeOK
<1>1. LockInv => LocksTypeOK
  BY DEF LockInv
<1> QED
  BY <1>1, LockInvariant, PTL
-----------------------------------------------------------------------------
\* One who waits asks for a lock; if he is inside of another, it is below that.
LEMMA Waiter ==
  ASSUME LockInv, NEW t \in Thread, WaitsFor(t) # {}, ~Relocks(t)
  PROVE  \E l \in Lock :
           /\ l = Head(todo[t]).lock /\ (At(t, "RLock", l) \/ At(t, "Lock", l))
           /\ \A m \in Lock : reading[m][t] > 0 \/ writing[m] = t => Rank(m) < Rank(l)
<1> DEFINE l == Head(todo[t]).lock
           d == Head(todo[t]).do
<1>1. todo[t] # <<>> /\ d \in {"RLock", "Lock"} /\ Ordered(todo[t], HoldOf(t), NoLock)
  BY DEF WaitsFor, LockInv
<1>2. Head(todo[t]) \in Op
  BY <1>1, OrderedTail
<1>3. Head(todo[t]) = [do |-> d, lock |-> l] /\ l \in Lock
  BY <1>2 DEF Op
<1>4. At(t, d, l)
  BY <1>1, <1>3 DEF At
<1>5. Allowed([do |-> d, lock |-> l], HoldOf(t))
  BY <1>4, AtFacts
<1>6. ~(reading[l][t] > 0) /\ writing[l] # t
  BY <1>1, <1>3, <1>4 DEF Relocks
<1> HIDE DEF l, d
<1>7. ASSUME NEW m \in Lock, reading[m][t] > 0 \/ writing[m] = t
      PROVE  Rank(m) < Rank(l)
  <2>1. m \in Held(HoldOf(t)) /\ m # l
    BY <1>6, <1>7 DEF Held, HoldOf
  <2> QED
    BY <1>1, <1>5, <2>1 DEF Allowed
<1> QED
  BY <1>1, <1>3, <1>4, <1>7 DEF l

\* Of goroutines that wait for one another, none relocking, take one that asks for a
\* lock as high as any: whoever is inside of it asks for a higher one.
LEMMA CircleRelocks == LockInv => DeadlockNeedsRelock
<1> SUFFICES ASSUME LockInv, NEW T \in SUBSET {t \in Thread : WaitsFor(t) # {}}, T # {},
                    \A t \in T : WaitsFor(t) \cap T # {}, \A t \in T : ~Relocks(t)
             PROVE  FALSE
  BY DEF DeadlockNeedsRelock
<1> DEFINE asked(t) == Head(todo[t]).lock
<1>1. ASSUME NEW t \in T
      PROVE  /\ t \in Thread /\ asked(t) \in Lock
             /\ At(t, "RLock", asked(t)) \/ At(t, "Lock", asked(t))
             /\ \A m \in Lock :
                  reading[m][t] > 0 \/ writing[m] = t => Rank(m) < Rank(asked(t))
  BY Waiter
<1>2. PICK t \in T : \A u \in T : Rank(asked(u)) <= Rank(asked(t))
  <2>1. \A l : Rank(l) \in {1, 2, 3}
    BY DEF Rank
  <2> HIDE DEF asked
  <2>2. CASE \E t \in T : Rank(asked(t)) = 3
    BY <2>1, <2>2
  <2>3. CASE (\A t \in T : Rank(asked(t)) # 3) /\ \E t \in T : Rank(asked(t)) = 2
    <3>1. PICK t \in T : Rank(asked(t)) = 2
      BY <2>3
    <3>2. ASSUME NEW u \in T PROVE Rank(asked(u)) <= 2
      <4>1. Rank(asked(u)) \in {1, 2}
        BY <2>1, <2>3
      <4> QED
        BY <4>1
    <3> QED
      BY <3>1, <3>2
  <2>4. CASE \A t \in T : Rank(asked(t)) # 3 /\ Rank(asked(t)) # 2
    BY <2>1, <2>4
  <2> QED
    BY <2>2, <2>3, <2>4
<1>3. PICK l \in Lock : l = asked(t)
  BY <1>1
<1>4. ASSUME NEW u \in T, reading[l][u] > 0 \/ writing[l] = u
      PROVE  FALSE
  <2>1. Rank(l) < Rank(asked(u)) /\ Rank(asked(u)) <= Rank(l)
    BY <1>1, <1>2, <1>3, <1>4
  <2>2. Rank(l) \in Nat /\ Rank(asked(u)) \in Nat
    BY DEF Rank
  <2> HIDE DEF asked
  <2> QED
    BY <2>1, <2>2
<1>5. /\ announced[l] \in Thread \cup {NoThread} /\ writing[l] \in {announced[l], NoThread}
      /\ announced[l] # NoThread => writing[l] = announced[l] \/ At(announced[l], "Lock", l)
      /\ NoThread \notin Thread
  BY LocksAssumption DEF LockInv, LocksTypeOK, Queued
<1>6. ASSUME NEW u \in T, announced[l] = u, At(u, "Lock", l) PROVE FALSE
  <2>1. WaitsFor(u) = ({writing[l]} \ {NoThread}) \cup {r \in Thread : reading[l][r] > 0}
    BY <1>6 DEF WaitsFor, At
  <2>2. PICK v \in T : v \in WaitsFor(u)
    OBVIOUS
  <2>3. v \in Thread
    OBVIOUS
  <2> QED
    BY <1>4, <2>1, <2>2, <2>3
<1>7. CASE announced[l] = t
  <2>1. writing[l] = t \/ At(t, "Lock", l)
    BY <1>1, <1>5, <1>7
  <2> QED
    BY <1>4, <1>6, <1>7, <2>1
<1>8. CASE announced[l] # t
  <2>1. WaitsFor(t) \subseteq {announced[l]} \ {NoThread}
    BY <1>3, <1>8 DEF WaitsFor
  <2>2. PICK u \in T : u \in WaitsFor(t)
    OBVIOUS
  <2>3. u = announced[l] /\ u # NoThread
    BY <2>1, <2>2
  <2> QED
    BY <1>4, <1>5, <1>6, <2>3
<1> QED
  BY <1>7, <1>8

\* For any number of goroutines of each kind, whatever blocks, slashing events and
\* requests come: goroutines wait for one another in a circle only if one of them asks
\* for a lock it is already inside of.
THEOREM NoOtherDeadlock == LocksSpec => []DeadlockNeedsRelock
BY CircleRelocks, LockInvariant, PTL
=============================================================================
