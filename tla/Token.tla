------------------------------- MODULE Token -------------------------------
(***************************************************************************)
(* One token of the chain (core/relay-chain/token): balances, allowances   *)
(* and the supply it reports, in unsigned words.  Every operation holds    *)
(* the token's lock from its first read to its last write, so each is one  *)
(* action; a call that returns an error changes nothing and is no action.  *)
(* Addresses are the valid ones, and events are not kept.                  *)
(***************************************************************************)
EXTENDS Integers, FiniteSets, Totals

CONSTANTS
  Addr,       \* addresses
  Word,       \* number of values of an amount: 2^64 in the code
  MaxSupply   \* maxSupply, 0 for unlimited

ASSUME TokenAssumption ==
  /\ IsFiniteSet(Addr)
  /\ Word \in Nat \ {0}
  /\ MaxSupply \in 0 .. Word - 1

Amount == 0 .. Word - 1

VARIABLES
  balances,     \* t.balances, 0 where the map has no entry
  allowances,   \* t.allowances
  totalSupply   \* t.totalSupply

tokenVars == <<balances, allowances, totalSupply>>

\* The code's loop over the balances, which adds them up in one word.
CirculatingSupply == Total(balances) % Word

\* NewToken takes its initialSupply parameter for the maximum.
TokenInit ==
  /\ balances = [a \in Addr |-> 0]
  /\ allowances = [a \in Addr |-> [b \in Addr |-> 0]]
  /\ totalSupply = 0

\* The cap is compared with a sum that may have wrapped; only the receiver's own
\* balance is protected from overflow.
Mint(to, amount) ==
  /\ amount > 0
  /\ MaxSupply > 0 => (CirculatingSupply + amount) % Word <= MaxSupply
  /\ balances[to] <= Word - 1 - amount
  /\ balances' = [balances EXCEPT ![to] = @ + amount]
  /\ totalSupply' = (CirculatingSupply + amount) % Word
  /\ UNCHANGED allowances

FaultyBurn(from, amount) ==
  /\ balances[from] >= amount
  /\ balances' = [balances EXCEPT ![from] = @ - amount]
  /\ UNCHANGED <<totalSupply, allowances>>

Burn(from, amount) ==
  /\ balances[from] >= amount
  /\ balances' = [balances EXCEPT ![from] = @ - amount]
  /\ totalSupply' = (totalSupply + Word - amount) % Word
  /\ UNCHANGED allowances

\* Moves amount, the receiver's balance wrapping; from and to may be the same.
Moved(from, to, amount) ==
  LET paid == [balances EXCEPT ![from] = @ - amount]
  IN  [paid EXCEPT ![to] = (@ + amount) % Word]

Transfer(from, to, amount) ==
  /\ balances[from] >= amount
  /\ balances' = Moved(from, to, amount)
  /\ UNCHANGED <<allowances, totalSupply>>

Approve(owner, spender, amount) ==
  /\ allowances' = [allowances EXCEPT ![owner][spender] = amount]
  /\ UNCHANGED <<balances, totalSupply>>

TransferFrom(owner, spender, to, amount) ==
  /\ allowances[owner][spender] >= amount
  /\ balances[owner] >= amount
  /\ balances' = Moved(owner, to, amount)
  /\ allowances' = [allowances EXCEPT ![owner][spender] = @ - amount]
  /\ UNCHANGED totalSupply

TokenNext ==
  \E a, b \in Addr, amount \in Amount :
    \/ Mint(a, amount)
    \/ Burn(a, amount)
    \/ Transfer(a, b, amount)
    \/ Approve(a, b, amount)
    \/ \E to \in Addr : TransferFrom(a, b, to, amount)

TokenSpec == TokenInit /\ [][TokenNext]_tokenVars
-----------------------------------------------------------------------------
\* Balances, allowances and the supply are words.
TokenTypeOK ==
  /\ balances \in [Addr -> Amount]
  /\ allowances \in [Addr -> [Addr -> Amount]]
  /\ totalSupply \in Amount

\* The supply the token reports is the circulating supply, though Mint computes
\* it anew, Burn updates it and transfers may wrap a balance.
SupplyIsCirculating == totalSupply = CirculatingSupply
=============================================================================
