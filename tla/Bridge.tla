------------------------------- MODULE Bridge -------------------------------
(***************************************************************************)
(* The bridge of the relay chain (core/relay-chain/bridge/bridge.go) over  *)
(* the balances of BHX, the one token that is registered there.  A         *)
(* transfer is started under the bridge's lock; two goroutines, one after  *)
(* the other, confirm it and complete it.  There are no other operations   *)
(* on a transfer: nothing unlocks, refunds or fails one.                   *)
(***************************************************************************)
EXTENDS Integers, Sequences, FiniteSets, Totals

CONSTANTS
  User,          \* addresses that own BHX or receive it
  Pool,          \* the address "bridge_contract"
  Short,         \* addresses of less than eight characters
  Funds,         \* the users' BHX at the start
  MaxSupply,     \* maxSupply of BHX
  Requester         \* names of those that ask for transfers

ASSUME BridgeAssumption ==
  /\ IsFiniteSet(User) /\ Pool \notin User /\ Short \subseteq User
  /\ Funds \in [User \cup {Pool} -> Nat]
  /\ MaxSupply \in Nat

Account == User \cup {Pool}

Chains == {"blackhole", "ethereum", "polkadot", "solana"}

SupportedChains == {"blackhole", "ethereum", "polkadot"}

\* TokenMappings: what a token is called on the chain it goes to.
TokenMappings ==
  [blackhole |-> [BHX |-> "BHX", ETH |-> "bETH", SOL |-> "bSOL"],
   ethereum  |-> [BHX |-> "wBHX", ETH |-> "ETH"],
   polkadot  |-> [BHX |-> "pBHX"],
   solana    |-> [SOL |-> "SOL"]]

Transfer ==
  [source : Chains, dest : Chains, to : User, token : {"BHX", "ETH", "SOL"},
   amount : Nat, status : {"pending", "confirmed", "completed"},
   minted : BOOLEAN, by : Requester]

VARIABLES
  balances,   \* balances of BHX
  transfers   \* b.Transactions, in the order of their IDs

bridge == <<balances, transfers>>

BridgeInit ==
  /\ balances = Funds
  /\ transfers = <<>>

\* The checks of InitiateBridgeTransfer that return an error.
Supported(source, dest, token) ==
  /\ {source, dest} \subseteq SupportedChains
  /\ token \in DOMAIN TokenMappings[dest]

\* The ID is built from the first eight bytes of the sender's address.
Panics(source, dest, from, token) == Supported(source, dest, token) /\ from \in Short

Lockable(source, from, token, amount) ==
  source = "blackhole" => token = "BHX" /\ balances[from] >= amount

CanInitiate(source, dest, from, token, amount) ==
  /\ Supported(source, dest, token)
  /\ from \notin Short
  /\ Lockable(source, from, token, amount)

Lock(from, amount) ==
  balances' = [balances EXCEPT ![from] = @ - amount, ![Pool] = @ + amount]

\* InitiateBridgeTransfer of a call that succeeds; by is who called it.
InitiateBridgeTransfer(source, dest, from, to, token, amount, by) ==
  /\ CanInitiate(source, dest, from, token, amount)
  /\ transfers' = Append(transfers,
       [source |-> source, dest |-> dest, to |-> to, token |-> token,
        amount |-> amount, status |-> "pending", minted |-> FALSE, by |-> by])
  /\ IF source = "blackhole" THEN Lock(from, amount) ELSE balances' = balances

\* processRelayConfirmation: two of the three relay nodes always sign.
processRelayConfirmation(i) ==
  /\ transfers[i].status = "pending"
  /\ transfers' = [transfers EXCEPT ![i].status = "confirmed"]
  /\ balances' = balances

\* Whether completing a transfer mints BHX: bETH and bSOL are in no registry.
Mints(t) ==
  /\ t.dest = "blackhole" /\ TokenMappings["blackhole"][t.token] = "BHX"
  /\ t.amount > 0
  /\ Total(balances) + t.amount <= MaxSupply

FaultyDestinationTransfer(i) ==
  LET t == transfers[i] IN
  /\ t.status = "confirmed"
  /\ transfers' = [transfers EXCEPT ![i].status = IF Mints(t) THEN @ ELSE "completed",
                                    ![i].minted = Mints(t)]
  /\ balances' = IF Mints(t) THEN [balances EXCEPT ![t.to] = @ + t.amount] ELSE balances

\* processDestinationTransfer: the transfer is completed, minted or not.
processDestinationTransfer(i) ==
  LET t == transfers[i] IN
  /\ t.status = "confirmed"
  /\ transfers' = [transfers EXCEPT ![i].status = "completed", ![i].minted = Mints(t)]
  /\ balances' = IF Mints(t) THEN [balances EXCEPT ![t.to] = @ + t.amount] ELSE balances

BridgeStep ==
  \E i \in DOMAIN transfers : processRelayConfirmation(i) \/ processDestinationTransfer(i)

-----------------------------------------------------------------------------
\* The transfers that left Blackhole, and those that minted BHX on it.
Left == {i \in DOMAIN transfers : transfers[i].source = "blackhole"}

Arrived ==
  {i \in DOMAIN transfers :
     /\ transfers[i].minted /\ transfers[i].dest = "blackhole"
     /\ transfers[i].status = "completed"}

Amounts(T) == [i \in T |-> transfers[i].amount]

\* What left for other chains is locked: the bridge's account holds exactly
\* the amounts of the transfers that came from Blackhole.
LocksBacked == balances[Pool] = Funds[Pool] + Total(Amounts(Left))

\* BHX comes into being only by completing a transfer to Blackhole, once and in
\* its amount; locking never loses any.
MintsBacked == Total(balances) = Total(Funds) + Total(Amounts(Arrived))

\* Both sides of the bridge (bridge.go): what left is locked, and what came in
\* was minted once, however the goroutines of the transfers interleave.
BridgeBacked == LocksBacked /\ MintsBacked
=============================================================================
