------------------------------ MODULE MultiSig ------------------------------
(***************************************************************************)
(* Multi-signature wallets (core/relay-chain/multisig/multisig.go).  Every *)
(* operation holds the manager's lock and is one action.                   *)
(*                                                                         *)
(* A wallet's address is made of characters 8 to 15 of its ID, that is of  *)
(* the first seven digits of the time in nanoseconds: all wallets made in  *)
(* some 17 minutes have the same address.  Which addresses go with which   *)
(* times is left open.  The list of owners may name someone twice.         *)
(***************************************************************************)
EXTENDS Registry

CONSTANTS
  Wallet,     \* IDs of wallets
  Tx,         \* IDs of proposed transactions
  MaxOwners   \* bound on the length of the list of owners

ASSUME MultiSigAssumption == MaxOwners \in Nat

MultiSigWallet ==
  [address : Address, owners : SUBSET User, required : 1 .. MaxOwners, nonce : Nat]

NoWallet == [nonce |-> -1]

PendingTransaction ==
  [wallet : Wallet, to : Account, token : Token, amount : Nat,
   signatures : SUBSET User, required : 1 .. MaxOwners, expired : BOOLEAN,
   executed : BOOLEAN]

NoTx == [amount |-> -1]

VARIABLES
  wallets,   \* msm.Wallets
  pending    \* msm.PendingTransactions, executed ones among them

MultiSigInit ==
  /\ wallets = [w \in Wallet |-> NoWallet]
  /\ pending = [x \in Tx |-> NoTx]

\* Names for a list of at least two owners, and as many signatures as it is
\* long at most.
CanOwn(owners, required) ==
  /\ owners # {}
  /\ \E length \in 2 .. MaxOwners :
       Cardinality(owners) <= length /\ required \in 1 .. length

CreateMultiSigWallet(w, address, owners, required) ==
  /\ wallets[w] = NoWallet
  /\ CanOwn(owners, required)
  /\ wallets' = [wallets EXCEPT ![w] =
       [address |-> address, owners |-> owners, required |-> required, nonce |-> 0]]
  /\ UNCHANGED <<balances, pending>>

\* The proposer signs, but nothing is executed even if that is enough.
ProposeTransaction(x, w, proposer, to, t, amount) ==
  /\ pending[x] = NoTx
  /\ wallets[w] # NoWallet
  /\ proposer \in wallets[w].owners
  /\ balances[t][wallets[w].address] >= amount
  /\ pending' = [pending EXCEPT ![x] =
       [wallet |-> w, to |-> to, token |-> t, amount |-> amount,
        signatures |-> {proposer}, required |-> wallets[w].required,
        expired |-> FALSE, executed |-> FALSE]]
  /\ UNCHANGED <<balances, wallets>>

\* The clock passes ExpiresAt.
ExpireTransaction(x) ==
  /\ pending[x] # NoTx
  /\ ~pending[x].executed /\ ~pending[x].expired
  /\ pending' = [pending EXCEPT ![x].expired = TRUE]
  /\ UNCHANGED <<balances, wallets>>

FaultyExecuteTransaction(x, tx) ==
  /\ balances[tx.token][wallets[tx.wallet].address] >= tx.amount
  /\ balances' = Moved(balances, tx.token, wallets[tx.wallet].address, tx.to, tx.amount)
  /\ wallets' = [wallets EXCEPT ![tx.wallet].nonce = @ + 1]
  /\ pending' = [pending EXCEPT ![x] = tx]

\* A failed transfer leaves the transaction pending: the next signature, even
\* the same again, tries it again.
executeTransaction(x, tx) ==
  IF balances[tx.token][wallets[tx.wallet].address] >= tx.amount
  THEN /\ balances' = Moved(balances, tx.token, wallets[tx.wallet].address, tx.to, tx.amount)
       /\ wallets' = [wallets EXCEPT ![tx.wallet].nonce = @ + 1]
       /\ pending' = [pending EXCEPT ![x] = [tx EXCEPT !.executed = TRUE]]
  ELSE /\ pending' = [pending EXCEPT ![x] = tx]
       /\ UNCHANGED <<balances, wallets>>

SignTransaction(x, signer) ==
  /\ pending[x] # NoTx
  /\ ~pending[x].executed /\ ~pending[x].expired
  /\ signer \in wallets[pending[x].wallet].owners
  /\ LET tx == [pending[x] EXCEPT !.signatures = @ \cup {signer}] IN
     IF Cardinality(tx.signatures) >= tx.required
     THEN executeTransaction(x, tx)
     ELSE /\ pending' = [pending EXCEPT ![x] = tx]
          /\ UNCHANGED <<balances, wallets>>

CleanupExpiredTransactions ==
  LET gone == {x \in Tx : pending[x] # NoTx /\ pending[x].expired /\ ~pending[x].executed} IN
  /\ gone # {}
  /\ pending' = [x \in Tx |-> IF x \in gone THEN NoTx ELSE pending[x]]
  /\ UNCHANGED <<balances, wallets>>

MultiSigStep ==
  \/ \E w \in Wallet, address \in Address, owners \in SUBSET User,
        required \in 1 .. MaxOwners :
       CreateMultiSigWallet(w, address, owners, required)
  \/ \E x \in Tx, w \in Wallet, proposer \in User, to \in Account, t \in Token,
        amount \in Amount :
       ProposeTransaction(x, w, proposer, to, t, amount)
  \/ \E x \in Tx : ExpireTransaction(x)
  \/ \E x \in Tx, signer \in User : SignTransaction(x, signer)
  \/ CleanupExpiredTransactions
-----------------------------------------------------------------------------
\* Types of the wallets' state.
WalletsOK ==
  /\ wallets \in [Wallet -> MultiSigWallet \cup {NoWallet}]
  /\ pending \in [Tx -> PendingTransaction \cup {NoTx}]

\* What has been executed stays as it was signed.
Executed(x) == pending[x] # NoTx /\ pending[x].executed

\* Money leaves the address of wallets only for a transaction that is executed
\* in that step and was not before, in its amount, and with as many of the
\* owners' signatures as its wallet asks for.
SignedDebit(t, a) ==
  balances'[t][a] < balances[t][a] =>
    \E x \in Tx :
      /\ ~Executed(x) /\ Executed(x)'
      /\ wallets[pending'[x].wallet].address = a
      /\ pending'[x].token = t
      /\ pending'[x].amount = balances[t][a] - balances'[t][a]
      /\ pending'[x].signatures \subseteq wallets[pending'[x].wallet].owners
      /\ Cardinality(pending'[x].signatures) >= wallets[pending'[x].wallet].required
=============================================================================
