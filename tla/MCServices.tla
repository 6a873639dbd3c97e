----------------------------- MODULE MCServices -----------------------------
(***************************************************************************)
(* Instances of Services for TLC.                                          *)
(***************************************************************************)
EXTENDS Services, TLC

\* What every user owns of every token.
CONSTANT Rich

Endowment ==
  [t \in Token |-> [a \in Account |-> IF a \in User THEN Rich ELSE 0]]

Symmetry == Permutations(User) \cup Permutations(Token) \cup Permutations(Address)
    \cup Permutations(Order) \cup Permutations(Wallet) \cup Permutations(Tx)

Orders == {o \in Order : orders[o] # NoOrder}
Wallets == {w \in Wallet : wallets[w] # NoWallet}
Txs == {x \in Tx : pending[x] # NoTx}

\* What is on the desk's account and belongs to no order.
Given(t) == balances[t][Desk] - Total([o \in Order |-> Due(t, orders[o])])

\* Two orders, or two wallets and a transaction, or one wallet and two.  Of two
\* orders one needs no signature and the other at most one; of two wallets with
\* different addresses each needs one.  Users pay one token, and of it at most
\* one unit to the desk's account, or some to the address of a wallet.
FewCalls ==
  /\ 3 * Cardinality(Orders) + 2 * Cardinality(Wallets) + 2 * Cardinality(Txs) <= 6
  /\ Orders = {} \/ Wallets = {}
  /\ Cardinality(Orders) = 2 =>
       \E o \in Orders : orders[o].needed = 0 /\ \A p \in Orders : orders[p].needed <= 1
  /\ \A w, v \in Wallets :
       wallets[w].address # wallets[v].address => wallets[w].required = 1
  /\ \E t \in Token : \A s \in Token :
       /\ Given(s) <= IF s = t /\ Wallets = {} THEN 1 ELSE 0
       /\ \A a \in Address : balances[s][a] # 0 => s = t /\ \E w \in Wallets : wallets[w].address = a
=============================================================================
