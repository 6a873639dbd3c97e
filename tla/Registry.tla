------------------------------ MODULE Registry ------------------------------
(***************************************************************************)
(* The token registry as the services built on it see it: the balances of  *)
(* every token, moved by Token.Transfer, which refuses a payer who is      *)
(* short of the amount.  Balances do not wrap here (module Token says when *)
(* all of a token's balances together stay below 2^64).                    *)
(***************************************************************************)
EXTENDS Integers, FiniteSets

CONSTANTS
  User,         \* addresses of users
  Desk,         \* the account "otc_contract"
  Address,      \* addresses of multi-signature wallets
  Token,        \* symbols in the registry
  Amount,       \* amounts that are offered, asked for or transferred
  Funds         \* what every account owns of every token at the start

Account == User \cup {Desk} \cup Address

ASSUME RegistryAssumption ==
  /\ Desk \notin User
  /\ Amount \subseteq Nat
  /\ (User \cup {Desk}) \cap Address = {}
  /\ Funds \in [Token -> [Account -> Nat]]

VARIABLE balances   \* balances[t][a]: what a owns of t

Moved(bal, t, from, to, amount) ==
  LET less == [bal EXCEPT ![t][from] = @ - amount]
  IN  [less EXCEPT ![t][to] = @ + amount]

Transfer(t, from, to, amount) ==
  /\ balances[t][from] >= amount
  /\ balances' = Moved(balances, t, from, to, amount)
=============================================================================
