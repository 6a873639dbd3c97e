------------------------------ MODULE Custody ------------------------------
(***************************************************************************)
(* What a user may expect of an escrow, whatever the rules for confirming, *)
(* releasing, cancelling and disputing one: a deposit takes the amount     *)
(* from its sender, and is settled at most once, by paying exactly that    *)
(* amount to its receiver or back to its sender.  Between the two the      *)
(* money is nobody's.                                                      *)
(***************************************************************************)
EXTENDS Integers

CONSTANTS
  Party,    \* users
  Pool,     \* the account the deposits are kept on
  Id,       \* deposits
  Funds     \* what every account owns at the start

VARIABLES
  balances,  \* what every account owns
  deposit    \* of every deposit: its state, sender, receiver and amount

vars == <<balances, deposit>>

NoDeposit == [state |-> "none"]

Moved(from, to, amount) ==
  LET less == [balances EXCEPT ![from] = @ - amount]
  IN  [less EXCEPT ![to] = @ + amount]

Init ==
  /\ balances = Funds
  /\ deposit = [d \in Id |-> NoDeposit]

Deposit(d, from, to, amount) ==
  /\ deposit[d] = NoDeposit
  /\ balances[from] >= amount
  /\ balances' = Moved(from, Pool, amount)
  /\ deposit' = [deposit EXCEPT ![d] =
       [state |-> "held", from |-> from, to |-> to, amount |-> amount]]

Settle(d, payee) ==
  /\ deposit[d].state = "held"
  /\ payee \in {deposit[d].from, deposit[d].to}
  /\ balances[Pool] >= deposit[d].amount
  /\ balances' = Moved(Pool, payee, deposit[d].amount)
  /\ deposit' = [deposit EXCEPT ![d].state = "settled"]

\* Anything users do with the money that is not in custody.
Pay(from, to, amount) ==
  /\ balances[from] >= amount
  /\ balances' = Moved(from, to, amount)
  /\ UNCHANGED deposit

Next ==
  \/ \E d \in Id, from, to \in Party : \E amount \in 0 .. balances[from] :
       Deposit(d, from, to, amount)
  \/ \E d \in Id, payee \in Party : Settle(d, payee)
  \/ \E from \in Party, to \in Party \cup {Pool} : \E amount \in 0 .. balances[from] :
       Pay(from, to, amount)

Spec == Init /\ [][Next]_vars
=============================================================================
