------------------------------ MODULE Services ------------------------------
(***************************************************************************)
(* The over-the-counter desk, the multi-signature wallets and the token's  *)
(* users, all of whom move the same balances.                              *)
(***************************************************************************)
EXTENDS OTC, MultiSig

vars == <<balances, orders, wallets, pending>>

Init ==
  /\ balances = Funds
  /\ OTCInit
  /\ MultiSigInit

\* A user's own transfer.
Pay(t, from, to, amount) ==
  /\ Transfer(t, from, to, amount)
  /\ UNCHANGED <<orders, wallets, pending>>

Trade(o) == OTCStep(o) /\ UNCHANGED <<wallets, pending>>

Next ==
  \/ \E o \in Order : Trade(o)
  \/ MultiSigStep /\ UNCHANGED orders
  \/ \E t \in Token, from \in User, to \in Account, amount \in Amount :
       Pay(t, from, to, amount)

Spec == Init /\ [][Next]_vars
-----------------------------------------------------------------------------
\* Types of the balances and of the services' states.
TypeOK ==
  /\ balances \in [Token -> [Account -> Nat]]
  /\ OrdersOK
  /\ WalletsOK

\* What a step must leave to the owners of wallets.
DebitsSigned ==
  /\ \A t \in Token, a \in Address : SignedDebit(t, a)
  /\ \A x \in Tx : Executed(x) => pending'[x] = pending[x]

\* Nothing but transactions with enough signatures debits a wallet's address,
\* each of them once, and what has been executed is not changed any more.
SignedDebits == [][DebitsSigned]_vars

\* The desk's order seen as an offer of module Swap.
OfferOf(order) ==
  IF order = NoOrder THEN [state |-> "none"]
  ELSE [state |->
          CASE order.status = "open" -> "offered"
            [] order.status = "matched" -> "joined"
            [] order.status = "completed" -> "exchanged"
            [] OTHER -> "withdrawn",
        creator |-> order.creator, other |-> order.matchedWith,
        gives |-> order.offered, amountGiven |-> order.amountOffered,
        takes |-> order.requested, amountTaken |-> order.amountRequested]

S == INSTANCE Swap WITH offers <- [o \in Order |-> OfferOf(orders[o])]

\* Whatever calls the desk and the wallets get, in whatever order, an order is
\* an exchange of both amounts in one step or is returned to its creator.
IsSwap == S!Spec
=============================================================================
