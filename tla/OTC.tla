-------------------------------- MODULE OTC --------------------------------
(***************************************************************************)
(* The over-the-counter desk (core/relay-chain/otc/otc.go): a creator      *)
(* locks an amount of one token on the desk's account and asks for an      *)
(* amount of another.  Every operation holds the manager's lock and is one *)
(* action, or none when it returns before it has changed anything.         *)
(*                                                                         *)
(* The record of a trade repeats what its order says and is left out.  The *)
(* list of signers an order needs may name someone twice: needed is its    *)
(* length, signers the set of the names in it.                             *)
(***************************************************************************)
EXTENDS Registry, Totals

CONSTANTS
  Order,       \* IDs of orders
  MaxSigners   \* bound on the length of the list of signers

ASSUME OTCAssumption == IsFiniteSet(Order) /\ MaxSigners \in Nat

OrderStatus == {"open", "matched", "completed", "cancelled", "expired"}

OTCOrder ==
  [creator : User, offered : Token, amountOffered : Nat,
   requested : Token, amountRequested : Nat, status : OrderStatus,
   matchedWith : User, signers : SUBSET User, needed : 0 .. MaxSigners,
   signatures : SUBSET User, expired : BOOLEAN]

NoOrder == [status |-> "none"]

VARIABLE orders   \* otc.Orders, NoOrder where the map has none

OTCInit == orders = [o \in Order |-> NoOrder]

\* Lists of needed signers with these names in them exist.
IsList(signers, needed) ==
  /\ Cardinality(signers) <= needed
  /\ signers = {} => needed = 0

\* No status reads matchedWith before the order is matched: the creator stands
\* for the empty name.
CreateOrder(o, creator, offered, amountOffered, requested, amountRequested, signers, needed) ==
  /\ orders[o] = NoOrder
  /\ IsList(signers, needed)
  /\ Transfer(offered, creator, Desk, amountOffered)
  /\ orders' = [orders EXCEPT ![o] =
       [creator |-> creator, offered |-> offered, amountOffered |-> amountOffered,
        requested |-> requested, amountRequested |-> amountRequested,
        status |-> "open", matchedWith |-> creator, signers |-> signers,
        needed |-> needed, signatures |-> {}, expired |-> FALSE]]

\* The clock passes ExpiresAt, which only an open order's fate depends on.
ExpireOrder(o) ==
  /\ orders[o].status = "open"
  /\ ~orders[o].expired
  /\ orders' = [orders EXCEPT ![o].expired = TRUE]
  /\ UNCHANGED balances

\* completeOrder of a matched order, from the balances bal: an error in the
\* first leg leaves all as it is, one in the second leaves the first leg paid.
completeOrder(o, order, bal) ==
  LET paid == Moved(bal, order.offered, Desk, order.matchedWith, order.amountOffered) IN
  IF bal[order.offered][Desk] < order.amountOffered
  THEN /\ balances' = bal
       /\ orders' = [orders EXCEPT ![o] = order]
  ELSE IF paid[order.requested][Desk] < order.amountRequested
  THEN /\ balances' = paid
       /\ orders' = [orders EXCEPT ![o] = order]
  ELSE /\ balances' = Moved(paid, order.requested, Desk, order.creator,
                            order.amountRequested)
       /\ orders' = [orders EXCEPT ![o] = [order EXCEPT !.status = "completed"]]

\* releaseOrderTokens, whose error its callers ignore, and the new status.
releaseOrderTokens(o, status) ==
  LET order == orders[o] IN
  /\ IF balances[order.offered][Desk] >= order.amountOffered
     THEN balances' = Moved(balances, order.offered, Desk, order.creator,
                            order.amountOffered)
     ELSE UNCHANGED balances
  /\ orders' = [orders EXCEPT ![o].status = status]

\* The counterparty's amount is locked, and without signers the order is
\* completed at once.
Match(o, counterparty) ==
  LET order == [orders[o] EXCEPT !.status = "matched", !.matchedWith = counterparty]
      bal == Moved(balances, order.requested, counterparty, Desk, order.amountRequested)
  IN  /\ balances[order.requested][counterparty] >= order.amountRequested
      /\ IF order.needed = 0
         THEN completeOrder(o, order, bal)
         ELSE /\ balances' = bal
              /\ orders' = [orders EXCEPT ![o] = order]

MatchOrder(o, counterparty) ==
  /\ orders[o].status = "open"
  /\ IF orders[o].expired
     THEN releaseOrderTokens(o, "expired")
     ELSE Match(o, counterparty)

FaultySignOrder(o, signer) ==
  /\ orders[o].status \in {"matched", "completed"}
  /\ signer \in orders[o].signers
  /\ LET order == [orders[o] EXCEPT !.signatures = @ \cup {signer}] IN
     IF Cardinality(order.signatures) >= order.needed
     THEN completeOrder(o, order, balances)
     ELSE /\ orders' = [orders EXCEPT ![o] = order]
          /\ UNCHANGED balances

\* A signer named twice counts once: the order can then never be completed.
SignOrder(o, signer) ==
  /\ orders[o].status = "matched"
  /\ signer \in orders[o].signers
  /\ LET order == [orders[o] EXCEPT !.signatures = @ \cup {signer}] IN
     IF Cardinality(order.signatures) >= order.needed
     THEN completeOrder(o, order, balances)
     ELSE /\ orders' = [orders EXCEPT ![o] = order]
          /\ UNCHANGED balances

FaultyCancelOrder(o, canceller) ==
  /\ orders[o].status \in {"open", "matched"}
  /\ canceller = orders[o].creator
  /\ releaseOrderTokens(o, "cancelled")

CancelOrder(o, canceller) ==
  /\ orders[o].status = "open"
  /\ canceller = orders[o].creator
  /\ releaseOrderTokens(o, "cancelled")

\* One round of the loop of ProcessExpiredOrders.
ProcessExpiredOrders(o) ==
  /\ orders[o].status = "open" /\ orders[o].expired
  /\ releaseOrderTokens(o, "expired")

OTCStep(o) ==
  \/ \E creator \in User, offered, requested \in Token,
        amountOffered, amountRequested \in Amount,
        signers \in SUBSET User, needed \in 0 .. MaxSigners :
       CreateOrder(o, creator, offered, amountOffered, requested, amountRequested,
                   signers, needed)
  \/ ExpireOrder(o)
  \/ \E counterparty \in User : MatchOrder(o, counterparty)
  \/ \E signer \in User : SignOrder(o, signer)
  \/ \E canceller \in User : CancelOrder(o, canceller)
  \/ ProcessExpiredOrders(o)
-----------------------------------------------------------------------------
\* Types of the desk's state.
OrdersOK == orders \in [Order -> OTCOrder \cup {NoOrder}]

\* What the desk owes of token t for an order.
Due(t, order) ==
  IF order.status \notin {"open", "matched"} THEN 0
  ELSE (IF order.offered = t THEN order.amountOffered ELSE 0)
     + (IF order.status = "matched" /\ order.requested = t
        THEN order.amountRequested ELSE 0)

\* The desk's account holds both sides of every matched order and the offered
\* side of every open one, of every token, so that a refund, whose error is
\* ignored, and the second leg of a trade, after whose failure the first would
\* be paid again, cannot fail.
DeskBacked ==
  \A t \in Token : balances[t][Desk] >= Total([o \in Order |-> Due(t, orders[o])])
=============================================================================
