--------------------------- MODULE ServicesProofs ---------------------------
(***************************************************************************)
(* The desk and the multi-signature wallets for any number of users,       *)
(* tokens, orders and wallets: the desk can always pay both sides of every *)
(* order, hence implements module Swap, and a wallet's address is only     *)
(* debited by a transaction its owners have signed.                        *)
(*                                                                         *)
(* The refinement rests on DeskBacked: the branches in which a payment     *)
(* fails after another, or silently, are there in the code, and it is what *)
(* rules them out.  SignedDebits rests on Signed: what is pending asks for *)
(* as many signatures as its wallet, and has those of owners only.         *)
(***************************************************************************)
EXTENDS Services, TotalsProofs

Debts(t) == [o \in Order |-> Due(t, orders[o])]

Signed ==
  \A x \in Tx : pending[x] # NoTx =>
    LET w == wallets[pending[x].wallet] IN
    /\ w # NoWallet
    /\ pending[x].signatures \subseteq w.owners
    /\ pending[x].required = w.required

Inv == TypeOK /\ DeskBacked /\ Signed

Balances == [Token -> [Account -> Nat]]

LEMMA Accounts ==
  /\ User \subseteq Account /\ Address \subseteq Account /\ Desk \in Account
  /\ Desk \notin User /\ Desk \notin Address /\ User \cap Address = {}
  /\ Amount \subseteq Nat
BY RegistryAssumption DEF Account

LEMMA NoOrderFacts == NoOrder \notin OTCOrder /\ NoOrder.status = "none"
<1>1. \A order \in OTCOrder : order.status \in OrderStatus
  BY DEF OTCOrder
<1> QED
  BY <1>1 DEF NoOrder, OrderStatus

LEMMA OrderFacts ==
  ASSUME OrdersOK, NEW o \in Order, orders[o] # NoOrder
  PROVE  /\ orders[o] \in OTCOrder
         /\ orders[o].creator \in User /\ orders[o].matchedWith \in User
         /\ orders[o].offered \in Token /\ orders[o].requested \in Token
         /\ orders[o].amountOffered \in Nat /\ orders[o].amountRequested \in Nat
BY DEF OrdersOK, OTCOrder

LEMMA DueType ==
  ASSUME NEW t, NEW order \in OTCOrder \cup {NoOrder}
  PROVE  Due(t, order) \in Nat
BY NoOrderFacts DEF Due, OTCOrder

LEMMA DebtsType ==
  ASSUME OrdersOK, NEW t
  PROVE  Debts(t) \in [Order -> Nat] /\ IsFiniteSet(Order) /\ Total(Debts(t)) \in Nat
<1>1. \A o \in Order : Due(t, orders[o]) \in Nat
  BY DueType DEF OrdersOK
<1>2. Debts(t) \in [Order -> Nat] /\ IsFiniteSet(Order)
  BY <1>1, OTCAssumption DEF Debts
<1> QED
  BY <1>2, TotalType

\* What a transfer the payer can afford does.
LEMMA MovedFacts ==
  ASSUME NEW bal \in Balances, NEW t \in Token, NEW from \in Account, NEW to \in Account,
         NEW amount \in Nat, bal[t][from] >= amount
  PROVE  /\ Moved(bal, t, from, to, amount) \in Balances
         /\ \A s \in Token, a \in Account :
              Moved(bal, t, from, to, amount)[s][a] =
                bal[s][a] + (IF s = t /\ a = to THEN amount ELSE 0)
                          - (IF s = t /\ a = from THEN amount ELSE 0)
<1> DEFINE less == [bal EXCEPT ![t][from] = @ - amount]
           more == [less EXCEPT ![t][to] = @ + amount]
<1>1. less \in Balances
  <2>1. bal[t] \in [Account -> Nat] /\ bal[t][from] \in Nat
    BY DEF Balances
  <2>2. [bal[t] EXCEPT ![from] = @ - amount] \in [Account -> Nat]
    BY <2>1
  <2>3. less = [bal EXCEPT ![t] = [bal[t] EXCEPT ![from] = @ - amount]]
    OBVIOUS
  <2> QED
    BY <2>2, <2>3 DEF Balances
<1>2. \A s \in Token, a \in Account :
        less[s][a] = IF s = t /\ a = from THEN bal[s][a] - amount ELSE bal[s][a]
  BY DEF Balances
<1> HIDE DEF less
<1>3. more \in Balances
  <2>1. less[t] \in [Account -> Nat] /\ less[t][to] \in Nat
    BY <1>1 DEF Balances
  <2>2. [less[t] EXCEPT ![to] = @ + amount] \in [Account -> Nat]
    BY <2>1
  <2>3. more = [less EXCEPT ![t] = [less[t] EXCEPT ![to] = @ + amount]]
    OBVIOUS
  <2> QED
    BY <1>1, <2>2, <2>3 DEF Balances
<1>4. \A s \in Token, a \in Account :
        more[s][a] = IF s = t /\ a = to THEN less[s][a] + amount ELSE less[s][a]
  BY <1>1 DEF Balances
<1> HIDE DEF more
<1>5. \A s \in Token, a \in Account : bal[s][a] \in Nat
  BY DEF Balances
<1>6. \A s \in Token, a \in Account :
        more[s][a] = bal[s][a] + (IF s = t /\ a = to THEN amount ELSE 0)
                               - (IF s = t /\ a = from THEN amount ELSE 0)
  BY <1>2, <1>4, <1>5
<1>7. Moved(bal, t, from, to, amount) = more
  BY DEF Moved, less, more
<1> QED
  BY <1>3, <1>6, <1>7

\* The desk stays backed when, of every token, its account changes by no less
\* than what it owes for the one order that changes.
LEMMA BackedStep ==
  ASSUME TypeOK, DeskBacked, NEW o \in Order, NEW order \in OTCOrder,
         orders' = [orders EXCEPT ![o] = order], balances' \in Balances,
         \A t \in Token : balances'[t][Desk] - Due(t, order)
                            >= balances[t][Desk] - Due(t, orders[o])
  PROVE  DeskBacked'
<1> SUFFICES ASSUME NEW t \in Token
             PROVE  balances'[t][Desk] >= Total([p \in Order |-> Due(t, orders'[p])])
  BY DEF DeskBacked
<1>1. OrdersOK /\ orders \in [Order -> OTCOrder \cup {NoOrder}]
  BY DEF TypeOK, OrdersOK
<1>2. Debts(t) \in [Order -> Nat] /\ IsFiniteSet(Order) /\ Total(Debts(t)) \in Nat
  BY <1>1, DebtsType
<1>3. Due(t, order) \in Nat /\ Due(t, orders[o]) \in Nat
  BY <1>1, DueType
<1>4. [p \in Order |-> Due(t, orders'[p])] = [Debts(t) EXCEPT ![o] = Due(t, order)]
  BY <1>1 DEF Debts
<1>5. Total([Debts(t) EXCEPT ![o] = Due(t, order)])
        = Total(Debts(t)) - Debts(t)[o] + Due(t, order)
  BY <1>2, <1>3, TotalUpdate
<1>6. Debts(t)[o] = Due(t, orders[o])
  BY DEF Debts
<1>7. balances[t][Desk] >= Total(Debts(t))
  BY DEF DeskBacked, Debts
<1>8. balances[t][Desk] \in Nat /\ balances'[t][Desk] \in Nat
  BY Accounts DEF TypeOK, Balances
<1>9. balances'[t][Desk] >= Total(Debts(t)) - Due(t, orders[o]) + Due(t, order)
  BY <1>2, <1>3, <1>7, <1>8
<1> QED
  BY <1>4, <1>5, <1>6, <1>9

\* What the desk owes for one order it can pay.
LEMMA Payable ==
  ASSUME TypeOK, DeskBacked, NEW o \in Order, NEW t \in Token
  PROVE  /\ balances[t][Desk] >= Due(t, orders[o])
         /\ balances[t][Desk] \in Nat /\ Due(t, orders[o]) \in Nat
<1>1. Debts(t) \in [Order -> Nat] /\ IsFiniteSet(Order) /\ Total(Debts(t)) \in Nat
  BY DebtsType DEF TypeOK
<1>2. Debts(t)[o] <= Total(Debts(t)) /\ Debts(t)[o] = Due(t, orders[o])
  BY <1>1, TotalBounds DEF Debts
<1>3. balances[t][Desk] >= Total(Debts(t))
  BY DEF DeskBacked, Debts
<1>4. balances[t][Desk] \in Nat /\ Debts(t)[o] \in Nat
  BY <1>1, Accounts DEF TypeOK
<1> QED
  BY <1>1, <1>2, <1>3, <1>4
-----------------------------------------------------------------------------
\* A payment off the desk's account.
LEMMA PaidByDesk ==
  ASSUME NEW bal \in Balances, NEW t \in Token, NEW to \in Account, to # Desk,
         NEW amount \in Nat, bal[t][Desk] >= amount
  PROVE  /\ Moved(bal, t, Desk, to, amount) \in Balances
         /\ \A s \in Token :
              Moved(bal, t, Desk, to, amount)[s][Desk] =
                bal[s][Desk] - (IF s = t THEN amount ELSE 0)
<1>1. Desk \in Account /\ \A s \in Token : bal[s][Desk] \in Nat
  BY Accounts DEF Balances
<1> QED
  BY <1>1, MovedFacts

\* A payment to it.
LEMMA PaidToDesk ==
  ASSUME NEW bal \in Balances, NEW t \in Token, NEW from \in Account, from # Desk,
         NEW amount \in Nat, bal[t][from] >= amount
  PROVE  /\ Moved(bal, t, from, Desk, amount) \in Balances
         /\ \A s \in Token :
              Moved(bal, t, from, Desk, amount)[s][Desk] =
                bal[s][Desk] + (IF s = t THEN amount ELSE 0)
<1>1. Desk \in Account /\ \A s \in Token : bal[s][Desk] \in Nat
  BY Accounts DEF Balances
<1> QED
  BY <1>1, MovedFacts

\* Completing a matched order the account bal can pay: both sides are paid.
LEMMA CompleteFacts ==
  ASSUME NEW o \in Order, NEW order \in OTCOrder, order.status = "matched",
         NEW bal \in Balances, \A t \in Token : bal[t][Desk] >= Due(t, order),
         completeOrder(o, order, bal)
  PROVE  /\ balances' = Moved(Moved(bal, order.offered, Desk, order.matchedWith,
                                    order.amountOffered),
                              order.requested, Desk, order.creator, order.amountRequested)
         /\ orders' = [orders EXCEPT ![o] = [order EXCEPT !.status = "completed"]]
         /\ balances' \in Balances
         /\ \A t \in Token : balances'[t][Desk] = bal[t][Desk] - Due(t, order)
<1> DEFINE paid == Moved(bal, order.offered, Desk, order.matchedWith, order.amountOffered)
           both == Moved(paid, order.requested, Desk, order.creator, order.amountRequested)
<1>1. /\ order.offered \in Token /\ order.requested \in Token
      /\ order.amountOffered \in Nat /\ order.amountRequested \in Nat
      /\ order.matchedWith \in Account /\ order.creator \in Account /\ Desk \in Account
      /\ order.matchedWith # Desk /\ order.creator # Desk
  BY Accounts DEF OTCOrder
<1>2. \A t \in Token : bal[t][Desk] \in Nat
  BY <1>1 DEF Balances
<1>3. \A t \in Token : Due(t, order) = (IF order.offered = t THEN order.amountOffered ELSE 0)
                                     + (IF order.requested = t THEN order.amountRequested ELSE 0)
  BY DEF Due
<1>4. bal[order.offered][Desk] >= order.amountOffered
  BY <1>1, <1>2, <1>3
<1>5. /\ paid \in Balances
      /\ \A s \in Token :
           paid[s][Desk] = bal[s][Desk] - (IF s = order.offered THEN order.amountOffered ELSE 0)
  BY <1>1, <1>4, PaidByDesk
<1> HIDE DEF paid
<1>6. paid[order.requested][Desk] >= order.amountRequested
  BY <1>1, <1>2, <1>3, <1>5
<1>7. /\ both \in Balances
      /\ \A s \in Token :
           both[s][Desk] = paid[s][Desk] - (IF s = order.requested THEN order.amountRequested ELSE 0)
  BY <1>1, <1>5, <1>6, PaidByDesk
<1> HIDE DEF both
<1>8. \A s \in Token : both[s][Desk] = bal[s][Desk] - Due(s, order)
  BY <1>1, <1>2, <1>3, <1>5, <1>7
<1>9. paid[order.requested][Desk] \in Nat
  BY <1>1, <1>5 DEF Balances
<1>10. /\ ~(bal[order.offered][Desk] < order.amountOffered)
       /\ ~(paid[order.requested][Desk] < order.amountRequested)
  BY <1>1, <1>2, <1>4, <1>6, <1>9
<1>11. /\ balances' = both
       /\ orders' = [orders EXCEPT ![o] = [order EXCEPT !.status = "completed"]]
  BY <1>10 DEF completeOrder, paid, both
<1> QED
  BY <1>7, <1>8, <1>11 DEF paid, both

Offers == [o \in Order |-> OfferOf(orders[o])]

LEMMA OfferOfOrder ==
  ASSUME NEW order \in OTCOrder
  PROVE  OfferOf(order) =
           [state |->
              CASE order.status = "open" -> "offered"
                [] order.status = "matched" -> "joined"
                [] order.status = "completed" -> "exchanged"
                [] OTHER -> "withdrawn",
            creator |-> order.creator, other |-> order.matchedWith,
            gives |-> order.offered, amountGiven |-> order.amountOffered,
            takes |-> order.requested, amountTaken |-> order.amountRequested]
BY NoOrderFacts DEF OfferOf

\* An order that changes changes one offer.
LEMMA OffersStep ==
  ASSUME OrdersOK, NEW o \in Order, NEW order,
         orders' = [orders EXCEPT ![o] = order]
  PROVE  /\ Offers[o] = OfferOf(orders[o])
         /\ Offers' = [Offers EXCEPT ![o] = OfferOf(order)]
BY DEF Offers, OrdersOK

\* What every step of the desk has to show.
DeskStep == TypeOK' /\ DeskBacked' /\ [S!Next]_(S!vars)

LEMMA TypesStep ==
  ASSUME TypeOK, NEW o \in Order, NEW order \in OTCOrder,
         orders' = [orders EXCEPT ![o] = order], balances' \in Balances,
         UNCHANGED <<wallets, pending>>
  PROVE  TypeOK'
BY DEF TypeOK, OrdersOK, WalletsOK, Balances

LEMMA CreateStep ==
  ASSUME Inv, NEW o \in Order, NEW creator \in User, NEW offered \in Token,
         NEW requested \in Token, NEW amountOffered \in Amount, NEW amountRequested \in Amount,
         NEW signers \in SUBSET User, NEW needed \in 0 .. MaxSigners,
         CreateOrder(o, creator, offered, amountOffered, requested, amountRequested,
                     signers, needed),
         UNCHANGED <<wallets, pending>>
  PROVE  DeskStep
<1> DEFINE order == [creator |-> creator, offered |-> offered, amountOffered |-> amountOffered,
                     requested |-> requested, amountRequested |-> amountRequested,
                     status |-> "open", matchedWith |-> creator, signers |-> signers,
                     needed |-> needed, signatures |-> {}, expired |-> FALSE]
<1>1. /\ TypeOK /\ OrdersOK /\ DeskBacked /\ balances \in Balances
      /\ amountOffered \in Nat /\ amountRequested \in Nat
      /\ creator \in Account /\ Desk \in Account /\ creator # Desk
  BY Accounts DEF Inv, TypeOK, Balances
<1>2. order \in OTCOrder
  BY <1>1 DEF OTCOrder, OrderStatus
<1>3. /\ orders[o] = NoOrder /\ orders' = [orders EXCEPT ![o] = order]
      /\ balances[offered][creator] >= amountOffered
      /\ balances' = Moved(balances, offered, creator, Desk, amountOffered)
  BY DEF CreateOrder, Transfer
<1>4. order.status = "open" /\ order.offered = offered /\ order.amountOffered = amountOffered
  OBVIOUS
<1>5. OfferOf(order) =
        [state |-> "offered", creator |-> creator, other |-> creator,
         gives |-> offered, amountGiven |-> amountOffered,
         takes |-> requested, amountTaken |-> amountRequested]
  BY <1>2, OfferOfOrder
<1> HIDE DEF order
<1>6. /\ balances' \in Balances
      /\ \A t \in Token :
           balances'[t][Desk] = balances[t][Desk] + (IF t = offered THEN amountOffered ELSE 0)
  <2>1. \A t \in Token : balances[t][Desk] \in Nat
    BY <1>1 DEF Balances
  <2> QED
    BY <1>1, <1>3, <2>1, MovedFacts
<1>7. TypeOK'
  BY <1>1, <1>2, <1>3, <1>6, TypesStep
<1>8. DeskBacked'
  <2>1. \A t \in Token : /\ Due(t, order) = IF t = offered THEN amountOffered ELSE 0
                         /\ Due(t, orders[o]) = 0
                         /\ balances[t][Desk] \in Nat
    BY <1>1, <1>3, <1>4, NoOrderFacts DEF Due, Balances
  <2>2. \A t \in Token : balances'[t][Desk] - Due(t, order)
                           >= balances[t][Desk] - Due(t, orders[o])
    BY <1>1, <1>6, <2>1
  <2> QED
    BY <1>1, <1>2, <1>3, <1>6, <2>2, BackedStep
<1>9. S!Offer(o, creator, offered, amountOffered, requested, amountRequested)
  <2>1. Offers[o] = [state |-> "none"] /\ Offers' = [Offers EXCEPT ![o] = OfferOf(order)]
    BY <1>1, <1>3, OffersStep DEF OfferOf
  <2> QED
    BY <1>3, <1>5, <2>1 DEF S!Offer, S!NoOffer, S!Moved, Moved, Offers
<1> QED
  BY <1>7, <1>8, <1>9 DEF DeskStep, S!Next

\* A step in which only the signatures or the clock of an order change.
LEMMA SameOffer ==
  ASSUME Inv, NEW o \in Order, orders[o] # NoOrder, NEW order \in OTCOrder,
         orders' = [orders EXCEPT ![o] = order], UNCHANGED <<balances, wallets, pending>>,
         OfferOf(order) = OfferOf(orders[o]),
         \A t \in Token : Due(t, order) = Due(t, orders[o])
  PROVE  DeskStep
<1>1. TypeOK /\ OrdersOK /\ DeskBacked /\ balances' \in Balances
  BY DEF Inv, TypeOK, Balances
<1>2. \A t \in Token : balances[t][Desk] \in Nat /\ Due(t, orders[o]) \in Nat
  BY <1>1, Payable
<1>3. \A t \in Token : balances'[t][Desk] - Due(t, order)
                         >= balances[t][Desk] - Due(t, orders[o])
  BY <1>2
<1>4. TypeOK' /\ DeskBacked'
  BY <1>1, <1>3, TypesStep, BackedStep
<1>5. Offers' = Offers
  BY <1>1, OffersStep DEF Offers
<1>6. UNCHANGED S!vars
  BY <1>5 DEF S!vars, Offers
<1> QED
  BY <1>4, <1>6 DEF DeskStep

\* When the offers make a step of module Swap.
LEMMA JoinIs ==
  ASSUME NEW o \in Order, NEW other \in User, NEW offer, Offers[o] = offer,
         offer.state = "offered",
         NEW joined, joined = [offer EXCEPT !.state = "joined", !.other = other],
         NEW bal, bal = S!Moved(balances, joined.takes, other, Desk, joined.amountTaken),
         balances[joined.takes][other] >= joined.amountTaken,
         \/ balances' = bal /\ Offers' = [Offers EXCEPT ![o] = joined]
         \/ /\ balances' = S!Exchanged(bal, joined)
            /\ Offers' = [Offers EXCEPT ![o] = [joined EXCEPT !.state = "exchanged"]]
  PROVE  S!Join(o, other)
BY Zenon DEF S!Join, Offers

LEMMA ExchangeIs ==
  ASSUME NEW o \in Order, NEW offer, Offers[o] = offer, offer.state = "joined",
         balances' = S!Exchanged(balances, offer),
         Offers' = [Offers EXCEPT ![o] = [offer EXCEPT !.state = "exchanged"]]
  PROVE  S!Exchange(o)
<1>1. Offers' = [Offers EXCEPT ![o].state = "exchanged"]
  OBVIOUS
<1> QED
  BY <1>1, Zenon DEF S!Exchange, Offers

LEMMA WithdrawIs ==
  ASSUME NEW o \in Order, NEW offer, Offers[o] = offer, offer.state = "offered",
         balances' = S!Moved(balances, offer.gives, Desk, offer.creator, offer.amountGiven),
         Offers' = [Offers EXCEPT ![o] = [offer EXCEPT !.state = "withdrawn"]]
  PROVE  S!Withdraw(o)
<1>1. Offers' = [Offers EXCEPT ![o].state = "withdrawn"]
  OBVIOUS
<1> QED
  BY <1>1, Zenon DEF S!Withdraw, Offers

\* An offer of module Swap for an order that is joined.
LEMMA MatchStep ==
  ASSUME Inv, NEW o \in Order, NEW counterparty \in User,
         orders[o].status = "open", Match(o, counterparty), UNCHANGED <<wallets, pending>>
  PROVE  DeskStep
<1>1. /\ TypeOK /\ OrdersOK /\ DeskBacked /\ balances \in Balances
      /\ counterparty \in Account /\ Desk \in Account /\ counterparty # Desk
  BY Accounts DEF Inv, TypeOK, Balances
<1>2. orders[o] # NoOrder /\ orders[o] \in OTCOrder
  BY <1>1, NoOrderFacts, OrderFacts
<1> PICK open \in OTCOrder : orders[o] = open
  BY <1>2
<1> DEFINE order == [open EXCEPT !.status = "matched", !.matchedWith = counterparty]
           bal == Moved(balances, open.requested, counterparty, Desk, open.amountRequested)
<1>3. /\ order \in OTCOrder /\ order.status = "matched"
      /\ order.matchedWith = counterparty /\ order.creator = open.creator
      /\ order.offered = open.offered /\ order.amountOffered = open.amountOffered
      /\ order.requested = open.requested /\ order.amountRequested = open.amountRequested
      /\ open.requested \in Token /\ open.amountRequested \in Nat
      /\ open.offered \in Token /\ open.amountOffered \in Nat /\ open.status = "open"
  BY DEF OTCOrder, OrderStatus
<1>4. /\ balances[open.requested][counterparty] >= open.amountRequested
      /\ \/ completeOrder(o, order, bal)
         \/ balances' = bal /\ orders' = [orders EXCEPT ![o] = order]
  BY DEF Match
<1>5. /\ OfferOf(open) = [state |-> "offered", creator |-> open.creator,
           other |-> open.matchedWith, gives |-> open.offered,
           amountGiven |-> open.amountOffered, takes |-> open.requested,
           amountTaken |-> open.amountRequested]
      /\ OfferOf(order) = [state |-> "joined", creator |-> open.creator,
           other |-> counterparty, gives |-> open.offered,
           amountGiven |-> open.amountOffered, takes |-> open.requested,
           amountTaken |-> open.amountRequested]
  BY <1>3, OfferOfOrder
<1>6. \A t \in Token :
        /\ Due(t, open) = IF open.offered = t THEN open.amountOffered ELSE 0
        /\ Due(t, order) = Due(t, open)
             + (IF open.requested = t THEN open.amountRequested ELSE 0)
        /\ balances[t][Desk] >= Due(t, open)
        /\ balances[t][Desk] \in Nat /\ Due(t, open) \in Nat
  BY <1>1, <1>3, Payable DEF Due
<1> HIDE DEF order
<1>7. /\ bal \in Balances
      /\ \A t \in Token : bal[t][Desk] = balances[t][Desk]
           + (IF t = open.requested THEN open.amountRequested ELSE 0)
  BY <1>1, <1>3, <1>4, PaidToDesk
<1>8. S!Moved(balances, open.requested, counterparty, Desk, open.amountRequested) = bal
  BY DEF S!Moved, Moved
<1> HIDE DEF bal
<1>9. /\ OfferOf(order) = [OfferOf(open) EXCEPT !.state = "joined", !.other = counterparty]
      /\ OfferOf(open).state = "offered"
      /\ bal = S!Moved(balances, OfferOf(order).takes, counterparty, Desk,
                       OfferOf(order).amountTaken)
      /\ balances[OfferOf(order).takes][counterparty] >= OfferOf(order).amountTaken
  <2>1. /\ OfferOf(order).takes = open.requested
        /\ OfferOf(order).amountTaken = open.amountRequested
        /\ OfferOf(open).state = "offered"
    BY <1>5
  <2>2. OfferOf(order) = [OfferOf(open) EXCEPT !.state = "joined", !.other = counterparty]
    <3> DEFINE r == [OfferOf(open) EXCEPT !.state = "joined"]
    <3>1. r = [state |-> "joined", creator |-> open.creator, other |-> open.matchedWith,
               gives |-> open.offered, amountGiven |-> open.amountOffered,
               takes |-> open.requested, amountTaken |-> open.amountRequested]
      BY <1>5
    <3> HIDE DEF r
    <3>2. [r EXCEPT !.other = counterparty] = OfferOf(order)
      BY <1>5, <3>1
    <3> QED
      BY <3>2 DEF r
  <2> QED
    BY <1>4, <1>8, <2>1, <2>2
<1>10. CASE balances' = bal /\ orders' = [orders EXCEPT ![o] = order]
  <2>1. \A t \in Token : balances'[t][Desk] - Due(t, order)
                           >= balances[t][Desk] - Due(t, orders[o])
    BY <1>3, <1>6, <1>7, <1>10
  <2>2. TypeOK' /\ DeskBacked'
    BY <1>1, <1>3, <1>7, <1>10, <2>1, TypesStep, BackedStep
  <2>3. Offers[o] = OfferOf(open) /\ Offers' = [Offers EXCEPT ![o] = OfferOf(order)]
    BY <1>1, <1>10, OffersStep
  <2>4. S!Join(o, counterparty)
    BY <1>9, <1>10, <2>3, JoinIs
  <2> QED
    BY <2>2, <2>4 DEF DeskStep, S!Next
<1>11. CASE completeOrder(o, order, bal)
  <2> DEFINE done == [order EXCEPT !.status = "completed"]
             both == Moved(Moved(bal, open.offered, Desk, counterparty, open.amountOffered),
                           open.requested, Desk, open.creator, open.amountRequested)
  <2>1. \A t \in Token : bal[t][Desk] >= Due(t, order)
    BY <1>3, <1>6, <1>7
  <2>2. /\ balances' = both /\ orders' = [orders EXCEPT ![o] = done]
        /\ balances' \in Balances
        /\ \A t \in Token : balances'[t][Desk] = bal[t][Desk] - Due(t, order)
    BY <1>3, <1>7, <1>11, <2>1, CompleteFacts
  <2>3. /\ done \in OTCOrder /\ done.status = "completed" /\ \A t \in Token : Due(t, done) = 0
        /\ done.matchedWith = counterparty /\ done.creator = open.creator
        /\ done.offered = open.offered /\ done.amountOffered = open.amountOffered
        /\ done.requested = open.requested /\ done.amountRequested = open.amountRequested
    BY <1>3 DEF OTCOrder, OrderStatus, Due
  <2> HIDE DEF done
  <2>4. OfferOf(done) = [state |-> "exchanged", creator |-> open.creator,
          other |-> counterparty, gives |-> open.offered,
          amountGiven |-> open.amountOffered, takes |-> open.requested,
          amountTaken |-> open.amountRequested]
    BY <2>3, OfferOfOrder
  <2>5. \A t \in Token : balances'[t][Desk] - Due(t, done)
                           >= balances[t][Desk] - Due(t, orders[o])
    BY <1>3, <1>6, <1>7, <2>2, <2>3
  <2>6. TypeOK' /\ DeskBacked'
    BY <1>1, <2>2, <2>3, <2>5, TypesStep, BackedStep
  <2>7. Offers[o] = OfferOf(open) /\ Offers' = [Offers EXCEPT ![o] = OfferOf(done)]
    BY <1>1, <2>2, OffersStep
  <2>8. OfferOf(done) = [OfferOf(order) EXCEPT !.state = "exchanged"]
    BY <1>5, <2>4
  <2>9. S!Exchanged(bal, OfferOf(order)) = both
    BY <1>5 DEF S!Exchanged, S!Moved, Moved
  <2> HIDE DEF both
  <2>10. S!Join(o, counterparty)
    BY <1>9, <2>2, <2>7, <2>8, <2>9, JoinIs
  <2> QED
    BY <2>6, <2>10 DEF DeskStep, S!Next
<1> QED
  BY <1>4, <1>10, <1>11

\* An open order's amount goes back, whatever ended it.
LEMMA ReleaseStep ==
  ASSUME Inv, NEW o \in Order, NEW status \in {"cancelled", "expired"},
         orders[o].status = "open", releaseOrderTokens(o, status),
         UNCHANGED <<wallets, pending>>
  PROVE  DeskStep
<1>1. TypeOK /\ OrdersOK /\ DeskBacked /\ balances \in Balances
  BY DEF Inv, TypeOK, Balances
<1>2. orders[o] # NoOrder /\ orders[o] \in OTCOrder
  BY <1>1, NoOrderFacts, OrderFacts
<1> PICK open \in OTCOrder : orders[o] = open
  BY <1>2
<1> DEFINE order == [open EXCEPT !.status = status]
           bal == Moved(balances, open.offered, Desk, open.creator, open.amountOffered)
<1>3. /\ order \in OTCOrder /\ order.status = status
      /\ order.matchedWith = open.matchedWith /\ order.creator = open.creator
      /\ order.offered = open.offered /\ order.amountOffered = open.amountOffered
      /\ order.requested = open.requested /\ order.amountRequested = open.amountRequested
      /\ open.offered \in Token /\ open.amountOffered \in Nat /\ open.status = "open"
      /\ open.creator \in Account /\ open.creator # Desk
  BY Accounts DEF OTCOrder, OrderStatus
<1>4. \A t \in Token :
        /\ Due(t, open) = IF open.offered = t THEN open.amountOffered ELSE 0
        /\ Due(t, order) = 0
        /\ balances[t][Desk] >= Due(t, open)
        /\ balances[t][Desk] \in Nat /\ Due(t, open) \in Nat
  BY <1>1, <1>3, Payable DEF Due
<1>5. balances[open.offered][Desk] >= open.amountOffered
  BY <1>3, <1>4
<1>6. balances' = bal /\ orders' = [orders EXCEPT ![o] = order]
  BY <1>5 DEF releaseOrderTokens
<1>7. /\ OfferOf(open) = [state |-> "offered", creator |-> open.creator,
           other |-> open.matchedWith, gives |-> open.offered,
           amountGiven |-> open.amountOffered, takes |-> open.requested,
           amountTaken |-> open.amountRequested]
      /\ OfferOf(order) = [state |-> "withdrawn", creator |-> open.creator,
           other |-> open.matchedWith, gives |-> open.offered,
           amountGiven |-> open.amountOffered, takes |-> open.requested,
           amountTaken |-> open.amountRequested]
  BY <1>3, OfferOfOrder
<1> HIDE DEF order
<1>8. /\ bal \in Balances
      /\ \A t \in Token :
           bal[t][Desk] = balances[t][Desk] - (IF t = open.offered THEN open.amountOffered ELSE 0)
  BY <1>1, <1>3, <1>5, PaidByDesk
<1>9. S!Moved(balances, open.offered, Desk, open.creator, open.amountOffered) = bal
  BY DEF S!Moved, Moved
<1> HIDE DEF bal
<1>10. \A t \in Token : balances'[t][Desk] - Due(t, order)
                          >= balances[t][Desk] - Due(t, orders[o])
  BY <1>3, <1>4, <1>6, <1>8
<1>11. TypeOK' /\ DeskBacked'
  BY <1>1, <1>3, <1>6, <1>8, <1>10, TypesStep, BackedStep
<1>12. Offers[o] = OfferOf(open) /\ Offers' = [Offers EXCEPT ![o] = OfferOf(order)]
  BY <1>1, <1>6, OffersStep
<1>13. /\ OfferOf(order) = [OfferOf(open) EXCEPT !.state = "withdrawn"]
       /\ OfferOf(open).state = "offered" /\ OfferOf(open).gives = open.offered
       /\ OfferOf(open).creator = open.creator
       /\ OfferOf(open).amountGiven = open.amountOffered
  BY <1>7
<1>14. S!Withdraw(o)
  BY <1>6, <1>9, <1>12, <1>13, WithdrawIs
<1> QED
  BY <1>11, <1>14 DEF DeskStep, S!Next

LEMMA SignStep ==
  ASSUME Inv, NEW o \in Order, NEW signer \in User, SignOrder(o, signer),
         UNCHANGED <<wallets, pending>>
  PROVE  DeskStep
<1>1. TypeOK /\ OrdersOK /\ DeskBacked /\ balances \in Balances
  BY DEF Inv, TypeOK, Balances
<1>2. orders[o] # NoOrder /\ orders[o] \in OTCOrder /\ orders[o].status = "matched"
  BY <1>1, NoOrderFacts, OrderFacts DEF SignOrder
<1> PICK joined \in OTCOrder : orders[o] = joined
  BY <1>2
<1> DEFINE order == [joined EXCEPT !.signatures = @ \cup {signer}]
<1>3. /\ order \in OTCOrder /\ order.status = "matched" /\ joined.status = "matched"
      /\ order.matchedWith = joined.matchedWith /\ order.creator = joined.creator
      /\ order.offered = joined.offered /\ order.amountOffered = joined.amountOffered
      /\ order.requested = joined.requested /\ order.amountRequested = joined.amountRequested
  BY <1>2 DEF OTCOrder
<1>4. \/ completeOrder(o, order, balances)
      \/ orders' = [orders EXCEPT ![o] = order] /\ UNCHANGED balances
  BY DEF SignOrder
<1>5. /\ OfferOf(joined) = [state |-> "joined", creator |-> joined.creator,
           other |-> joined.matchedWith, gives |-> joined.offered,
           amountGiven |-> joined.amountOffered, takes |-> joined.requested,
           amountTaken |-> joined.amountRequested]
      /\ OfferOf(order) = OfferOf(joined)
  BY <1>3, OfferOfOrder
<1>6. \A t \in Token :
        /\ Due(t, order) = Due(t, joined)
        /\ balances[t][Desk] >= Due(t, joined)
        /\ balances[t][Desk] \in Nat /\ Due(t, joined) \in Nat
  BY <1>1, <1>3, Payable DEF Due
<1> HIDE DEF order
<1>7. CASE orders' = [orders EXCEPT ![o] = order] /\ UNCHANGED balances
  BY <1>2, <1>3, <1>5, <1>6, <1>7, SameOffer
<1>8. CASE completeOrder(o, order, balances)
  <2> DEFINE done == [order EXCEPT !.status = "completed"]
             both == Moved(Moved(balances, joined.offered, Desk, joined.matchedWith,
                                 joined.amountOffered),
                           joined.requested, Desk, joined.creator, joined.amountRequested)
  <2>1. /\ balances' = both /\ orders' = [orders EXCEPT ![o] = done]
        /\ balances' \in Balances
        /\ \A t \in Token : balances'[t][Desk] = balances[t][Desk] - Due(t, order)
    BY <1>1, <1>3, <1>6, <1>8, CompleteFacts
  <2>2. /\ done \in OTCOrder /\ done.status = "completed" /\ \A t \in Token : Due(t, done) = 0
        /\ done.matchedWith = joined.matchedWith /\ done.creator = joined.creator
        /\ done.offered = joined.offered /\ done.amountOffered = joined.amountOffered
        /\ done.requested = joined.requested /\ done.amountRequested = joined.amountRequested
    BY <1>3 DEF OTCOrder, OrderStatus, Due
  <2> HIDE DEF done
  <2>3. OfferOf(done) = [OfferOf(joined) EXCEPT !.state = "exchanged"]
    <3>1. OfferOf(done) = [state |-> "exchanged", creator |-> joined.creator,
            other |-> joined.matchedWith, gives |-> joined.offered,
            amountGiven |-> joined.amountOffered, takes |-> joined.requested,
            amountTaken |-> joined.amountRequested]
      BY <2>2, OfferOfOrder
    <3> QED
      BY <1>5, <3>1
  <2>4. \A t \in Token : balances'[t][Desk] - Due(t, done)
                           >= balances[t][Desk] - Due(t, orders[o])
    BY <1>6, <2>1, <2>2
  <2>5. TypeOK' /\ DeskBacked'
    BY <1>1, <2>1, <2>2, <2>4, TypesStep, BackedStep
  <2>6. Offers[o] = OfferOf(joined) /\ Offers' = [Offers EXCEPT ![o] = OfferOf(done)]
    BY <1>1, <2>1, OffersStep
  <2>7. S!Exchanged(balances, OfferOf(joined)) = both
    BY <1>5 DEF S!Exchanged, S!Moved, Moved
  <2> HIDE DEF both
  <2>8. S!Exchange(o)
    <3>1. OfferOf(joined).state = "joined"
      BY <1>5
    <3> QED
      BY <2>1, <2>3, <2>6, <2>7, <3>1, ExchangeIs
  <2> QED
    BY <2>5, <2>8 DEF DeskStep, S!Next
<1> QED
  BY <1>4, <1>7, <1>8

LEMMA ExpireStep ==
  ASSUME Inv, NEW o \in Order, ExpireOrder(o), UNCHANGED <<wallets, pending>>
  PROVE  DeskStep
<1>1. orders[o] # NoOrder /\ orders[o] \in OTCOrder
  BY NoOrderFacts, OrderFacts DEF Inv, TypeOK, ExpireOrder
<1> PICK open \in OTCOrder : orders[o] = open
  BY <1>1
<1> DEFINE order == [open EXCEPT !.expired = TRUE]
<1>2. /\ order \in OTCOrder /\ order.status = open.status
      /\ order.matchedWith = open.matchedWith /\ order.creator = open.creator
      /\ order.offered = open.offered /\ order.amountOffered = open.amountOffered
      /\ order.requested = open.requested /\ order.amountRequested = open.amountRequested
  BY DEF OTCOrder
<1>3. orders' = [orders EXCEPT ![o] = order] /\ UNCHANGED balances
  BY DEF ExpireOrder
<1> HIDE DEF order
<1>4. OfferOf(order) = OfferOf(open)
  BY <1>2, OfferOfOrder
<1>5. \A t \in Token : Due(t, order) = Due(t, open)
  BY <1>2 DEF Due
<1> QED
  BY <1>1, <1>2, <1>3, <1>4, <1>5, SameOffer

LEMMA TradeStep ==
  ASSUME Inv, NEW o \in Order, Trade(o)
  PROVE  DeskStep
<1>1. UNCHANGED <<wallets, pending>>
  BY DEF Trade
<1>2. ASSUME NEW counterparty \in User, MatchOrder(o, counterparty)
      PROVE  DeskStep
  BY <1>1, <1>2, MatchStep, ReleaseStep DEF MatchOrder
<1>3. ASSUME NEW canceller \in User, CancelOrder(o, canceller)
      PROVE  DeskStep
  BY <1>1, <1>3, ReleaseStep DEF CancelOrder
<1>4. CASE ProcessExpiredOrders(o)
  BY <1>1, <1>4, ReleaseStep DEF ProcessExpiredOrders
<1> QED
  BY <1>1, <1>2, <1>3, <1>4, CreateStep, SignStep, ExpireStep DEF Trade, OTCStep
-----------------------------------------------------------------------------
\* Balances that may be overdrawn: what a transfer leaves alone does not depend
\* on what the payer has.
Books == [Token -> [Account -> Int]]

\* A payment between others.
LEMMA MovedAway ==
  ASSUME NEW bal \in Books, NEW t \in Token, NEW from \in Account,
         NEW to \in Account, NEW amount \in Int, NEW a \in Account, a # from, a # to
  PROVE  /\ Moved(bal, t, from, to, amount) \in Books
         /\ \A s \in Token : Moved(bal, t, from, to, amount)[s][a] = bal[s][a]
<1> DEFINE less == [bal EXCEPT ![t][from] = @ - amount]
           more == [less EXCEPT ![t][to] = @ + amount]
<1>1. less \in Books
  <2>1. bal[t] \in [Account -> Int] /\ bal[t][from] \in Int
    BY DEF Books
  <2>2. [bal[t] EXCEPT ![from] = @ - amount] \in [Account -> Int]
    BY <2>1
  <2>3. less = [bal EXCEPT ![t] = [bal[t] EXCEPT ![from] = @ - amount]]
    OBVIOUS
  <2> QED
    BY <2>2, <2>3 DEF Books
<1>2. \A s \in Token : less[s][a] = bal[s][a]
  BY DEF Books
<1> HIDE DEF less
<1>3. more \in Books
  <2>1. less[t] \in [Account -> Int] /\ less[t][to] \in Int
    BY <1>1 DEF Books
  <2>2. [less[t] EXCEPT ![to] = @ + amount] \in [Account -> Int]
    BY <2>1
  <2>3. more = [less EXCEPT ![t] = [less[t] EXCEPT ![to] = @ + amount]]
    OBVIOUS
  <2> QED
    BY <1>1, <2>2, <2>3 DEF Books
<1>4. \A s \in Token : more[s][a] = less[s][a]
  BY <1>1 DEF Books
<1> QED
  BY <1>2, <1>3, <1>4 DEF Moved, less

\* The desk's payments to users reach no wallet.
LEMMA DeskPays ==
  ASSUME NEW bal \in Books, NEW t \in Token, NEW to \in User, NEW amount \in Nat,
         NEW a \in Address
  PROVE  /\ Moved(bal, t, Desk, to, amount) \in Books
         /\ \A s \in Token : Moved(bal, t, Desk, to, amount)[s][a] = bal[s][a]
<1>1. Desk \in Account /\ to \in Account /\ a \in Account /\ a # Desk /\ a # to
      /\ amount \in Int
  BY Accounts
<1> QED
  BY <1>1, MovedAway

LEMMA CompleteAway ==
  ASSUME NEW o, NEW order \in OTCOrder, NEW bal \in Books,
         completeOrder(o, order, bal), NEW t \in Token, NEW a \in Address
  PROVE  balances'[t][a] = bal[t][a]
<1> DEFINE paid == Moved(bal, order.offered, Desk, order.matchedWith, order.amountOffered)
           both == Moved(paid, order.requested, Desk, order.creator, order.amountRequested)
<1>1. /\ order.offered \in Token /\ order.requested \in Token
      /\ order.amountOffered \in Nat /\ order.amountRequested \in Nat
      /\ order.matchedWith \in User /\ order.creator \in User
  BY DEF OTCOrder
<1>2. balances' = bal \/ balances' = paid \/ balances' = both
  BY DEF completeOrder
<1>3. paid \in Books /\ \A s \in Token : paid[s][a] = bal[s][a]
  BY <1>1, DeskPays
<1> HIDE DEF paid
<1>4. both \in Books /\ \A s \in Token : both[s][a] = paid[s][a]
  BY <1>1, <1>3, DeskPays
<1> HIDE DEF both
<1> QED
  BY <1>2, <1>3, <1>4

LEMMA ReleaseAway ==
  ASSUME TypeOK, NEW o \in Order, orders[o] # NoOrder, NEW status,
         releaseOrderTokens(o, status), NEW t \in Token, NEW a \in Address
  PROVE  balances'[t][a] = balances[t][a]
<1> PICK open \in OTCOrder : orders[o] = open
  BY OrderFacts DEF TypeOK
<1>1. /\ open.offered \in Token /\ open.amountOffered \in Int /\ open.creator \in Account
      /\ Desk \in Account /\ a \in Account /\ a # Desk /\ a # open.creator
      /\ balances \in Books
  BY Accounts DEF OTCOrder, TypeOK, Books
<1>2. Moved(balances, open.offered, Desk, open.creator, open.amountOffered)[t][a] = balances[t][a]
  BY <1>1, MovedAway
<1> QED
  BY <1>2 DEF releaseOrderTokens

\* The desk debits no wallet.
LEMMA TradeDebits ==
  ASSUME Inv, NEW o \in Order, Trade(o)
  PROVE  DebitsSigned
<1>1. TypeOK /\ balances \in Books /\ UNCHANGED <<wallets, pending>>
  BY DEF Inv, TypeOK, Trade, Books
<1> SUFFICES ASSUME NEW t \in Token, NEW a \in Address
             PROVE  balances'[t][a] = balances[t][a]
  <2>1. \A x \in Tx : pending'[x] = pending[x]
    BY <1>1
  <2>2. \A t \in Token, a \in Address : balances[t][a] \in Nat
    BY Accounts DEF Inv, TypeOK
  <2> QED
    BY <2>1, <2>2 DEF DebitsSigned, SignedDebit
<1>2. ASSUME NEW from \in User, NEW s \in Token, NEW amount \in Int
      PROVE  Moved(balances, s, from, Desk, amount) \in Books
             /\ Moved(balances, s, from, Desk, amount)[t][a] = balances[t][a]
  <2>1. from \in Account /\ Desk \in Account /\ a \in Account /\ a # from /\ a # Desk
    BY Accounts
  <2> QED
    BY <1>1, <2>1, MovedAway
<1>3. ASSUME NEW creator \in User, NEW offered \in Token, NEW requested \in Token,
             NEW amountOffered \in Amount, NEW amountRequested \in Amount,
             NEW signers \in SUBSET User, NEW needed \in 0 .. MaxSigners,
             CreateOrder(o, creator, offered, amountOffered, requested, amountRequested,
                         signers, needed)
      PROVE  balances'[t][a] = balances[t][a]
  BY <1>2, <1>3, Accounts DEF CreateOrder, Transfer
<1>4. ASSUME orders[o].status = "open", NEW status, releaseOrderTokens(o, status)
      PROVE  balances'[t][a] = balances[t][a]
  BY <1>1, <1>4, NoOrderFacts, ReleaseAway
<1>5. ASSUME NEW counterparty \in User, MatchOrder(o, counterparty)
      PROVE  balances'[t][a] = balances[t][a]
  <2>1. orders[o] # NoOrder /\ orders[o] \in OTCOrder
    BY <1>1, <1>5, NoOrderFacts, OrderFacts DEF MatchOrder, TypeOK
  <2> PICK open \in OTCOrder : orders[o] = open
    BY <2>1
  <2> DEFINE order == [open EXCEPT !.status = "matched", !.matchedWith = counterparty]
             bal == Moved(balances, open.requested, counterparty, Desk, open.amountRequested)
  <2>2. order \in OTCOrder
    BY DEF OTCOrder, OrderStatus
  <2>6. open.requested \in Token /\ open.amountRequested \in Int
    BY DEF OTCOrder
  <2>3. bal \in Books /\ bal[t][a] = balances[t][a]
    BY <1>2, <2>6
  <2>4. CASE releaseOrderTokens(o, "expired")
    BY <1>4, <1>5, <2>4 DEF MatchOrder
  <2>5. CASE Match(o, counterparty)
    <3>1. balances' = bal \/ completeOrder(o, order, bal)
      BY <2>5 DEF Match
    <3> HIDE DEF bal, order
    <3> QED
      BY <2>2, <2>3, <3>1, CompleteAway
  <2> QED
    BY <1>5, <2>4, <2>5 DEF MatchOrder
<1>6. ASSUME NEW signer \in User, SignOrder(o, signer)
      PROVE  balances'[t][a] = balances[t][a]
  <2>1. orders[o] # NoOrder /\ orders[o] \in OTCOrder
    BY <1>1, <1>6, NoOrderFacts, OrderFacts DEF SignOrder, TypeOK
  <2> PICK joined \in OTCOrder : orders[o] = joined
    BY <2>1
  <2> DEFINE order == [joined EXCEPT !.signatures = @ \cup {signer}]
  <2>2. order \in OTCOrder
    BY DEF OTCOrder
  <2>3. UNCHANGED balances \/ completeOrder(o, order, balances)
    BY <1>6 DEF SignOrder
  <2> HIDE DEF order
  <2> QED
    BY <1>1, <2>2, <2>3, CompleteAway
<1>7. CASE ExpireOrder(o)
  BY <1>7 DEF ExpireOrder
<1> QED
  BY <1>3, <1>4, <1>5, <1>6, <1>7 DEF Trade, OTCStep, CancelOrder, ProcessExpiredOrders
-----------------------------------------------------------------------------
\* What every step of the wallets and of the users has to show.
OtherStep == Inv' /\ S!Elsewhere /\ DebitsSigned

LEMMA WalletFacts ==
  /\ NoWallet \notin MultiSigWallet /\ NoTx \notin PendingTransaction
  /\ \A x \in Tx : TypeOK /\ pending[x] # NoTx => pending[x] \in PendingTransaction
  /\ \A w \in Wallet : TypeOK /\ wallets[w] # NoWallet => wallets[w] \in MultiSigWallet
<1>1. NoWallet \notin MultiSigWallet
  <2>1. \A w \in MultiSigWallet : w.nonce \in Nat
    BY DEF MultiSigWallet
  <2> QED
    BY <2>1 DEF NoWallet
<1>2. NoTx \notin PendingTransaction
  <2>1. \A x \in PendingTransaction : x.amount \in Nat
    BY DEF PendingTransaction
  <2> QED
    BY <2>1 DEF NoTx
<1> QED
  BY <1>1, <1>2 DEF TypeOK, WalletsOK

\* Nothing is taken off the desk's account, and its orders stay as they are.
LEMMA BackedElsewhere ==
  ASSUME Inv, UNCHANGED orders, balances' \in Balances,
         \A t \in Token : balances'[t][Desk] >= balances[t][Desk]
  PROVE  OrdersOK' /\ DeskBacked' /\ S!Elsewhere
<1>1. ASSUME NEW t \in Token
      PROVE  balances'[t][Desk] >= Total([o \in Order |-> Due(t, orders[o])])
  <2>1. Total(Debts(t)) \in Nat
    BY DebtsType DEF Inv, TypeOK
  <2>2. balances[t][Desk] >= Total(Debts(t))
    BY DEF Inv, DeskBacked, Debts
  <2>3. balances[t][Desk] \in Nat /\ balances'[t][Desk] \in Nat
    BY Accounts DEF Inv, TypeOK, Balances
  <2>4. balances'[t][Desk] >= Total(Debts(t))
    BY <2>1, <2>2, <2>3
  <2> QED
    BY <2>4 DEF Debts
<1>2. DeskBacked'
  BY <1>1 DEF DeskBacked
<1>3. S!Elsewhere
  BY DEF S!Elsewhere
<1> QED
  BY <1>2, <1>3 DEF Inv, TypeOK, OrdersOK

\* A transaction that is not executed yet becomes tx, which its wallet's owners
\* have signed; of wallets only the nonces change.
LEMMA PendingStep ==
  ASSUME Inv, NEW x \in Tx, ~Executed(x), NEW tx \in PendingTransaction,
         pending' = [pending EXCEPT ![x] = tx],
         wallets' \in [Wallet -> MultiSigWallet \cup {NoWallet}],
         \A w \in Wallet : wallets[w] # NoWallet =>
           /\ wallets'[w] # NoWallet
           /\ wallets'[w].owners = wallets[w].owners
           /\ wallets'[w].required = wallets[w].required,
         wallets[tx.wallet] # NoWallet,
         tx.signatures \subseteq wallets[tx.wallet].owners,
         tx.required = wallets[tx.wallet].required
  PROVE  /\ WalletsOK' /\ Signed'
         /\ \A y \in Tx : Executed(y) => pending'[y] = pending[y]
<1>1. \A y \in Tx : pending'[y] = IF y = x THEN tx ELSE pending[y]
  BY DEF Inv, TypeOK, WalletsOK
<1>2. WalletsOK'
  BY <1>1 DEF Inv, TypeOK, WalletsOK
<1>3. ASSUME NEW y \in Tx, pending'[y] # NoTx
      PROVE  /\ wallets'[pending'[y].wallet] # NoWallet
             /\ pending'[y].signatures \subseteq wallets'[pending'[y].wallet].owners
             /\ pending'[y].required = wallets'[pending'[y].wallet].required
  <2>1. CASE y = x
    <3>1. tx.wallet \in Wallet /\ pending'[y] = tx
      BY <1>1, <2>1 DEF PendingTransaction
    <3> QED
      BY <3>1
  <2>2. CASE y # x
    <3>1. pending'[y] = pending[y] /\ pending[y] # NoTx
      BY <1>1, <1>3, <2>2
    <3>2. pending[y].wallet \in Wallet
      BY <3>1, WalletFacts DEF Inv, PendingTransaction
    <3>3. /\ wallets[pending[y].wallet] # NoWallet
          /\ pending[y].signatures \subseteq wallets[pending[y].wallet].owners
          /\ pending[y].required = wallets[pending[y].wallet].required
      BY <3>1 DEF Inv, Signed
    <3> QED
      BY <3>1, <3>2, <3>3
  <2> QED
    BY <2>1, <2>2
<1>4. Signed'
  BY <1>3 DEF Signed
<1> QED
  BY <1>1, <1>2, <1>4

\* A step that debits neither the desk nor a wallet.
LEMMA CreditStep ==
  ASSUME Inv, UNCHANGED orders, balances' \in Balances,
         \A t \in Token, a \in Address \cup {Desk} : balances'[t][a] >= balances[t][a],
         WalletsOK', Signed', \A x \in Tx : Executed(x) => pending'[x] = pending[x]
  PROVE  OtherStep
<1>1. OrdersOK' /\ DeskBacked' /\ S!Elsewhere
  BY BackedElsewhere
<1>2. \A t \in Token, a \in Address : balances[t][a] \in Nat /\ balances'[t][a] \in Nat
  BY Accounts DEF Inv, TypeOK, Balances
<1>3. DebitsSigned
  BY <1>2 DEF DebitsSigned, SignedDebit
<1> QED
  BY <1>1, <1>3 DEF OtherStep, Inv, TypeOK, Balances

LEMMA QuietStep ==
  ASSUME Inv, UNCHANGED <<balances, orders>>, WalletsOK', Signed',
         \A x \in Tx : Executed(x) => pending'[x] = pending[x]
  PROVE  OtherStep
<1>1. balances' \in Balances
  BY DEF Inv, TypeOK, Balances
<1>2. \A t \in Token, a \in Address \cup {Desk} : balances'[t][a] >= balances[t][a]
  BY Accounts DEF Inv, TypeOK
<1> QED
  BY <1>1, <1>2, CreditStep

LEMMA CreateWalletStep ==
  ASSUME Inv, NEW w \in Wallet, NEW address \in Address, NEW owners \in SUBSET User,
         NEW required \in 1 .. MaxOwners,
         CreateMultiSigWallet(w, address, owners, required), UNCHANGED orders
  PROVE  OtherStep
<1> DEFINE wallet == [address |-> address, owners |-> owners, required |-> required,
                      nonce |-> 0]
<1>1. wallet \in MultiSigWallet /\ wallet # NoWallet
  <2>1. wallet \in MultiSigWallet
    BY DEF MultiSigWallet
  <2> QED
    BY <2>1, WalletFacts
<1>2. /\ wallets[w] = NoWallet /\ wallets' = [wallets EXCEPT ![w] = wallet]
      /\ UNCHANGED <<balances, pending>>
  BY DEF CreateMultiSigWallet
<1> HIDE DEF wallet
<1>3. WalletsOK'
  BY <1>1, <1>2 DEF Inv, TypeOK, WalletsOK
<1>4. ASSUME NEW x \in Tx, pending[x] # NoTx
      PROVE  wallets'[pending[x].wallet] = wallets[pending[x].wallet]
  <2>1. wallets[pending[x].wallet] # NoWallet
    BY <1>4 DEF Inv, Signed
  <2>2. pending[x].wallet \in Wallet /\ pending[x].wallet # w
    BY <1>2, <1>4, <2>1, WalletFacts DEF Inv, PendingTransaction
  <2> QED
    BY <1>2, <2>2 DEF Inv, TypeOK, WalletsOK
<1>5. Signed'
  BY <1>2, <1>4 DEF Inv, Signed
<1> QED
  BY <1>2, <1>3, <1>5, QuietStep

LEMMA ProposeStep ==
  ASSUME Inv, NEW x \in Tx, NEW w \in Wallet, NEW proposer \in User, NEW to \in Account,
         NEW t \in Token, NEW amount \in Amount,
         ProposeTransaction(x, w, proposer, to, t, amount), UNCHANGED orders
  PROVE  OtherStep
<1> DEFINE tx == [wallet |-> w, to |-> to, token |-> t, amount |-> amount,
                  signatures |-> {proposer}, required |-> wallets[w].required,
                  expired |-> FALSE, executed |-> FALSE]
<1>1. wallets[w] # NoWallet /\ proposer \in wallets[w].owners /\ pending[x] = NoTx
  BY DEF ProposeTransaction
<1>2. tx \in PendingTransaction
  <2>1. wallets[w].required \in 1 .. MaxOwners
    BY <1>1, WalletFacts DEF Inv, MultiSigWallet
  <2>2. amount \in Nat
    BY Accounts
  <2> QED
    BY <2>1, <2>2 DEF PendingTransaction
<1>3. /\ tx.wallet = w /\ tx.signatures \subseteq wallets[w].owners
      /\ tx.required = wallets[w].required
  BY <1>1
<1>4. pending' = [pending EXCEPT ![x] = tx] /\ UNCHANGED <<balances, wallets>>
  BY DEF ProposeTransaction
<1> HIDE DEF tx
<1>5. wallets' \in [Wallet -> MultiSigWallet \cup {NoWallet}]
  BY <1>4 DEF Inv, TypeOK, WalletsOK
<1>6. ~Executed(x)
  BY <1>1 DEF Executed
<1>7. WalletsOK' /\ Signed' /\ \A y \in Tx : Executed(y) => pending'[y] = pending[y]
  BY <1>1, <1>2, <1>3, <1>4, <1>5, <1>6, PendingStep
<1> QED
  BY <1>4, <1>7, QuietStep

LEMMA TxClockStep ==
  ASSUME Inv, NEW x \in Tx, ExpireTransaction(x), UNCHANGED orders
  PROVE  OtherStep
<1>1. pending[x] # NoTx /\ pending[x] \in PendingTransaction /\ ~Executed(x)
  BY WalletFacts DEF Inv, ExpireTransaction, Executed
<1> PICK old \in PendingTransaction : pending[x] = old
  BY <1>1
<1> DEFINE tx == [old EXCEPT !.expired = TRUE]
<1>2. /\ tx \in PendingTransaction /\ tx.wallet = old.wallet
      /\ tx.signatures = old.signatures /\ tx.required = old.required
  BY DEF PendingTransaction
<1>3. pending' = [pending EXCEPT ![x] = tx] /\ UNCHANGED <<balances, wallets>>
  BY DEF ExpireTransaction
<1> HIDE DEF tx
<1>4. /\ wallets[tx.wallet] # NoWallet
      /\ tx.signatures \subseteq wallets[tx.wallet].owners
      /\ tx.required = wallets[tx.wallet].required
  BY <1>1, <1>2 DEF Inv, Signed
<1>5. wallets' \in [Wallet -> MultiSigWallet \cup {NoWallet}]
  BY <1>3 DEF Inv, TypeOK, WalletsOK
<1>6. WalletsOK' /\ Signed' /\ \A y \in Tx : Executed(y) => pending'[y] = pending[y]
  BY <1>1, <1>2, <1>3, <1>4, <1>5, PendingStep
<1> QED
  BY <1>3, <1>6, QuietStep

LEMMA CleanupStep ==
  ASSUME Inv, CleanupExpiredTransactions, UNCHANGED orders
  PROVE  OtherStep
<1>1. UNCHANGED <<balances, wallets>>
  BY DEF CleanupExpiredTransactions
<1>2. \A x \in Tx : pending'[x] = pending[x] \/ (pending'[x] = NoTx /\ ~Executed(x))
  BY DEF CleanupExpiredTransactions, Executed
<1>3. WalletsOK'
  <2>1. \A x \in Tx : pending'[x] \in PendingTransaction \cup {NoTx}
    BY <1>2 DEF Inv, TypeOK, WalletsOK
  <2>2. pending' = [x \in Tx |-> pending'[x]]
    BY DEF CleanupExpiredTransactions
  <2> QED
    BY <1>1, <2>1, <2>2 DEF Inv, TypeOK, WalletsOK
<1>4. Signed'
  BY <1>1, <1>2 DEF Inv, Signed
<1> QED
  BY <1>1, <1>2, <1>3, <1>4, QuietStep

LEMMA SignTransactionStep ==
  ASSUME Inv, NEW x \in Tx, NEW signer \in User, SignTransaction(x, signer),
         UNCHANGED orders
  PROVE  OtherStep
<1>1. pending[x] # NoTx /\ pending[x] \in PendingTransaction /\ ~Executed(x)
  BY WalletFacts DEF Inv, SignTransaction, Executed
<1> PICK old \in PendingTransaction : pending[x] = old
  BY <1>1
<1> PICK w \in Wallet : old.wallet = w
  BY DEF PendingTransaction
<1>2. /\ wallets[w] # NoWallet /\ old.signatures \subseteq wallets[w].owners
      /\ old.required = wallets[w].required /\ signer \in wallets[w].owners
  BY <1>1 DEF Inv, Signed, SignTransaction
<1> PICK wallet \in MultiSigWallet : wallets[w] = wallet
  BY <1>2, WalletFacts DEF Inv
<1> DEFINE tx == [old EXCEPT !.signatures = @ \cup {signer}]
           done == [tx EXCEPT !.executed = TRUE]
<1>3. /\ tx \in PendingTransaction /\ tx.wallet = w /\ tx.required = old.required
      /\ tx.signatures = old.signatures \cup {signer}
      /\ tx.token = old.token /\ tx.to = old.to /\ tx.amount = old.amount
  BY DEF PendingTransaction
<1>4. IF Cardinality(tx.signatures) >= tx.required
      THEN executeTransaction(x, tx)
      ELSE pending' = [pending EXCEPT ![x] = tx] /\ UNCHANGED <<balances, wallets>>
  BY DEF SignTransaction
<1> HIDE DEF tx
<1>5. /\ done \in PendingTransaction /\ done.wallet = w /\ done.required = tx.required
      /\ done.signatures = tx.signatures /\ done.executed
      /\ done.token = tx.token /\ done.to = tx.to /\ done.amount = tx.amount
  BY <1>3 DEF PendingTransaction
<1>6. /\ wallets[tx.wallet] # NoWallet
      /\ tx.signatures \subseteq wallets[tx.wallet].owners
      /\ tx.required = wallets[tx.wallet].required
  BY <1>2, <1>3
<1>7. CASE pending' = [pending EXCEPT ![x] = tx] /\ UNCHANGED <<balances, wallets>>
  <2>1. wallets' \in [Wallet -> MultiSigWallet \cup {NoWallet}]
    BY <1>7 DEF Inv, TypeOK, WalletsOK
  <2>2. WalletsOK' /\ Signed' /\ \A y \in Tx : Executed(y) => pending'[y] = pending[y]
    BY <1>1, <1>3, <1>6, <1>7, <2>1, PendingStep
  <2> QED
    BY <1>7, <2>2, QuietStep
<1>8. CASE /\ Cardinality(tx.signatures) >= tx.required
           /\ balances[tx.token][wallets[tx.wallet].address] >= tx.amount
           /\ executeTransaction(x, tx)
  <2> DEFINE more == [wallet EXCEPT !.nonce = @ + 1]
             bal == Moved(balances, tx.token, wallet.address, tx.to, tx.amount)
  <2>1. /\ more \in MultiSigWallet /\ more.owners = wallet.owners
        /\ more.required = wallet.required /\ more # NoWallet
    <3>1. /\ more \in MultiSigWallet /\ more.owners = wallet.owners
          /\ more.required = wallet.required
      BY DEF MultiSigWallet
    <3> QED
      BY <3>1, WalletFacts
  <2>2. /\ balances' = bal /\ wallets' = [wallets EXCEPT ![w] = more]
        /\ pending' = [pending EXCEPT ![x] = done]
    BY <1>3, <1>8 DEF executeTransaction
  <2>3. balances[tx.token][wallet.address] >= tx.amount
    BY <1>3, <1>8
  <2> HIDE DEF done, more
  <2>4. wallets' \in [Wallet -> MultiSigWallet \cup {NoWallet}]
    BY <2>1, <2>2 DEF Inv, TypeOK, WalletsOK
  <2>5. \A v \in Wallet : wallets[v] # NoWallet =>
          /\ wallets'[v] # NoWallet
          /\ wallets'[v].owners = wallets[v].owners
          /\ wallets'[v].required = wallets[v].required
    <3>1. \A v \in Wallet : wallets'[v] = IF v = w THEN more ELSE wallets[v]
      BY <2>2 DEF Inv, TypeOK, WalletsOK
    <3> QED
      BY <2>1, <3>1
  <2>6. WalletsOK' /\ Signed' /\ \A y \in Tx : Executed(y) => pending'[y] = pending[y]
    <3>1. /\ wallets[done.wallet] # NoWallet
          /\ done.signatures \subseteq wallets[done.wallet].owners
          /\ done.required = wallets[done.wallet].required
      BY <1>3, <1>5, <1>6
    <3>2. done \in PendingTransaction
      BY <1>5
    <3> QED
      BY <1>1, <2>2, <2>4, <2>5, <3>1, <3>2, PendingStep
  <2>7. /\ tx.token \in Token /\ tx.amount \in Nat /\ tx.to \in Account
        /\ wallet.address \in Address /\ wallet.address \in Account
        /\ wallet.address # Desk /\ Desk \in Account /\ Address \subseteq Account
        /\ balances \in Balances
    BY <1>3, Accounts DEF PendingTransaction, MultiSigWallet, Inv, TypeOK, Balances
  <2>8. /\ bal \in Balances
        /\ \A s \in Token, a \in Account :
             bal[s][a] = balances[s][a]
               + (IF s = tx.token /\ a = tx.to THEN tx.amount ELSE 0)
               - (IF s = tx.token /\ a = wallet.address THEN tx.amount ELSE 0)
    BY <2>3, <2>7, MovedFacts
  <2> HIDE DEF bal
  <2>9. \A s \in Token, a \in Account : balances[s][a] \in Nat
    BY <2>7 DEF Balances
  <2>10. \A s \in Token : balances'[s][Desk] >= balances[s][Desk]
    BY <2>2, <2>7, <2>8, <2>9
  <2>11. OrdersOK' /\ DeskBacked' /\ S!Elsewhere
    BY <2>2, <2>8, <2>10, BackedElsewhere
  <2>12. ASSUME NEW t \in Token, NEW a \in Address, balances'[t][a] < balances[t][a]
         PROVE  /\ wallet.address = a /\ tx.token = t
                /\ tx.amount = balances[t][a] - balances'[t][a]
    BY <2>2, <2>7, <2>8, <2>9, <2>12
  <2>13. pending'[x] = done /\ ~Executed(x) /\ Executed(x)'
    <3>1. pending'[x] = done
      BY <2>2 DEF Inv, TypeOK, WalletsOK
    <3>2. done # NoTx
      BY <1>5, WalletFacts
    <3> QED
      BY <1>1, <1>5, <3>1, <3>2 DEF Executed
  <2>14. /\ wallets[done.wallet] = wallet
         /\ done.signatures \subseteq wallet.owners
         /\ Cardinality(done.signatures) >= wallet.required
    BY <1>2, <1>3, <1>5, <1>6, <1>8
  <2>15. ASSUME NEW t \in Token, NEW a \in Address
         PROVE  SignedDebit(t, a)
    <3> SUFFICES ASSUME balances'[t][a] < balances[t][a]
                 PROVE  /\ wallets[pending'[x].wallet].address = a
                        /\ pending'[x].token = t
                        /\ pending'[x].amount = balances[t][a] - balances'[t][a]
                        /\ pending'[x].signatures \subseteq wallets[pending'[x].wallet].owners
                        /\ Cardinality(pending'[x].signatures)
                             >= wallets[pending'[x].wallet].required
      BY <2>13 DEF SignedDebit
    <3> QED
      BY <1>5, <2>12, <2>13, <2>14
  <2>16. DebitsSigned
    BY <2>6, <2>15 DEF DebitsSigned
  <2> QED
    BY <2>2, <2>6, <2>8, <2>11, <2>16 DEF OtherStep, Inv, TypeOK, Balances
<1> QED
  BY <1>4, <1>7, <1>8 DEF executeTransaction

LEMMA PayStep ==
  ASSUME Inv, NEW t \in Token, NEW from \in User, NEW to \in Account, NEW amount \in Amount,
         Pay(t, from, to, amount)
  PROVE  OtherStep
<1>1. /\ balances \in Balances /\ from \in Account /\ amount \in Nat
      /\ balances[t][from] >= amount
      /\ balances' = Moved(balances, t, from, to, amount)
      /\ UNCHANGED <<orders, wallets, pending>>
  BY Accounts DEF Inv, TypeOK, Balances, Pay, Transfer
<1>2. /\ balances' \in Balances
      /\ \A s \in Token, a \in Account :
           balances'[s][a] = balances[s][a]
             + (IF s = t /\ a = to THEN amount ELSE 0)
             - (IF s = t /\ a = from THEN amount ELSE 0)
  BY <1>1, MovedFacts
<1>3. \A s \in Token, a \in Account : balances[s][a] \in Nat
  BY <1>1 DEF Balances
<1>4. \A a \in Address \cup {Desk} : a \in Account /\ a # from
  BY Accounts
<1>5. \A s \in Token, a \in Address \cup {Desk} : balances'[s][a] >= balances[s][a]
  BY <1>1, <1>2, <1>3, <1>4
<1>6. /\ WalletsOK' /\ Signed' /\ \A x \in Tx : Executed(x) => pending'[x] = pending[x]
  BY <1>1 DEF Inv, TypeOK, WalletsOK, Signed
<1> QED
  BY <1>1, <1>2, <1>5, <1>6, CreditStep
-----------------------------------------------------------------------------
LEMMA InitInv == Init => Inv /\ S!Init
<1> SUFFICES ASSUME Init PROVE Inv /\ S!Init
  OBVIOUS
<1>1. TypeOK
  BY RegistryAssumption DEF Init, OTCInit, MultiSigInit, TypeOK, OrdersOK, WalletsOK
<1>2. ASSUME NEW t \in Token
      PROVE  balances[t][Desk] >= Total([o \in Order |-> Due(t, orders[o])])
  <2>1. Debts(t) \in [Order -> Nat] /\ \A o \in Order : Debts(t)[o] = 0
    BY NoOrderFacts DEF Debts, Due, Init, OTCInit
  <2>2. Total(Debts(t)) = 0
    BY <2>1, TotalZero
  <2>3. balances[t][Desk] \in Nat
    BY <1>1, Accounts DEF TypeOK
  <2>4. balances[t][Desk] >= Total(Debts(t))
    BY <2>2, <2>3
  <2> QED
    BY <2>4 DEF Debts
<1>3. DeskBacked
  BY <1>2 DEF DeskBacked
<1>4. Signed
  BY DEF Init, MultiSigInit, Signed
<1>5. S!Init
  BY DEF Init, OTCInit, S!Init, S!NoOffer, OfferOf
<1> QED
  BY <1>1, <1>3, <1>4, <1>5 DEF Inv

\* One step of the services: the invariant, the step of module Swap and the
\* wallets' debits together.
LEMMA ServicesStep == Inv /\ [Next]_vars => Inv' /\ [S!Next]_(S!vars) /\ [DebitsSigned]_vars
<1> SUFFICES ASSUME Inv, [Next]_vars
             PROVE  Inv' /\ [S!Next]_(S!vars) /\ [DebitsSigned]_vars
  OBVIOUS
<1>1. ASSUME OtherStep PROVE Inv' /\ [S!Next]_(S!vars) /\ DebitsSigned
  BY <1>1 DEF OtherStep, S!Next
<1>2. ASSUME NEW o \in Order, Trade(o)
      PROVE  Inv' /\ [S!Next]_(S!vars) /\ DebitsSigned
  <2>1. DeskStep /\ DebitsSigned
    BY <1>2, TradeStep, TradeDebits
  <2>2. Signed'
    BY <1>2 DEF Trade, Inv, Signed
  <2> QED
    BY <2>1, <2>2 DEF DeskStep, Inv
<1>3. CASE MultiSigStep /\ UNCHANGED orders
  <2>1. OtherStep
    BY <1>3, CreateWalletStep, ProposeStep, TxClockStep, SignTransactionStep, CleanupStep
       DEF MultiSigStep
  <2> QED
    BY <1>1, <2>1
<1>4. ASSUME NEW t \in Token, NEW from \in User, NEW to \in Account, NEW amount \in Amount,
             Pay(t, from, to, amount)
      PROVE  Inv' /\ [S!Next]_(S!vars) /\ DebitsSigned
  BY <1>1, <1>4, PayStep
<1>5. CASE UNCHANGED vars
  <2>1. Inv'
    BY <1>5 DEF vars, Inv, TypeOK, OrdersOK, WalletsOK, DeskBacked, Signed
  <2>2. UNCHANGED S!vars
    BY <1>5 DEF vars, S!vars
  <2> QED
    BY <1>5, <2>1, <2>2
<1> QED
  BY <1>2, <1>3, <1>4, <1>5 DEF Next

\* Balances, orders, wallets and pending transactions have their types: no
\* balance goes below zero, whoever moves it.
THEOREM ServicesTyped == Spec => []TypeOK
<1>1. Inv => TypeOK
  BY DEF Inv
<1> QED
  BY <1>1, InitInv, ServicesStep, PTL DEF Spec

\* The desk's account always covers what it owes for all its orders together.
THEOREM DeskIsBacked == Spec => []DeskBacked
<1>1. Inv => DeskBacked
  BY DEF Inv
<1> QED
  BY <1>1, InitInv, ServicesStep, PTL DEF Spec

\* A wallet's address is debited only by a transaction that enough of its
\* owners have signed, and once for each.
THEOREM DebitsAreSigned == Spec => SignedDebits
BY InitInv, ServicesStep, PTL DEF Spec, SignedDebits

\* The desk implements module Swap: both amounts of an order change hands in
\* one step, or the creator gets the offer back.
THEOREM ServicesIsSwap == Spec => IsSwap
BY InitInv, ServicesStep, PTL DEF Spec, IsSwap, S!Spec
=============================================================================
