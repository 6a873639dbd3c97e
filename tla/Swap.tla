-------------------------------- MODULE Swap --------------------------------
(***************************************************************************)
(* What the two sides of an over-the-counter order may expect, whatever    *)
(* the rules for matching, signing, cancelling and expiring are.  The      *)
(* offered amount is taken from the creator, and the requested one from a  *)
(* counterparty who joins.  Either both amounts change hands in one step,  *)
(* or the creator, whom nobody has joined, gets the offer back; and no     *)
(* order is settled twice.                                                 *)
(***************************************************************************)
EXTENDS Integers

CONSTANTS
  User,      \* those who make and join offers
  Desk,      \* the account that holds the amounts
  Token,     \* tokens
  Order,     \* offers
  Amount,    \* amounts that are offered, asked for or transferred
  Funds      \* what every account owns at the start

VARIABLES
  balances,  \* balances[t][a]: what a owns of t
  offers     \* of every offer: its state, sides and amounts

vars == <<balances, offers>>

NoOffer == [state |-> "none"]

Moved(bal, t, from, to, amount) ==
  LET less == [bal EXCEPT ![t][from] = @ - amount]
  IN  [less EXCEPT ![t][to] = @ + amount]

Init ==
  /\ balances = Funds
  /\ offers = [o \in Order |-> NoOffer]

Offer(o, creator, gives, amountGiven, takes, amountTaken) ==
  /\ offers[o] = NoOffer
  /\ balances[gives][creator] >= amountGiven
  /\ balances' = Moved(balances, gives, creator, Desk, amountGiven)
  /\ offers' = [offers EXCEPT ![o] =
       [state |-> "offered", creator |-> creator, other |-> creator,
        gives |-> gives, amountGiven |-> amountGiven,
        takes |-> takes, amountTaken |-> amountTaken]]

\* Both amounts leave the desk's account bal together.
Exchanged(bal, offer) ==
  Moved(Moved(bal, offer.gives, Desk, offer.other, offer.amountGiven),
        offer.takes, Desk, offer.creator, offer.amountTaken)

\* A counterparty locks the amount that is asked for; the exchange may take
\* place in the same step.
Join(o, other) ==
  LET joined == [offers[o] EXCEPT !.state = "joined", !.other = other]
      bal == Moved(balances, joined.takes, other, Desk, joined.amountTaken)
  IN  /\ offers[o].state = "offered"
      /\ balances[joined.takes][other] >= joined.amountTaken
      /\ \/ /\ balances' = bal
            /\ offers' = [offers EXCEPT ![o] = joined]
         \/ /\ balances' = Exchanged(bal, joined)
            /\ offers' = [offers EXCEPT ![o] = [joined EXCEPT !.state = "exchanged"]]

Exchange(o) ==
  /\ offers[o].state = "joined"
  /\ balances' = Exchanged(balances, offers[o])
  /\ offers' = [offers EXCEPT ![o].state = "exchanged"]

Withdraw(o) ==
  /\ offers[o].state = "offered"
  /\ balances' = Moved(balances, offers[o].gives, Desk, offers[o].creator,
                       offers[o].amountGiven)
  /\ offers' = [offers EXCEPT ![o].state = "withdrawn"]

\* Whatever others do, they take nothing off the desk's account.
Elsewhere ==
  /\ \A t \in Token : balances'[t][Desk] >= balances[t][Desk]
  /\ UNCHANGED offers

Next ==
  \/ Elsewhere
  \/ \E o \in Order :
       \/ Exchange(o)
       \/ Withdraw(o)
       \/ \E other \in User : Join(o, other)
       \/ \E creator \in User, gives, takes \in Token, amountGiven, amountTaken \in Amount :
            Offer(o, creator, gives, amountGiven, takes, amountTaken)

Spec == Init /\ [][Next]_vars
=============================================================================
