---------------------------- MODULE EscrowProofs ----------------------------
(***************************************************************************)
(* What the escrow manager guarantees for any number of users and escrows: *)
(* the pool can pay every escrow that is not settled, a settled escrow is  *)
(* never paid again, and the manager implements module Custody.            *)
(*                                                                         *)
(* Inv adds to the checked invariants that an ID without a contract has    *)
(* not been settled, which creating one relies on.  Backed needs           *)
(* StatusTellsSettled: it is why releasing, cancelling and sweeping, which *)
(* only look at the status, never pay for an escrow a second time.         *)
(*                                                                         *)
(* ClientInv is for the calls of the wallet library: what each call was    *)
(* told has been done (ToldOf), what it has made (MadeOf), and that an     *)
(* escrow is paid for at most once, and only when it is settled (Paid).    *)
(* It holds on because what a caller relies on lasts whatever others do    *)
(* to the manager (Lasting).                                               *)
(***************************************************************************)
EXTENDS EscrowClient, TotalsProofs

\* The amounts the pool owes.
OwedAll == [d \in Id |-> Owed(d)]

Fresh == \A d \in Id : contracts[d] = NoContract => ~settled[d]

Inv == TypeOK /\ Fresh /\ StatusTellsSettled /\ Backed

LEMMA NoContractFacts == NoContract \notin Contract /\ NoContract.status = "none"
<1>1. \A c \in Contract : c.status \in Status
  BY DEF Contract
<1> QED
  BY <1>1 DEF NoContract, Status

LEMMA ContractFacts ==
  ASSUME TypeOK, NEW d \in Id, contracts[d] # NoContract
  PROVE  /\ contracts[d] \in Contract
         /\ contracts[d].sender \in Party /\ contracts[d].receiver \in Party
         /\ contracts[d].amount \in Nat
         /\ contracts[d].sender # Pool /\ contracts[d].receiver # Pool
BY EscrowAssumption DEF TypeOK, Contract

LEMMA OwedType ==
  ASSUME TypeOK
  PROVE  /\ OwedAll \in [Id -> Nat] /\ IsFiniteSet(Id)
         /\ Total(OwedAll) \in Nat
<1>1. \A d \in Id : Owed(d) \in Nat
  BY ContractFacts DEF Owed
<1>2. OwedAll \in [Id -> Nat] /\ IsFiniteSet(Id)
  BY <1>1, EscrowAssumption DEF OwedAll
<1> QED
  BY <1>2, TotalType

\* A transfer the payer can afford.
LEMMA MovedFacts ==
  ASSUME balances \in [Account -> Nat], NEW from \in Account, NEW to \in Account,
         NEW amount \in Nat, balances[from] >= amount, from # to
  PROVE  /\ Moved(from, to, amount) \in [Account -> Nat]
         /\ Moved(from, to, amount)[from] = balances[from] - amount
         /\ Moved(from, to, amount)[to] = balances[to] + amount
         /\ \A a \in Account \ {from, to} : Moved(from, to, amount)[a] = balances[a]
BY DEF Moved

\* The amounts owed after the entry of one escrow has changed.
LEMMA OwedStep ==
  ASSUME TypeOK, TypeOK', NEW d \in Id, NEW v \in Nat, Owed(d)' = v,
         \A e \in Id \ {d} : Owed(e)' = Owed(e)
  PROVE  Total(OwedAll)' = Total(OwedAll) - Owed(d) + v
<1>1. OwedAll' = [OwedAll EXCEPT ![d] = v]
  BY DEF OwedAll
<1>2. OwedAll \in [Id -> Nat] /\ IsFiniteSet(Id)
  BY OwedType
<1>3. Total([OwedAll EXCEPT ![d] = v]) = Total(OwedAll) - OwedAll[d] + v
  BY <1>2, TotalUpdate
<1>4. OwedAll[d] = Owed(d)
  BY DEF OwedAll
<1>5. Total(OwedAll)' = Total(OwedAll')
  OBVIOUS
<1> QED
  BY <1>1, <1>3, <1>4, <1>5

LEMMA OwedOther ==
  ASSUME NEW d \in Id, NEW e \in Id, contracts'[e] = contracts[e], settled'[e] = settled[e]
  PROVE  Owed(e)' = Owed(e)
BY DEF Owed

LEMMA OwedBounded ==
  ASSUME TypeOK, NEW d \in Id
  PROVE  Owed(d) <= Total(OwedAll) /\ Owed(d) \in Nat
<1>1. OwedAll \in [Id -> Nat] /\ IsFiniteSet(Id) /\ OwedAll[d] = Owed(d)
  BY OwedType DEF OwedAll
<1>2. OwedAll[d] <= Total(OwedAll)
  BY <1>1, TotalBounds
<1> QED
  BY <1>1, <1>2

LEMMA BackedIs == Backed <=> balances[Pool] >= Total(OwedAll)
BY DEF Backed, OwedAll

\* The pool can pay an escrow that is not settled.
LEMMA Payable ==
  ASSUME Inv, NEW d \in Id, contracts[d] # NoContract, ~settled[d]
  PROVE  balances[Pool] >= contracts[d].amount
<1>1. Owed(d) = contracts[d].amount
  BY DEF Owed
<1>2. /\ balances[Pool] >= Total(OwedAll) /\ Total(OwedAll) \in Nat
      /\ Owed(d) <= Total(OwedAll) /\ Owed(d) \in Nat
  BY BackedIs, OwedType, OwedBounded DEF Inv
<1>3. balances[Pool] \in Nat
  BY DEF Inv, TypeOK, Account
<1> QED
  BY <1>1, <1>2, <1>3

\* A step that pays an open escrow out to one of its parties.
LEMMA PayOutInv ==
  ASSUME Inv, NEW d \in Id, contracts[d] # NoContract, ~settled[d],
         NEW payee \in Party, PayOut(d, payee),
         NEW s \in {"released", "cancelled"},
         contracts' = [contracts EXCEPT ![d].status = s]
  PROVE  /\ Inv'
         /\ balances' = Moved(Pool, payee, contracts[d].amount)
         /\ settled' = [settled EXCEPT ![d] = TRUE]
<1> DEFINE amount == contracts[d].amount
<1>1. /\ balances' = Moved(Pool, payee, amount)
      /\ settled' = [settled EXCEPT ![d] = TRUE]
  BY Payable DEF PayOut
<1>2. TypeOK /\ contracts[d] \in Contract /\ amount \in Nat /\ balances[Pool] >= amount
      /\ payee # Pool /\ Pool \in Account /\ payee \in Account
      /\ balances \in [Account -> Nat]
  BY Payable, ContractFacts, EscrowAssumption DEF Inv, Account, TypeOK
<1>3. balances' \in [Account -> Nat] /\ balances'[Pool] = balances[Pool] - amount
  BY <1>1, <1>2, MovedFacts
<1>4. [contracts[d] EXCEPT !.status = s] \in Contract
  BY <1>2 DEF Contract, Status
<1>5. /\ contracts'[d] = [contracts[d] EXCEPT !.status = s]
      /\ contracts'[d].status = s
      /\ contracts'[d] # NoContract
      /\ \A e \in Id \ {d} : contracts'[e] = contracts[e]
  BY <1>2, <1>4, NoContractFacts DEF TypeOK, Contract
<1>6. TypeOK'
  BY <1>1, <1>2, <1>3, <1>4 DEF TypeOK
<1>7. settled'[d] /\ \A e \in Id \ {d} : settled'[e] = settled[e]
  BY <1>1, <1>2 DEF TypeOK
<1>8. Backed'
  <2>1. Owed(d)' = 0 /\ Owed(d) = amount
    BY <1>7 DEF Owed
  <2>2. \A e \in Id \ {d} : Owed(e)' = Owed(e)
    BY <1>5, <1>7, OwedOther
  <2>3. Total(OwedAll)' = Total(OwedAll) - Owed(d) + 0
    BY <1>2, <1>6, <2>1, <2>2, OwedStep
  <2>4. balances[Pool] >= Total(OwedAll) /\ Total(OwedAll) \in Nat
    BY <1>2, OwedType, BackedIs DEF Inv
  <2>5. balances[Pool] \in Nat
    BY <1>2
  <2>6. balances'[Pool] >= Total(OwedAll)'
    BY <1>2, <1>3, <2>1, <2>3, <2>4, <2>5
  <2> QED
    BY <2>6 DEF Backed, OwedAll
<1>9. Fresh' /\ StatusTellsSettled'
  BY <1>5, <1>7 DEF Inv, Fresh, StatusTellsSettled
<1> QED
  BY <1>1, <1>6, <1>8, <1>9 DEF Inv

\* A step that changes neither money nor history, nor who is owed how much.
LEMMA KeepInv ==
  ASSUME Inv, NEW d \in Id, contracts[d] # NoContract, NEW c \in Contract,
         contracts' = [contracts EXCEPT ![d] = c], UNCHANGED <<balances, settled>>,
         c.amount = contracts[d].amount,
         c.status \in {"released", "cancelled"} => settled[d],
         c.status \in {"pending", "confirmed"} => ~settled[d]
  PROVE  Inv'
<1>1. c # NoContract
  BY NoContractFacts
<1>2. contracts'[d] = c /\ \A e \in Id \ {d} : contracts'[e] = contracts[e]
  BY DEF Inv, TypeOK
<1>3. TypeOK'
  BY DEF Inv, TypeOK
<1>4. Fresh' /\ StatusTellsSettled'
  BY <1>1, <1>2 DEF Inv, Fresh, StatusTellsSettled
<1>5. Backed'
  <2>1. \A e \in Id : Owed(e)' = Owed(e)
    BY <1>1, <1>2 DEF Owed
  <2>2. OwedAll' = OwedAll
    BY <2>1 DEF OwedAll
  <2>3. balances'[Pool] >= Total(OwedAll')
    BY <2>2, BackedIs DEF Inv
  <2> QED
    BY <2>3 DEF Backed, OwedAll
<1> QED
  BY <1>3, <1>4, <1>5 DEF Inv

LEMMA InitInv == Init => Inv
<1> SUFFICES ASSUME Init PROVE Inv
  OBVIOUS
<1> USE DEF Init
<1>1. TypeOK
  BY EscrowAssumption DEF TypeOK, Account
<1>2. Fresh /\ StatusTellsSettled
  BY DEF Fresh, StatusTellsSettled
<1>3. OwedAll \in [Id -> Nat] /\ \A d \in Id : OwedAll[d] = 0
  BY DEF OwedAll, Owed
<1>4. Total(OwedAll) = 0
  BY <1>3, TotalZero
<1>5. balances[Pool] \in Nat
  BY <1>1 DEF TypeOK, Account
<1> QED
  BY <1>1, <1>2, <1>4, <1>5, BackedIs DEF Inv

LEMMA AmountType == \A amount \in 0 .. Total(Funds) : amount \in Nat
<1>1. IsFiniteSet(Party \cup {Pool}) /\ Funds \in [Party \cup {Pool} -> Nat]
  BY EscrowAssumption, FS_AddElement
<1>2. Total(Funds) \in Nat
  BY <1>1, TotalType
<1> QED
  BY <1>2

LEMMA CreateInv ==
  ASSUME Inv, NEW d \in Id, NEW s \in Party, NEW r \in Party, NEW a \in Signer,
         NEW amount \in Nat, CreateEscrow(d, s, r, a, amount)
  PROVE  Inv'
<1> DEFINE c == [sender |-> s, receiver |-> r, arbitrator |-> a, amount |-> amount,
                 status |-> "pending", signatures |-> {}, expired |-> FALSE]
<1>1. c \in Contract /\ c # NoContract /\ c.amount = amount /\ c.status = "pending"
  BY NoContractFacts DEF Contract, Status
<1> HIDE DEF c
<1>2. /\ contracts[d] = NoContract /\ ~settled[d]
      /\ contracts' = [contracts EXCEPT ![d] = c] /\ settled' = settled
      /\ balances' = Moved(s, Pool, amount) /\ balances[s] >= amount
  BY DEF CreateEscrow, c, Inv, Fresh
<1>3. /\ s # Pool /\ s \in Account /\ Pool \in Account
      /\ TypeOK /\ balances \in [Account -> Nat] /\ balances[Pool] \in Nat
  BY EscrowAssumption DEF Account, Inv, TypeOK
<1>4. balances' \in [Account -> Nat] /\ balances'[Pool] = balances[Pool] + amount
  BY <1>2, <1>3, MovedFacts
<1>5. TypeOK'
  BY <1>1, <1>2, <1>3, <1>4 DEF TypeOK
<1>6. contracts'[d] = c /\ \A e \in Id \ {d} : contracts'[e] = contracts[e]
  BY <1>2, <1>3 DEF TypeOK
<1>7. Fresh' /\ StatusTellsSettled'
  BY <1>1, <1>2, <1>6 DEF Inv, Fresh, StatusTellsSettled
<1>8. Backed'
  <2>1. Owed(d)' = amount /\ Owed(d) = 0
    BY <1>1, <1>2, <1>6 DEF Owed
  <2>2. \A e \in Id \ {d} : Owed(e)' = Owed(e)
    BY <1>2, <1>6, OwedOther
  <2>3. Total(OwedAll)' = Total(OwedAll) - Owed(d) + amount
    BY <1>3, <1>5, <2>1, <2>2, OwedStep
  <2>4. balances[Pool] >= Total(OwedAll) /\ Total(OwedAll) \in Nat
    BY <1>3, OwedType, BackedIs DEF Inv
  <2>5. balances'[Pool] >= Total(OwedAll)'
    BY <1>3, <1>4, <2>1, <2>3, <2>4
  <2> QED
    BY <2>5 DEF Backed, OwedAll
<1> QED
  BY <1>5, <1>7, <1>8 DEF Inv

\* An escrow that is pending or confirmed has not been settled.
LEMMA OpenFacts ==
  ASSUME Inv, NEW d \in Id, contracts[d].status \in {"pending", "confirmed"}
  PROVE  /\ contracts[d] # NoContract /\ ~settled[d]
         /\ contracts[d] \in Contract
         /\ contracts[d].sender \in Party /\ contracts[d].receiver \in Party
         /\ contracts[d].amount \in Nat
<1>1. contracts[d] # NoContract
  BY NoContractFacts
<1> QED
  BY <1>1, ContractFacts DEF Inv, StatusTellsSettled

LEMMA RefundInv ==
  ASSUME Inv, NEW d \in Id, contracts[d].status \in {"pending", "confirmed"}, Refund(d)
  PROVE  /\ Inv'
         /\ balances' = Moved(Pool, contracts[d].sender, contracts[d].amount)
         /\ settled' = [settled EXCEPT ![d] = TRUE]
         /\ contracts' = [contracts EXCEPT ![d].status = "cancelled"]
BY OpenFacts, PayOutInv DEF Refund

LEMMA ReleaseInv ==
  ASSUME Inv, NEW d \in Id, NEW who \in Signer, ReleaseEscrow(d, who)
  PROVE  /\ Inv'
         /\ balances' = Moved(Pool, contracts[d].receiver, contracts[d].amount)
         /\ settled' = [settled EXCEPT ![d] = TRUE]
         /\ contracts' = [contracts EXCEPT ![d].status = "released"]
BY OpenFacts, PayOutInv DEF ReleaseEscrow

LEMMA SignInv ==
  ASSUME Inv, NEW d \in Id, NEW who \in Signer, contracts[d].status = "pending", Sign(d, who)
  PROVE  Inv'
<1> DEFINE sigs == contracts[d].signatures \cup {who}
           status == IF Cardinality(sigs) >= RequiredSigs THEN "confirmed"
                     ELSE contracts[d].status
           c == [contracts[d] EXCEPT !.signatures = sigs, !.status = status]
<1>1. contracts[d] # NoContract /\ contracts[d] \in Contract /\ ~settled[d]
  BY OpenFacts
<1>2. sigs \subseteq Signer
  BY <1>1 DEF Contract
<1> HIDE DEF sigs
<1>3. status \in {"pending", "confirmed"}
  OBVIOUS
<1> HIDE DEF status
<1>4. c \in Contract /\ c.status = status /\ c.amount = contracts[d].amount
  BY <1>1, <1>2, <1>3 DEF Contract, Status
<1>5. contracts' = [contracts EXCEPT ![d] = c] /\ UNCHANGED <<balances, settled>>
  BY DEF Sign, sigs, status
<1> HIDE DEF c
<1> QED
  BY <1>1, <1>3, <1>4, <1>5, KeepInv

LEMMA ExpireInv ==
  ASSUME Inv, NEW d \in Id, Expire(d)
  PROVE  Inv'
<1> DEFINE c == [contracts[d] EXCEPT !.expired = TRUE]
<1>1. contracts[d] # NoContract /\ contracts[d] \in Contract
  BY ContractFacts DEF Inv, Expire
<1>2. c \in Contract /\ c.status = contracts[d].status /\ c.amount = contracts[d].amount
  BY <1>1 DEF Contract
<1>3. contracts' = [contracts EXCEPT ![d] = c] /\ UNCHANGED <<balances, settled>>
  BY DEF Expire
<1> HIDE DEF c
<1> QED
  BY <1>1, <1>2, <1>3, KeepInv DEF Inv, StatusTellsSettled

LEMMA DisputeInv ==
  ASSUME Inv, NEW d \in Id, NEW who \in Signer, DisputeEscrow(d, who)
  PROVE  Inv'
<1> DEFINE c == [contracts[d] EXCEPT !.status = "disputed"]
<1>1. contracts[d] # NoContract /\ contracts[d] \in Contract
  BY ContractFacts DEF Inv, DisputeEscrow
<1>2. c \in Contract /\ c.status = "disputed" /\ c.amount = contracts[d].amount
  BY <1>1 DEF Contract, Status
<1>3. contracts' = [contracts EXCEPT ![d] = c] /\ UNCHANGED <<balances, settled>>
  BY DEF DisputeEscrow
<1> HIDE DEF c
<1> QED
  BY <1>1, <1>2, <1>3, KeepInv

LEMMA PayInv ==
  ASSUME Inv, NEW from \in Party, NEW to \in Account, NEW amount \in Nat,
         Pay(from, to, amount)
  PROVE  Inv'
<1>1. /\ from # Pool /\ from \in Account /\ Pool \in Account
      /\ TypeOK /\ balances \in [Account -> Nat] /\ balances[Pool] \in Nat
      /\ balances[from] \in Nat
  BY EscrowAssumption DEF Account, Inv, TypeOK
<1>2. balances' \in [Account -> Nat] /\ balances'[Pool] >= balances[Pool]
  <2>1. CASE from = to
    <3>1. balances' = balances
      BY <1>1, <2>1 DEF Pay, Moved
    <3> QED
      BY <3>1, <1>1
  <2>2. CASE from # to
    <3>1. /\ Moved(from, to, amount) \in [Account -> Nat]
          /\ Moved(from, to, amount)[to] = balances[to] + amount
          /\ \A a \in Account \ {from, to} : Moved(from, to, amount)[a] = balances[a]
      BY <1>1, <2>2, MovedFacts DEF Pay
    <3>2. CASE to = Pool
      BY <1>1, <3>1, <3>2 DEF Pay
    <3>3. CASE to # Pool
      BY <1>1, <3>1, <3>3 DEF Pay
    <3> QED
      BY <3>2, <3>3
  <2> QED
    BY <2>1, <2>2
<1>3. contracts' = contracts /\ settled' = settled
  BY DEF Pay
<1>4. TypeOK'
  BY <1>1, <1>2, <1>3 DEF TypeOK
<1>5. Fresh' /\ StatusTellsSettled'
  BY <1>3 DEF Inv, Fresh, StatusTellsSettled
<1>6. Backed'
  <2>1. OwedAll' = OwedAll
    BY <1>3 DEF OwedAll, Owed
  <2>2. balances[Pool] >= Total(OwedAll) /\ Total(OwedAll) \in Nat
    BY <1>1, OwedType, BackedIs DEF Inv
  <2>3. balances'[Pool] \in Nat
    BY <1>1, <1>2
  <2>4. balances'[Pool] >= Total(OwedAll')
    BY <1>1, <1>2, <2>1, <2>2, <2>3
  <2> QED
    BY <2>4 DEF Backed, OwedAll
<1> QED
  BY <1>4, <1>5, <1>6 DEF Inv

LEMMA NextInv == Inv /\ [Next]_vars => Inv'
<1> SUFFICES ASSUME Inv, [Next]_vars PROVE Inv'
  OBVIOUS
<1>1. ASSUME NEW d \in Id, NEW s \in Party, NEW r \in Party, NEW a \in Signer,
             NEW amount \in 0 .. Total(Funds), CreateEscrow(d, s, r, a, amount)
      PROVE  Inv'
  BY <1>1, AmountType, CreateInv
<1>2. ASSUME NEW d \in Id, ProcessExpiredEscrows(d)
      PROVE  Inv'
  BY <1>2, RefundInv DEF ProcessExpiredEscrows, Expirable
<1>3. ASSUME NEW d \in Id, NEW who \in Signer, ConfirmEscrow(d, who)
      PROVE  Inv'
  BY <1>3, RefundInv, SignInv DEF ConfirmEscrow
<1>4. ASSUME NEW d \in Id, NEW who \in Signer, CancelEscrow(d, who)
      PROVE  Inv'
  BY <1>4, RefundInv DEF CancelEscrow, Cancellable
<1>5. ASSUME NEW from \in Party, NEW to \in Account, NEW amount \in 0 .. Total(Funds),
             Pay(from, to, amount)
      PROVE  Inv'
  BY <1>5, AmountType, PayInv
<1>6. CASE UNCHANGED vars
  <2>1. OwedAll' = OwedAll
    BY <1>6 DEF vars, OwedAll, Owed
  <2>2. balances'[Pool] >= Total(OwedAll')
    BY <1>6, <2>1, BackedIs DEF vars, Inv
  <2>3. Backed'
    BY <2>2 DEF Backed, OwedAll
  <2> QED
    BY <1>6, <2>3 DEF vars, Inv, TypeOK, Fresh, StatusTellsSettled
<1> QED
  BY <1>1, <1>2, <1>3, <1>4, <1>5, <1>6, ExpireInv, ReleaseInv, DisputeInv DEF Next
-----------------------------------------------------------------------------
\* Types are kept.
THEOREM EscrowTyped == Spec => []TypeOK
<1>1. Inv => TypeOK
  BY DEF Inv
<1> QED
  BY <1>1, InitInv, NextInv, PTL DEF Spec

\* The pool always holds what it owes, so no refund the manager reports as made
\* has silently failed.
THEOREM PoolBacked == Spec => []Backed
<1>1. Inv => Backed
  BY DEF Inv
<1> QED
  BY <1>1, InitInv, NextInv, PTL DEF Spec

\* A released or cancelled escrow has been paid, an open one has not.
THEOREM StatusIsMoney == Spec => []StatusTellsSettled
<1>1. Inv => StatusTellsSettled
  BY DEF Inv
<1> QED
  BY <1>1, InitInv, NextInv, PTL DEF Spec

(***************************************************************************)
(* The refinement: every step of the manager is a step of Custody, or      *)
(* leaves balances and deposits alone.                                     *)
(***************************************************************************)

LEMMA CustodyOf ==
  ASSUME NEW d \in Id
  PROVE  custody[d] =
           IF contracts[d] = NoContract THEN [state |-> "none"]
           ELSE [state |-> IF settled[d] THEN "settled" ELSE "held",
                 from |-> contracts[d].sender, to |-> contracts[d].receiver,
                 amount |-> contracts[d].amount]
BY DEF custody

\* A payment out of the pool settles the deposit.
LEMMA SettleStep ==
  ASSUME Inv, NEW d \in Id, contracts[d] # NoContract, ~settled[d],
         NEW payee \in {contracts[d].sender, contracts[d].receiver},
         balances' = Moved(Pool, payee, contracts[d].amount),
         settled' = [settled EXCEPT ![d] = TRUE],
         NEW s \in {"released", "cancelled"},
         contracts' = [contracts EXCEPT ![d].status = s]
  PROVE  C!Next
<1>1. /\ contracts[d] \in Contract /\ payee \in Party
      /\ balances[Pool] >= contracts[d].amount /\ TypeOK
  BY ContractFacts, Payable DEF Inv
<1>2. /\ custody[d].state = "held"
      /\ custody[d].from = contracts[d].sender /\ custody[d].to = contracts[d].receiver
      /\ custody[d].amount = contracts[d].amount
  <2>1. custody[d] = [state |-> "held", from |-> contracts[d].sender,
                      to |-> contracts[d].receiver, amount |-> contracts[d].amount]
    BY CustodyOf
  <2> QED
    BY <2>1
<1>3. /\ contracts'[d] # NoContract /\ settled'[d]
      /\ contracts'[d].sender = contracts[d].sender
      /\ contracts'[d].receiver = contracts[d].receiver
      /\ contracts'[d].amount = contracts[d].amount
      /\ \A e \in Id \ {d} : contracts'[e] = contracts[e] /\ settled'[e] = settled[e]
  <2>1. [contracts[d] EXCEPT !.status = s] \in Contract
    BY <1>1 DEF Contract, Status
  <2> QED
    BY <1>1, <2>1, NoContractFacts DEF TypeOK, Contract
<1>4. custody' = [custody EXCEPT ![d].state = "settled"]
  <2>1. \A e \in Id \ {d} : custody'[e] = custody[e]
    BY <1>3 DEF custody
  <2>2. custody'[d] = [state |-> "settled", from |-> contracts[d].sender,
                       to |-> contracts[d].receiver, amount |-> contracts[d].amount]
    BY <1>3 DEF custody
  <2>3. custody[d] = [state |-> "held", from |-> contracts[d].sender,
                      to |-> contracts[d].receiver, amount |-> contracts[d].amount]
    BY CustodyOf
  <2>4. custody'[d] = [custody[d] EXCEPT !.state = "settled"]
    BY <2>2, <2>3
  <2>5. custody' = [e \in Id |-> custody'[e]] /\ custody = [e \in Id |-> custody[e]]
    BY DEF custody
  <2> QED
    BY <2>1, <2>4, <2>5
<1>5. C!Settle(d, payee)
  BY <1>1, <1>2, <1>4 DEF C!Settle, C!Moved, Moved
<1> QED
  BY <1>1, <1>5 DEF C!Next

\* A step that changes no amount, no party and no payment is a stutter.
LEMMA StutterStep ==
  ASSUME UNCHANGED <<balances, settled>>,
         \A d \in Id :
           /\ contracts'[d] = NoContract <=> contracts[d] = NoContract
           /\ contracts[d] # NoContract =>
                /\ contracts'[d].sender = contracts[d].sender
                /\ contracts'[d].receiver = contracts[d].receiver
                /\ contracts'[d].amount = contracts[d].amount
  PROVE  UNCHANGED C!vars
<1>1. custody' = custody
  BY DEF custody
<1> QED
  BY <1>1 DEF C!vars

\* The fields that Custody sees survive an update of the others.
LEMMA UpdateStutter ==
  ASSUME Inv, NEW d \in Id, NEW c \in Contract, contracts[d] # NoContract,
         contracts' = [contracts EXCEPT ![d] = c], UNCHANGED <<balances, settled>>,
         c.sender = contracts[d].sender, c.receiver = contracts[d].receiver,
         c.amount = contracts[d].amount
  PROVE  UNCHANGED C!vars
<1>1. c # NoContract
  BY NoContractFacts
<1>2. contracts'[d] = c /\ \A e \in Id \ {d} : contracts'[e] = contracts[e]
  BY DEF Inv, TypeOK
<1> QED
  BY <1>1, <1>2, StutterStep

LEMMA CreateStep ==
  ASSUME Inv, NEW d \in Id, NEW s \in Party, NEW r \in Party, NEW a \in Signer,
         NEW amount \in Nat, CreateEscrow(d, s, r, a, amount)
  PROVE  C!Next
<1> DEFINE c == [sender |-> s, receiver |-> r, arbitrator |-> a, amount |-> amount,
                 status |-> "pending", signatures |-> {}, expired |-> FALSE]
           dep == [state |-> "held", from |-> s, to |-> r, amount |-> amount]
<1>1. /\ c \in Contract /\ c # NoContract
      /\ c.sender = s /\ c.receiver = r /\ c.amount = amount
  BY NoContractFacts DEF Contract, Status
<1> HIDE DEF c
<1>2. /\ contracts[d] = NoContract /\ ~settled[d] /\ settled' = settled
      /\ contracts' = [contracts EXCEPT ![d] = c]
      /\ balances' = Moved(s, Pool, amount) /\ balances[s] >= amount
  BY DEF CreateEscrow, c, Inv, Fresh
<1>3. contracts'[d] = c /\ \A e \in Id \ {d} : contracts'[e] = contracts[e]
  BY <1>2 DEF Inv, TypeOK
<1>4. custody' = [custody EXCEPT ![d] = dep]
  <2>1. \A e \in Id \ {d} : custody'[e] = custody[e]
    BY <1>2, <1>3 DEF custody
  <2>2. custody'[d] = dep
    BY <1>1, <1>2, <1>3 DEF custody
  <2>3. custody' = [e \in Id |-> custody'[e]] /\ custody = [e \in Id |-> custody[e]]
    BY DEF custody
  <2> QED
    BY <2>1, <2>2, <2>3
<1>5. custody[d] = [state |-> "none"]
  BY <1>2, CustodyOf
<1>6. C!Deposit(d, s, r, amount)
  BY <1>2, <1>4, <1>5 DEF C!Deposit, C!NoDeposit, C!Moved, Moved
<1>7. amount \in 0 .. balances[s]
  <2>1. balances[s] \in Nat
    BY DEF Inv, TypeOK, Account
  <2> QED
    BY <1>2, <2>1
<1> QED
  BY <1>6, <1>7 DEF C!Next

LEMMA CustodyStep == Inv /\ [Next]_vars => [C!Next]_(C!vars)
<1> SUFFICES ASSUME Inv, [Next]_vars PROVE C!Next \/ UNCHANGED C!vars
  OBVIOUS
<1>1. ASSUME NEW d \in Id, NEW s \in Party, NEW r \in Party, NEW a \in Signer,
             NEW amount \in 0 .. Total(Funds), CreateEscrow(d, s, r, a, amount)
      PROVE  C!Next
  BY <1>1, AmountType, CreateStep
<1>2. ASSUME NEW d \in Id, contracts[d].status \in {"pending", "confirmed"}, Refund(d)
      PROVE  C!Next
  BY <1>2, RefundInv, OpenFacts, SettleStep
<1>3. ASSUME NEW d \in Id, ProcessExpiredEscrows(d)
      PROVE  C!Next
  BY <1>3, <1>2 DEF ProcessExpiredEscrows, Expirable
<1>4. ASSUME NEW d \in Id, NEW who \in Signer, CancelEscrow(d, who)
      PROVE  C!Next
  BY <1>4, <1>2 DEF CancelEscrow, Cancellable
<1>5. ASSUME NEW d \in Id, NEW who \in Signer, ReleaseEscrow(d, who)
      PROVE  C!Next
  <2>1. contracts[d].status \in {"pending", "confirmed"}
    BY <1>5 DEF ReleaseEscrow
  <2> QED
    BY <1>5, <2>1, ReleaseInv, OpenFacts, SettleStep
<1>6. ASSUME NEW d \in Id, NEW who \in Signer, ConfirmEscrow(d, who)
      PROVE  C!Next \/ UNCHANGED C!vars
  <2>1. CASE Refund(d)
    BY <1>6, <2>1, <1>2 DEF ConfirmEscrow
  <2>2. CASE Sign(d, who)
    <3>1. contracts[d] # NoContract /\ contracts[d] \in Contract
      BY <1>6, OpenFacts DEF ConfirmEscrow
    <3>2. /\ UNCHANGED <<balances, settled>>
          /\ \A e \in Id \ {d} : contracts'[e] = contracts[e]
          /\ contracts'[d].sender = contracts[d].sender
          /\ contracts'[d].receiver = contracts[d].receiver
          /\ contracts'[d].amount = contracts[d].amount
          /\ contracts'[d].signatures = contracts[d].signatures \cup {who}
      BY <2>2, <3>1 DEF Sign, Inv, TypeOK, Contract
    <3>3. contracts'[d] # NoContract
      BY <1>6, <2>2, SignInv, <3>1 DEF ConfirmEscrow, Sign, Inv, TypeOK, Contract, NoContract
    <3> QED
      BY <3>1, <3>2, <3>3, StutterStep
  <2> QED
    BY <1>6, <2>1, <2>2 DEF ConfirmEscrow
<1>7. ASSUME NEW d \in Id, Expire(d)
      PROVE  UNCHANGED C!vars
  <2> DEFINE c == [contracts[d] EXCEPT !.expired = TRUE]
  <2>1. contracts[d] # NoContract /\ contracts[d] \in Contract
    BY <1>7, ContractFacts DEF Inv, Expire
  <2>2. /\ c \in Contract /\ c.sender = contracts[d].sender
        /\ c.receiver = contracts[d].receiver /\ c.amount = contracts[d].amount
    BY <2>1 DEF Contract
  <2>3. contracts' = [contracts EXCEPT ![d] = c] /\ UNCHANGED <<balances, settled>>
    BY <1>7 DEF Expire
  <2> HIDE DEF c
  <2> QED
    BY <2>1, <2>2, <2>3, UpdateStutter
<1>8. ASSUME NEW d \in Id, NEW who \in Signer, DisputeEscrow(d, who)
      PROVE  UNCHANGED C!vars
  <2> DEFINE c == [contracts[d] EXCEPT !.status = "disputed"]
  <2>1. contracts[d] # NoContract /\ contracts[d] \in Contract
    BY <1>8, ContractFacts DEF Inv, DisputeEscrow
  <2>2. /\ c \in Contract /\ c.sender = contracts[d].sender
        /\ c.receiver = contracts[d].receiver /\ c.amount = contracts[d].amount
    BY <2>1 DEF Contract, Status
  <2>3. contracts' = [contracts EXCEPT ![d] = c] /\ UNCHANGED <<balances, settled>>
    BY <1>8 DEF DisputeEscrow
  <2> HIDE DEF c
  <2> QED
    BY <2>1, <2>2, <2>3, UpdateStutter
<1>9. ASSUME NEW from \in Party, NEW to \in Account, NEW amount \in 0 .. Total(Funds),
             Pay(from, to, amount)
      PROVE  C!Next
  <2>1. custody' = custody
    BY <1>9 DEF Pay, custody
  <2>2. amount \in 0 .. balances[from]
    <3>1. balances[from] \in Nat /\ amount \in Nat
      BY <1>9, AmountType DEF Inv, TypeOK, Account
    <3> QED
      BY <1>9, <3>1 DEF Pay
  <2>3. C!Pay(from, to, amount)
    BY <1>9, <2>1 DEF Pay, C!Pay, C!Moved, Moved
  <2> QED
    BY <1>9, <2>2, <2>3 DEF C!Next, Account
<1>10. CASE UNCHANGED vars
  BY <1>10 DEF vars, C!vars, custody
<1> QED
  BY <1>1, <1>3, <1>4, <1>5, <1>6, <1>7, <1>8, <1>9, <1>10 DEF Next

\* The escrow manager implements a custody: each deposit is settled at most
\* once, in full, with one of its parties.
THEOREM EscrowIsCustody == Spec => IsCustody
<1>1. Init => C!Init
  BY DEF Init, custody, C!Init, C!NoDeposit
<1> QED
  BY <1>1, InitInv, NextInv, CustodyStep, PTL DEF Spec, IsCustody, C!Spec
(***************************************************************************)
(* The library's calls: each step of theirs is an operation of the         *)
(* manager, perhaps with an amount larger than there is money, or leaves   *)
(* the manager alone.                                                      *)
(***************************************************************************)

Operation ==
  \/ \E d \in Id, s, to \in Party, a \in Signer, amount \in Nat :
       CreateEscrow(d, s, to, a, amount)
  \/ [Next]_vars

\* An operation keeps the manager's invariant and is a step of the custody.
LEMMA OperationStep == Inv /\ Operation => Inv' /\ [C!Next]_(C!vars)
BY NextInv, CustodyStep, CreateInv, CreateStep DEF Operation

\* What an operation leaves as it is.
Lasting ==
  \A d \in Id :
    /\ settled[d] => settled'[d]
    /\ contracts[d] # NoContract =>
         /\ contracts'[d] # NoContract
         /\ contracts'[d].sender = contracts[d].sender
         /\ contracts[d].signatures \subseteq contracts'[d].signatures

\* An update of one contract.
LEMMA UpdateLasts ==
  ASSUME Inv, NEW d \in Id, NEW c \in Contract,
         contracts' = [contracts EXCEPT ![d] = c],
         \A e \in Id : settled[e] => settled'[e],
         contracts[d] # NoContract =>
           /\ c.sender = contracts[d].sender
           /\ contracts[d].signatures \subseteq c.signatures
  PROVE  Lasting
<1>1. c # NoContract
  BY NoContractFacts
<1>2. contracts'[d] = c /\ \A e \in Id \ {d} : contracts'[e] = contracts[e]
  BY DEF Inv, TypeOK
<1> QED
  BY <1>1, <1>2 DEF Lasting

LEMMA StatusLasts ==
  ASSUME Inv, NEW d \in Id, contracts[d] # NoContract, NEW s \in Status,
         contracts' = [contracts EXCEPT ![d].status = s],
         settled' \in {settled, [settled EXCEPT ![d] = TRUE]}
  PROVE  Lasting
<1> DEFINE c == [contracts[d] EXCEPT !.status = s]
<1>1. contracts[d] \in Contract
  BY ContractFacts DEF Inv
<1>2. /\ c \in Contract /\ c.sender = contracts[d].sender
      /\ c.signatures = contracts[d].signatures
  BY <1>1 DEF Contract
<1>3. contracts' = [contracts EXCEPT ![d] = c]
  OBVIOUS
<1>4. \A e \in Id : settled[e] => settled'[e]
  BY DEF Inv, TypeOK
<1> HIDE DEF c
<1> QED
  BY <1>2, <1>3, <1>4, UpdateLasts

LEMMA OperationLasts == Inv /\ Operation => Lasting
<1> SUFFICES ASSUME Inv, Operation PROVE Lasting
  OBVIOUS
<1>1. ASSUME NEW d \in Id, NEW s \in Party, NEW to \in Party, NEW a \in Signer,
             NEW amount \in Nat, CreateEscrow(d, s, to, a, amount)
      PROVE  Lasting
  <2> DEFINE c == [sender |-> s, receiver |-> to, arbitrator |-> a, amount |-> amount,
                   status |-> "pending", signatures |-> {}, expired |-> FALSE]
  <2>1. c \in Contract
    BY DEF Contract, Status
  <2>2. /\ contracts' = [contracts EXCEPT ![d] = c] /\ contracts[d] = NoContract
        /\ settled' = settled
    BY <1>1 DEF CreateEscrow
  <2> HIDE DEF c
  <2> QED
    BY <2>1, <2>2, UpdateLasts
<1>2. ASSUME NEW d \in Id, contracts[d].status \in {"pending", "confirmed"}, Refund(d)
      PROVE  Lasting
  BY <1>2, RefundInv, OpenFacts, StatusLasts DEF Status
<1>3. ASSUME NEW d \in Id, NEW who \in Signer, ConfirmEscrow(d, who)
      PROVE  Lasting
  <2>1. CASE Refund(d)
    BY <1>3, <2>1, <1>2 DEF ConfirmEscrow
  <2>2. CASE Sign(d, who)
    <3>1. contracts[d] # NoContract /\ contracts[d] \in Contract
      BY <1>3, OpenFacts DEF ConfirmEscrow
    <3>2. /\ UNCHANGED settled
          /\ \A e \in Id \ {d} : contracts'[e] = contracts[e]
          /\ contracts'[d].sender = contracts[d].sender
          /\ contracts'[d].signatures = contracts[d].signatures \cup {who}
      BY <2>2, <3>1 DEF Sign, Inv, TypeOK, Contract
    <3>3. contracts'[d] # NoContract
      BY <1>3, <2>2, SignInv, <3>1 DEF ConfirmEscrow, Sign, Inv, TypeOK, Contract, NoContract
    <3> QED
      BY <3>1, <3>2, <3>3 DEF Lasting
  <2> QED
    BY <1>3, <2>1, <2>2 DEF ConfirmEscrow
<1>4. ASSUME NEW d \in Id, NEW who \in Signer, ReleaseEscrow(d, who)
      PROVE  Lasting
  <2>1. contracts[d].status \in {"pending", "confirmed"}
    BY <1>4 DEF ReleaseEscrow
  <2> QED
    BY <1>4, <2>1, ReleaseInv, OpenFacts, StatusLasts DEF Status
<1>5. ASSUME NEW d \in Id, Expire(d)
      PROVE  Lasting
  <2> DEFINE c == [contracts[d] EXCEPT !.expired = TRUE]
  <2>1. contracts[d] # NoContract /\ contracts[d] \in Contract
    BY <1>5, ContractFacts DEF Inv, Expire
  <2>2. /\ c \in Contract /\ c.sender = contracts[d].sender
        /\ c.signatures = contracts[d].signatures
    BY <2>1 DEF Contract
  <2>3. contracts' = [contracts EXCEPT ![d] = c] /\ UNCHANGED settled
    BY <1>5 DEF Expire
  <2> HIDE DEF c
  <2> QED
    BY <2>1, <2>2, <2>3, UpdateLasts
<1>6. ASSUME NEW d \in Id, NEW who \in Signer, DisputeEscrow(d, who)
      PROVE  Lasting
  BY <1>6, StatusLasts DEF DisputeEscrow, Status
<1>7. ASSUME NEW d \in Id, ProcessExpiredEscrows(d)
      PROVE  Lasting
  BY <1>7, <1>2 DEF ProcessExpiredEscrows, Expirable
<1>8. ASSUME NEW d \in Id, NEW who \in Signer, CancelEscrow(d, who)
      PROVE  Lasting
  BY <1>8, <1>2 DEF CancelEscrow, Cancellable
<1>9. CASE UNCHANGED vars \/ \E from \in Party, to \in Account, amount \in 0 .. Total(Funds) : Pay(from, to, amount)
  BY <1>9 DEF Lasting, vars, Pay
<1> QED
  BY <1>1, <1>3, <1>4, <1>5, <1>6, <1>7, <1>8, <1>9, AmountType DEF Operation, Next
-----------------------------------------------------------------------------
Calls == {NoCall} \cup CreateCall \cup OtherCall \cup Answered

\* What holds of a call whose caller has been told of success, when the contracts
\* are cs, the settled ones st and those made for the call by.
ToldOf(cs, st, call, by) ==
  call.step = "told" /\ call.op # "list" =>
    LET d == call.escrow IN
    /\ cs[d] # NoContract
    /\ call.op \in {"release", "cancel"} => st[d]
    /\ call.op = "confirm" => call.who \in cs[d].signatures
    /\ call.op = "create" => d \in by /\ cs[d].sender = call.who

MadeOf(call) ==
  IF call.step = "told" /\ call.op = "create" THEN {call.escrow} ELSE {}

Paid == \A d \in Id : paidBy[d] <= 1 /\ (paidBy[d] > 0 => settled[d])

ClientInv ==
  /\ Inv /\ ClientTypeOK /\ Paid
  /\ \A r \in Request : ToldOf(contracts, settled, calls[r], made[r])
  /\ \A r \in Request \ unheard : made[r] = MadeOf(calls[r])

LEMMA ClientInvIs == ClientInv => AnswersHold
BY DEF ClientInv, AnswersHold, ToldIsDone, ToldOf, MadeAsTold, MadeOf, RepeatsRefused, Paid, At

\* The records of calls, by their step.
LEMMA CallFacts ==
  ASSUME NEW call \in Calls
  PROVE  /\ call.step = "send" => call \in CreateCall \cup OtherCall
         /\ call.step \in {"check", "recheck"} => call \in CreateCall
         /\ call \in CreateCall => call.op = "create"
         /\ call \in OtherCall => call.op \in Op \ {"create"}
         /\ call \in Answered => call.step = "told" /\ call.escrow \in Id
         /\ call.step = "idle" <=> call = NoCall
BY DEF Calls, NoCall, CreateCall, OtherCall, Answered

\* What a call is told stays true, whatever is done for others.
LEMMA ToldLasts ==
  ASSUME ClientInv, Lasting, NEW r \in Request, calls'[r] = calls[r], made'[r] = made[r]
  PROVE  ToldOf(contracts', settled', calls'[r], made'[r])
<1>1. CASE calls[r].step = "told" /\ calls[r].op # "list"
  <2>1. calls[r] \in Calls
    BY DEF ClientInv, ClientTypeOK, Calls
  <2>2. calls[r].escrow \in Id
    BY <1>1, <2>1 DEF Calls, NoCall, CreateCall, OtherCall, Answered
  <2>3. ToldOf(contracts, settled, calls[r], made[r])
    BY DEF ClientInv
  <2> QED
    BY <1>1, <2>2, <2>3 DEF ToldOf, Lasting
<1> QED
  BY <1>1 DEF ToldOf

\* A step of call r, with an operation of the manager or none.
LEMMA CallStep ==
  ASSUME ClientInv, Operation, NEW r \in Request, NEW call \in Calls,
         calls' = [calls EXCEPT ![r] = call],
         NEW by \in SUBSET Id, made' = [made EXCEPT ![r] = by],
         unheard' \in {unheard, unheard \cup {r}, unheard \ {r}},
         paidBy' \in [Id -> Nat], Paid',
         ToldOf(contracts', settled', call, by),
         r \notin unheard' => by = MadeOf(call)
  PROVE  ClientInv'
<1>1. Inv' /\ Lasting
  BY OperationStep, OperationLasts DEF ClientInv
<1>2. /\ calls'[r] = call /\ made'[r] = by
      /\ \A q \in Request \ {r} : calls'[q] = calls[q] /\ made'[q] = made[q]
  BY DEF ClientInv, ClientTypeOK
<1>3. ClientTypeOK'
  BY DEF ClientInv, ClientTypeOK, Calls
<1>4. \A q \in Request : ToldOf(contracts', settled', calls'[q], made'[q])
  <2>1. ASSUME NEW q \in Request PROVE ToldOf(contracts', settled', calls'[q], made'[q])
    <3>1. CASE q = r
      BY <1>2, <3>1 DEF ToldOf
    <3>2. CASE q # r
      BY <1>1, <1>2, <3>2, ToldLasts
    <3> QED
      BY <3>1, <3>2
  <2> QED
    BY <2>1
<1>5. \A q \in Request \ unheard' : made'[q] = MadeOf(calls'[q])
  BY <1>2 DEF ClientInv
<1>6. (\A q \in Request \ unheard : made[q] = MadeOf(calls[q]))'
  BY <1>5 DEF MadeOf
<1> QED
  BY <1>1, <1>3, <1>4, <1>6 DEF ClientInv

\* Payments for calls stay counted once when the manager pays for others.
LEMMA PaidLasts == ClientInv /\ Operation /\ UNCHANGED paidBy => Paid' /\ paidBy' \in [Id -> Nat]
BY OperationLasts DEF ClientInv, ClientTypeOK, Paid, Lasting

\* A step that tells the caller nothing, and has made nothing.
LEMMA QuietStep ==
  ASSUME ClientInv, Operation, NEW r \in Request, NEW call \in Calls,
         calls' = [calls EXCEPT ![r] = call], UNCHANGED <<made, unheard, paidBy>>,
         call.step # "told" \/ call.op = "list", calls[r].step # "told"
  PROVE  ClientInv'
<1>1. made' = [made EXCEPT ![r] = made[r]] /\ made[r] \in SUBSET Id
  BY DEF ClientInv, ClientTypeOK
<1>2. Paid' /\ paidBy' \in [Id -> Nat]
  BY PaidLasts
<1>3. ToldOf(contracts', settled', call, made[r])
  BY DEF ToldOf
<1>4. r \notin unheard' => made[r] = MadeOf(call)
  BY DEF ClientInv, MadeOf
<1> QED
  BY <1>1, <1>2, <1>3, <1>4, CallStep

\* The next peer is tried.
LEMMA NextPeer ==
  ASSUME ClientInv, NEW r \in Request, At(r, "send"), calls[r].left > 0
  PROVE  /\ [calls[r] EXCEPT !.left = @ - 1] \in Calls
         /\ [calls[r] EXCEPT !.left = @ - 1].step = "send"
<1>1. calls[r] \in CreateCall \cup OtherCall
  BY CallFacts DEF ClientInv, ClientTypeOK, Calls, At
<1>2. calls[r].left \in 0 .. Peers
  BY <1>1 DEF CreateCall, OtherCall
<1>3. calls[r].left - 1 \in 0 .. Peers
  BY <1>2, EscrowClientAssumption
<1>4. CASE calls[r] \in CreateCall
  BY <1>3, <1>4 DEF CreateCall, Calls, At
<1>5. CASE calls[r] \in OtherCall
  BY <1>3, <1>5 DEF OtherCall, Calls, At
<1> QED
  BY <1>1, <1>4, <1>5

\* The node has done what was asked for escrow d, and answers.
LEMMA AnswerStep ==
  ASSUME ClientInv, Operation, NEW r \in Request, NEW op \in Op, Posts(r, op),
         NEW d \in Id, Answer(r, d),
         NEW by \in SUBSET Id, made' = [made EXCEPT ![r] = by],
         by = IF op = "create" THEN made[r] \cup {d} ELSE made[r],
         paidBy' \in [Id -> Nat], Paid',
         ToldOf(contracts', settled',
                [step |-> "told", op |-> op, who |-> calls[r].who, escrow |-> d], by)
  PROVE  ClientInv'
<1>1. /\ calls[r] \in CreateCall \cup OtherCall /\ calls[r].step = "send"
      /\ calls[r].op = op /\ calls[r].left > 0 /\ calls \in [Request -> Calls]
  BY CallFacts DEF Posts, At, ClientInv, ClientTypeOK, Calls
<1>2. r \notin unheard => made[r] = {}
  BY <1>1 DEF ClientInv, MadeOf
<1>3. CASE /\ calls' = [calls EXCEPT ![r] =
                [step |-> "told", op |-> @.op, who |-> @.who, escrow |-> d]]
           /\ UNCHANGED unheard
  <2>0. [step |-> "told", op |-> op, who |-> calls[r].who, escrow |-> d] \in Calls
    BY <1>1 DEF Calls, Answered, CreateCall, OtherCall
  <2> PICK call \in Calls :
        call = [step |-> "told", op |-> op, who |-> calls[r].who, escrow |-> d]
    BY <2>0
  <2>1. calls' = [calls EXCEPT ![r] = call]
    BY <1>1, <1>3
  <2>2. r \notin unheard' => by = MadeOf(call)
    BY <1>2, <1>3 DEF MadeOf
  <2>3. ToldOf(contracts', settled', call, by)
    OBVIOUS
  <2> QED
    BY <1>3, <2>1, <2>2, <2>3, CallStep
<1>4. CASE /\ calls' = [calls EXCEPT ![r].left = @ - 1]
           /\ unheard' = unheard \cup {r}
  <2> PICK call \in Calls : call = [calls[r] EXCEPT !.left = @ - 1]
    BY <1>1, NextPeer DEF At
  <2>1. call.step = "send" /\ calls' = [calls EXCEPT ![r] = call]
    BY <1>1, <1>4, NextPeer DEF At
  <2>2. ToldOf(contracts', settled', call, by)
    BY <2>1 DEF ToldOf
  <2> QED
    BY <1>4, <2>1, <2>2, CallStep
<1> QED
  BY <1>3, <1>4 DEF Answer
-----------------------------------------------------------------------------
LEMMA ClientInitInv == ClientInit => ClientInv
<1> SUFFICES ASSUME ClientInit PROVE ClientInv
  OBVIOUS
<1>1. Inv
  BY InitInv DEF ClientInit
<1>2. /\ calls = [r \in Request |-> NoCall] /\ made = [r \in Request |-> {}]
      /\ unheard = {} /\ paidBy = [d \in Id |-> 0]
  BY DEF ClientInit
<1>3. ClientTypeOK /\ Paid
  BY <1>2 DEF ClientTypeOK, Paid
<1>4. NoCall.step = "idle"
  BY DEF NoCall
<1> QED
  BY <1>1, <1>2, <1>3, <1>4 DEF ClientInv, ToldOf, MadeOf

LEMMA IdleFacts == UNCHANGED vars => Operation
BY DEF Operation

LEMMA BeginStep ==
  ASSUME ClientInv, NEW r \in Request, At(r, "idle"), UNCHANGED <<made, unheard, paidBy, vars>>,
         NEW call \in CreateCall \cup OtherCall, call.step # "told",
         calls' = [calls EXCEPT ![r] = call]
  PROVE  ClientInv' /\ Operation
<1>1. Operation
  BY IdleFacts
<1>2. call \in Calls /\ calls[r].step # "told"
  BY DEF Calls, At
<1> QED
  BY <1>1, <1>2, QuietStep

LEMMA CreateBegins ==
  ASSUME ClientInv, NEW r \in Request, NEW s \in Party, NEW to \in Party, NEW a \in Signer,
         NEW amount \in Asked, CreateEscrowTransfer(r, s, to, a, amount)
  PROVE  ClientInv' /\ Operation
<1> DEFINE call == [step |-> "check", op |-> "create", who |-> s, receiver |-> to,
                    arbitrator |-> a, amount |-> amount, left |-> Peers]
<1>1. call \in CreateCall /\ call.step # "told"
  BY EscrowClientAssumption DEF CreateCall
<1>2. /\ At(r, "idle") /\ UNCHANGED <<made, unheard, paidBy, vars>>
      /\ calls' = [calls EXCEPT ![r] = call]
  BY DEF CreateEscrowTransfer
<1> HIDE DEF call
<1> QED
  BY <1>1, <1>2, BeginStep

LEMMA CallBegins ==
  ASSUME ClientInv, NEW r \in Request, NEW op \in Op \ {"create"}, NEW who \in Party,
         NEW d \in Id, Call(r, op, who, d)
  PROVE  ClientInv' /\ Operation
<1> DEFINE call == [step |-> "send", op |-> op, who |-> who, escrow |-> d, left |-> Peers]
<1>1. call \in OtherCall /\ call.step # "told"
  BY EscrowClientAssumption DEF OtherCall
<1>2. /\ At(r, "idle") /\ UNCHANGED <<made, unheard, paidBy, vars>>
      /\ calls' = [calls EXCEPT ![r] = call]
  BY DEF Call
<1> HIDE DEF call
<1> QED
  BY <1>1, <1>2, BeginStep

\* A call goes on to a step in which its caller has not been told of an escrow.
LEMMA GoOn ==
  ASSUME ClientInv, NEW r \in Request, calls[r].step \in {"check", "recheck", "send"},
         NEW step, GoTo(r, step), UNCHANGED <<made, unheard, paidBy, vars>>,
         \/ calls[r].step # "send" /\ step \in {"recheck", "send", "failed"}
         \/ step = "failed"
         \/ calls[r].op = "details" /\ step = "panicked"
         \/ calls[r].op = "list" /\ step = "told"
  PROVE  ClientInv' /\ Operation
<1>1. Operation
  BY IdleFacts
<1>2. calls[r] \in CreateCall \cup OtherCall /\ calls \in [Request -> Calls]
  BY CallFacts DEF ClientInv, ClientTypeOK, Calls
<1>3. [calls[r] EXCEPT !.step = step] \in Calls
  <2>1. CASE calls[r] \in CreateCall
    BY <2>1, CallFacts DEF CreateCall, Calls
  <2>2. CASE calls[r] \in OtherCall
    BY <2>2, CallFacts DEF OtherCall, Calls
  <2> QED
    BY <1>2, <2>1, <2>2
<1>4. PICK call \in Calls : call = [calls[r] EXCEPT !.step = step]
  BY <1>3
<1>5. /\ calls' = [calls EXCEPT ![r] = call]
      /\ call.step # "told" \/ call.op = "list"
  <2>1. calls' = [calls EXCEPT ![r] = call]
    BY <1>4 DEF GoTo
  <2>2. CASE calls[r] \in CreateCall
    BY <1>4, <2>1, <2>2 DEF CreateCall
  <2>3. CASE calls[r] \in OtherCall
    BY <1>4, <2>1, <2>3 DEF OtherCall
  <2> QED
    BY <1>2, <2>2, <2>3
<1> QED
  BY <1>1, <1>5, QuietStep

LEMMA CheckBalanceInv ==
  ASSUME ClientInv, NEW r \in Request, CheckBalance(r)
  PROVE  ClientInv' /\ Operation
<1>1. CASE GoTo(r, "failed")
  BY <1>1, GoOn DEF CheckBalance
<1>2. CASE GoTo(r, IF At(r, "check") THEN "recheck" ELSE "send")
  <2>1. CASE At(r, "check")
    BY <1>2, <2>1, GoOn DEF CheckBalance, At
  <2>2. CASE ~At(r, "check")
    <3>1. GoTo(r, "send") /\ calls[r].step = "recheck"
      BY <1>2, <2>2 DEF CheckBalance, At
    <3> QED
      BY <3>1, GoOn DEF CheckBalance
  <2> QED
    BY <2>1, <2>2
<1> QED
  BY <1>1, <1>2 DEF CheckBalance

LEMMA NotDoneInv ==
  ASSUME ClientInv, NEW r \in Request, At(r, "send"), calls[r].left > 0, Operation,
         calls' = [calls EXCEPT ![r].left = @ - 1], UNCHANGED <<made, unheard, paidBy>>
  PROVE  ClientInv'
<1> PICK call \in Calls : call = [calls[r] EXCEPT !.left = @ - 1]
  BY NextPeer
<1>1. call.step = "send" /\ calls' = [calls EXCEPT ![r] = call]
  BY NextPeer
<1> QED
  BY <1>1, QuietStep DEF At

LEMMA ReturnInv ==
  ASSUME ClientInv, NEW r \in Request, Return(r)
  PROVE  ClientInv' /\ Operation
<1>1. Operation
  BY IdleFacts DEF Return
<1>2. /\ calls' = [calls EXCEPT ![r] = NoCall] /\ made' = [made EXCEPT ![r] = {}]
      /\ unheard' = unheard \ {r} /\ UNCHANGED paidBy
  BY DEF Return
<1>3. NoCall \in Calls /\ NoCall.step = "idle"
  BY DEF Calls, NoCall
<1>4. Paid' /\ paidBy' \in [Id -> Nat]
  BY <1>1, <1>2, PaidLasts
<1>5. ToldOf(contracts', settled', NoCall, {}) /\ MadeOf(NoCall) = {}
  BY <1>3 DEF ToldOf, MadeOf
<1> QED
  BY <1>1, <1>2, <1>3, <1>4, <1>5, CallStep
-----------------------------------------------------------------------------
LEMMA PostedFacts ==
  ASSUME ClientInv, NEW r \in Request, NEW op \in Op, Posts(r, op)
  PROVE  /\ calls[r].who \in Party /\ calls[r].who \in Signer
         /\ At(r, "send") /\ calls[r].left > 0 /\ calls[r].step # "told"
         /\ op # "create" => calls[r].escrow \in Id
         /\ op = "create" => /\ calls[r].receiver \in Party /\ calls[r].arbitrator \in Signer
                             /\ calls[r].amount \in Nat
<1>1. calls[r] \in CreateCall \cup OtherCall /\ calls[r].op = op
  BY CallFacts DEF Posts, At, ClientInv, ClientTypeOK, Calls
<1>2. CASE calls[r] \in CreateCall
  BY <1>1, <1>2 DEF CreateCall, Posts, At, Signer
<1>3. CASE calls[r] \in OtherCall
  BY <1>1, <1>3 DEF OtherCall, Posts, At, Signer
<1> QED
  BY <1>1, <1>2, <1>3

LEMMA HandleCreateInv ==
  ASSUME ClientInv, NEW r \in Request, NEW d \in Id, HandleCreate(r, d)
  PROVE  ClientInv' /\ Operation
<1> DEFINE by == made[r] \cup {d}
<1>1. /\ Posts(r, "create") /\ "create" \in Op
      /\ CreateEscrow(d, calls[r].who, calls[r].receiver, calls[r].arbitrator, calls[r].amount)
      /\ made' = [made EXCEPT ![r] = by] /\ by \in SUBSET Id
      /\ Answer(r, d) /\ UNCHANGED paidBy
  BY DEF HandleCreate, Op, ClientInv, ClientTypeOK
<1>2. Operation
  BY <1>1, PostedFacts DEF Operation
<1>3. Paid' /\ paidBy' \in [Id -> Nat]
  BY <1>1, <1>2, PaidLasts
<1>4. contracts'[d].sender = calls[r].who /\ contracts'[d].status = "pending"
  BY <1>1 DEF CreateEscrow, ClientInv, Inv, TypeOK
<1>5. contracts'[d] # NoContract
  BY <1>4, NoContractFacts
<1>6. ToldOf(contracts', settled',
             [step |-> "told", op |-> "create", who |-> calls[r].who, escrow |-> d], by)
  BY <1>4, <1>5 DEF ToldOf
<1> HIDE DEF by
<1>7. by = made[r] \cup {d}
  BY DEF by
<1> QED
  BY <1>1, <1>2, <1>3, <1>6, <1>7, AnswerStep

\* An answer to a request about an escrow there is.
LEMMA AnswerAbout ==
  ASSUME ClientInv, Operation, NEW r \in Request, NEW op \in Op \ {"create", "list"},
         Posts(r, op), Answer(r, calls[r].escrow), UNCHANGED made,
         contracts'[calls[r].escrow] # NoContract,
         op \in {"release", "cancel"} => settled'[calls[r].escrow],
         op = "confirm" => calls[r].who \in contracts'[calls[r].escrow].signatures,
         paidBy' \in [Id -> Nat], Paid'
  PROVE  ClientInv'
<1>1. PICK d \in Id : d = calls[r].escrow
  BY PostedFacts
<1>2. made' = [made EXCEPT ![r] = made[r]] /\ made[r] \in SUBSET Id
  BY DEF ClientInv, ClientTypeOK
<1>3. PICK by \in SUBSET Id : by = made[r]
  BY <1>2
<1>4. ToldOf(contracts', settled',
             [step |-> "told", op |-> op, who |-> calls[r].who, escrow |-> d], by)
  BY <1>1 DEF ToldOf
<1> QED
  BY <1>1, <1>2, <1>3, <1>4, AnswerStep

LEMMA HandleConfirmInv ==
  ASSUME ClientInv, NEW r \in Request, HandleConfirm(r)
  PROVE  ClientInv' /\ Operation
<1> PICK d \in Id : d = calls[r].escrow
  BY PostedFacts DEF HandleConfirm, Op
<1>1. /\ Posts(r, "confirm") /\ "confirm" \in Op \ {"create", "list"}
      /\ ConfirmEscrow(d, calls[r].who) /\ calls[r].who \in Signer
      /\ UNCHANGED <<made, paidBy>>
  BY PostedFacts DEF HandleConfirm, Op
<1>2. Operation
  BY <1>1 DEF Operation, Next
<1>3. Paid' /\ paidBy' \in [Id -> Nat]
  BY <1>1, <1>2, PaidLasts
<1>4. CASE contracts[d].expired
  <2>1. calls' = [calls EXCEPT ![r].left = @ - 1] /\ UNCHANGED unheard
    BY <1>4 DEF HandleConfirm
  <2> QED
    BY <1>1, <1>2, <2>1, NotDoneInv, PostedFacts
<1>5. CASE ~contracts[d].expired
  <2>1. Answer(r, d) /\ Sign(d, calls[r].who)
    BY <1>1, <1>5 DEF HandleConfirm, ConfirmEscrow
  <2>2. contracts[d] # NoContract /\ contracts[d] \in Contract
    BY <1>1, OpenFacts DEF ConfirmEscrow, ClientInv
  <2>3. calls[r].who \in contracts'[d].signatures
    BY <2>1, <2>2 DEF Sign, ClientInv, Inv, TypeOK, Contract
  <2>4. contracts'[d] # NoContract
    BY <1>2, <2>2, OperationLasts DEF Lasting, ClientInv
  <2> QED
    BY <1>1, <1>2, <1>3, <2>1, <2>3, <2>4, AnswerAbout
<1> QED
  BY <1>4, <1>5

\* A payment out of the pool on behalf of a call.
LEMMA PaidOnce ==
  ASSUME ClientInv, Operation, NEW d \in Id, ~settled[d], settled' = [settled EXCEPT ![d] = TRUE],
         paidBy' = [paidBy EXCEPT ![d] = @ + 1]
  PROVE  Paid' /\ paidBy' \in [Id -> Nat] /\ settled'[d]
<1>1. /\ paidBy \in [Id -> Nat] /\ settled \in [Id -> BOOLEAN]
      /\ \A e \in Id : paidBy[e] <= 1 /\ (paidBy[e] > 0 => settled[e])
  BY DEF ClientInv, ClientTypeOK, Paid, Inv, TypeOK
<1>2. paidBy[d] = 0
  BY <1>1
<1>3. paidBy' \in [Id -> Nat] /\ settled'[d]
  BY <1>1
<1>4. \A e \in Id : paidBy'[e] <= 1 /\ (paidBy'[e] > 0 => settled'[e])
  BY <1>1, <1>2
<1> QED
  BY <1>3, <1>4 DEF Paid

LEMMA HandleReleaseInv ==
  ASSUME ClientInv, NEW r \in Request, HandleRelease(r)
  PROVE  ClientInv' /\ Operation
<1> PICK d \in Id : d = calls[r].escrow
  BY PostedFacts DEF HandleRelease, Op
<1>1. /\ Posts(r, "release") /\ "release" \in Op \ {"create", "list"}
      /\ ReleaseEscrow(d, calls[r].who) /\ calls[r].who \in Signer
      /\ paidBy' = [paidBy EXCEPT ![d] = @ + 1] /\ UNCHANGED made /\ Answer(r, d)
  BY PostedFacts DEF HandleRelease, Op
<1>2. Operation
  BY <1>1 DEF Operation, Next
<1>3. contracts[d] # NoContract /\ ~settled[d] /\ settled' = [settled EXCEPT ![d] = TRUE]
  BY <1>1, OpenFacts, ReleaseInv DEF ReleaseEscrow, ClientInv
<1>4. Paid' /\ paidBy' \in [Id -> Nat] /\ settled'[d]
  BY <1>1, <1>2, <1>3, PaidOnce
<1>5. contracts'[d] # NoContract
  BY <1>2, <1>3, OperationLasts DEF Lasting, ClientInv
<1> QED
  BY <1>1, <1>2, <1>4, <1>5, AnswerAbout

LEMMA HandleCancelInv ==
  ASSUME ClientInv, NEW r \in Request, HandleCancel(r)
  PROVE  ClientInv' /\ Operation
<1> PICK d \in Id : d = calls[r].escrow
  BY PostedFacts DEF HandleCancel, Op
<1>1. /\ Posts(r, "cancel") /\ "cancel" \in Op \ {"create", "list"}
      /\ CancelEscrow(d, calls[r].who) /\ calls[r].who \in Signer
      /\ paidBy' = [paidBy EXCEPT ![d] = @ + 1] /\ UNCHANGED made /\ Answer(r, d)
  BY PostedFacts DEF HandleCancel, Op
<1>2. Operation
  BY <1>1 DEF Operation, Next
<1>3. contracts[d] # NoContract /\ ~settled[d] /\ settled' = [settled EXCEPT ![d] = TRUE]
  BY <1>1, OpenFacts, RefundInv DEF CancelEscrow, Cancellable, ClientInv
<1>4. Paid' /\ paidBy' \in [Id -> Nat] /\ settled'[d]
  BY <1>1, <1>2, <1>3, PaidOnce
<1>5. contracts'[d] # NoContract
  BY <1>2, <1>3, OperationLasts DEF Lasting, ClientInv
<1> QED
  BY <1>1, <1>2, <1>4, <1>5, AnswerAbout

LEMMA ClientNextInv ==
  ASSUME ClientInv, [ClientNext]_<<clientVars, vars>>
  PROVE  ClientInv' /\ Operation
<1>1. ASSUME NEW r \in Request, ClientStep(r)
      PROVE  ClientInv' /\ Operation
  <2>1. ASSUME NEW s \in Party, NEW to \in Party, NEW a \in Signer, NEW amount \in Asked,
               \/ CreateEscrowTransfer(r, s, to, a, amount)
               \/ TransferTokensWithEscrow(r, s, to, a, amount)
        PROVE  ClientInv' /\ Operation
    BY <2>1, CreateBegins DEF TransferTokensWithEscrow
  <2>2. CASE NotDone(r)
    BY <2>2, NotDoneInv, IdleFacts DEF NotDone
  <2>3. CASE GiveUp(r)
    BY <2>3, GoOn DEF GiveUp, At
  <2>4. CASE GetEscrowDetails(r)
    BY <2>4, GoOn DEF GetEscrowDetails, Posts, At
  <2>5. CASE GetUserEscrows(r)
    BY <2>5, GoOn DEF GetUserEscrows, Posts, At
  <2> QED
    BY <1>1, <2>1, <2>2, <2>3, <2>4, <2>5, CallBegins, CheckBalanceInv, HandleCreateInv,
       HandleConfirmInv, HandleReleaseInv, HandleCancelInv, ReturnInv DEF ClientStep
<1>2. CASE [Next]_vars /\ UNCHANGED clientVars
  <2>1. Operation
    BY <1>2 DEF Operation
  <2>2. Inv' /\ Lasting /\ Paid'
    BY <1>2, <2>1, OperationStep, OperationLasts, PaidLasts DEF ClientInv, clientVars
  <2>3. \A r \in Request : ToldOf(contracts', settled', calls'[r], made'[r])
    BY <1>2, <2>2, ToldLasts DEF clientVars
  <2>4. (\A r \in Request \ unheard : made[r] = MadeOf(calls[r]))'
    BY <1>2 DEF ClientInv, clientVars, MadeOf
  <2>5. ClientTypeOK'
    BY <1>2 DEF ClientInv, ClientTypeOK, clientVars
  <2> QED
    BY <2>1, <2>2, <2>3, <2>4, <2>5 DEF ClientInv
<1> QED
  BY <1>1, <1>2 DEF ClientNext

\* What callers of the library are told holds for any number of calls, peers and
\* lost answers, and whatever others do with the escrows.
THEOREM AnswersAreTrue == ClientSpec => []AnswersHold
<1>1. ClientInv /\ [ClientNext]_<<clientVars, vars>> => ClientInv'
  BY ClientNextInv
<1> QED
  BY <1>1, ClientInitInv, ClientInvIs, PTL DEF ClientSpec

\* Through the library, too, the escrow manager is a custody.
THEOREM LibraryIsCustody == ClientSpec => IsCustody
<1>1. ClientInit => C!Init
  BY DEF ClientInit, Init, custody, C!Init, C!NoDeposit
<1>2. ClientInv /\ [ClientNext]_<<clientVars, vars>> => ClientInv' /\ [C!Next]_(C!vars)
  BY ClientNextInv, OperationStep DEF ClientInv
<1> QED
  BY <1>1, <1>2, ClientInitInv, PTL DEF ClientSpec, IsCustody, C!Spec
=============================================================================
