------------------------------- MODULE Escrow -------------------------------
(***************************************************************************)
(* The escrow manager (core/relay-chain/escrow/escrow.go) over the         *)
(* balances of one token.  Every operation holds the manager's lock, so it *)
(* is one action; a call that returns an error before it has changed       *)
(* anything is no action.                                                  *)
(*                                                                         *)
(* Balances do not wrap here: all of them together are below 2^64 (module  *)
(* Token says when that holds).  The pool is no party of an escrow.        *)
(***************************************************************************)
EXTENDS Integers, FiniteSets, Totals

CONSTANTS
  Party,     \* users
  Nobody,    \* the empty address: the arbitrator of an escrow that has none
  Pool,      \* the account "escrow_contract"
  Id,        \* escrow IDs
  Funds      \* what every account owns at the start

ASSUME EscrowAssumption ==
  /\ IsFiniteSet(Party) /\ IsFiniteSet(Id)
  /\ Nobody \notin Party /\ Pool \notin Party
  /\ Funds \in [Party \cup {Pool} -> Nat]

Account == Party \cup {Pool}
Signer == Party \cup {Nobody}

RequiredSigs == 2

Status == {"pending", "confirmed", "released", "cancelled", "disputed"}

Contract ==
  [sender : Party, receiver : Party, arbitrator : Signer, amount : Nat,
   status : Status, signatures : SUBSET Signer, expired : BOOLEAN]

NoContract == [status |-> "none"]

VARIABLES
  balances,   \* balances of the token
  contracts,  \* em.Contracts, NoContract where the map has none
  settled     \* history: whether the amount of an escrow has been paid out

vars == <<balances, contracts, settled>>

Init ==
  /\ balances = Funds
  /\ contracts = [d \in Id |-> NoContract]
  /\ settled = [d \in Id |-> FALSE]

\* Token.Transfer.
Moved(from, to, amount) ==
  LET less == [balances EXCEPT ![from] = @ - amount]
  IN  [less EXCEPT ![to] = @ + amount]

CreateEscrow(d, sender, receiver, arbitrator, amount) ==
  /\ contracts[d] = NoContract
  /\ balances[sender] >= amount
  /\ balances' = Moved(sender, Pool, amount)
  /\ contracts' = [contracts EXCEPT ![d] =
       [sender |-> sender, receiver |-> receiver, arbitrator |-> arbitrator,
        amount |-> amount, status |-> "pending", signatures |-> {},
        expired |-> FALSE]]
  /\ UNCHANGED settled

\* The clock passes ExpiresAt.
Expire(d) ==
  /\ contracts[d] # NoContract
  /\ ~contracts[d].expired
  /\ contracts' = [contracts EXCEPT ![d].expired = TRUE]
  /\ UNCHANGED <<balances, settled>>

\* The amount is transferred out of the pool, unless the pool is short of it.
PayOut(d, payee) ==
  IF balances[Pool] >= contracts[d].amount
  THEN /\ balances' = Moved(Pool, payee, contracts[d].amount)
       /\ settled' = [settled EXCEPT ![d] = TRUE]
  ELSE UNCHANGED <<balances, settled>>

\* releaseTokensToSender, whose error the callers ignore, and the new status.
Refund(d) ==
  /\ PayOut(d, contracts[d].sender)
  /\ contracts' = [contracts EXCEPT ![d].status = "cancelled"]

\* A signature; with enough of them the escrow is confirmed.
Sign(d, signer) ==
  /\ signer \in {contracts[d].sender, contracts[d].receiver, contracts[d].arbitrator}
  /\ ~contracts[d].expired
  /\ LET sigs == contracts[d].signatures \cup {signer} IN
     contracts' = [contracts EXCEPT
       ![d].signatures = sigs,
       ![d].status = IF Cardinality(sigs) >= RequiredSigs THEN "confirmed" ELSE @]
  /\ UNCHANGED <<balances, settled>>

ConfirmEscrow(d, signer) ==
  /\ contracts[d].status = "pending"
  /\ \/ Sign(d, signer)
     \/ /\ signer \in {contracts[d].sender, contracts[d].receiver, contracts[d].arbitrator}
        /\ contracts[d].expired
        /\ Refund(d)

FaultyReleaseEscrow(d, releaser) ==
  /\ contracts[d].status = "confirmed"
  /\ releaser \in {contracts[d].sender, contracts[d].arbitrator}
  /\ balances[Pool] >= contracts[d].amount
  /\ PayOut(d, contracts[d].receiver)
  /\ UNCHANGED contracts

\* A failed transfer leaves a release undone.
ReleaseEscrow(d, releaser) ==
  /\ contracts[d].status = "confirmed"
  /\ releaser \in {contracts[d].sender, contracts[d].arbitrator}
  /\ balances[Pool] >= contracts[d].amount
  /\ PayOut(d, contracts[d].receiver)
  /\ contracts' = [contracts EXCEPT ![d].status = "released"]

FaultyCancellable == Status \ {"released", "cancelled"}

Cancellable == {"pending", "confirmed"}

CancelEscrow(d, canceller) ==
  /\ contracts[d].status \in Cancellable
  /\ canceller \in {contracts[d].sender, contracts[d].arbitrator}
  /\ Refund(d)

\* The status is not looked at: a settled escrow can still be disputed.
DisputeEscrow(d, disputer) ==
  /\ contracts[d] # NoContract
  /\ disputer \in {contracts[d].sender, contracts[d].receiver}
  /\ contracts' = [contracts EXCEPT ![d].status = "disputed"]
  /\ UNCHANGED <<balances, settled>>

Expirable(d) == contracts[d].status = "pending" /\ contracts[d].expired

\* One round of the loop of ProcessExpiredEscrows.  Nothing in the program calls
\* it; it is an operation of the manager all the same.
ProcessExpiredEscrows(d) ==
  /\ Expirable(d)
  /\ Refund(d)

\* The token's other users.
Pay(from, to, amount) ==
  /\ balances[from] >= amount
  /\ balances' = Moved(from, to, amount)
  /\ UNCHANGED <<contracts, settled>>

Next ==
  \/ \E d \in Id, s, r \in Party, a \in Signer, amount \in 0 .. Total(Funds) :
       CreateEscrow(d, s, r, a, amount)
  \/ \E d \in Id :
       \/ Expire(d)
       \/ ProcessExpiredEscrows(d)
       \/ \E who \in Signer :
            \/ ConfirmEscrow(d, who)
            \/ ReleaseEscrow(d, who)
            \/ CancelEscrow(d, who)
            \/ DisputeEscrow(d, who)
  \/ \E from \in Party, to \in Account, amount \in 0 .. Total(Funds) :
       Pay(from, to, amount)

Spec == Init /\ [][Next]_vars
-----------------------------------------------------------------------------
\* Types of the manager's state and of the history.
TypeOK ==
  /\ balances \in [Account -> Nat]
  /\ contracts \in [Id -> Contract \cup {NoContract}]
  /\ settled \in [Id -> BOOLEAN]

\* What the pool still owes for an escrow.
Owed(d) ==
  IF contracts[d] = NoContract \/ settled[d] THEN 0 ELSE contracts[d].amount

\* The pool holds the amounts of all the escrows that have not been paid out,
\* however they were confirmed, disputed or cancelled: a refund, whose error the
\* manager ignores, cannot fail.
Backed == balances[Pool] >= Total([d \in Id |-> Owed(d)])

\* The status tells whether the money is out, but for a disputed escrow.
StatusTellsSettled ==
  \A d \in Id : contracts[d] # NoContract =>
    /\ contracts[d].status \in {"released", "cancelled"} => settled[d]
    /\ contracts[d].status \in {"pending", "confirmed"} => ~settled[d]

\* The escrow manager is a custody: whatever sequence of calls it gets, each
\* deposit is settled at most once, in full, with its sender or receiver.
custody ==
  [d \in Id |->
    IF contracts[d] = NoContract THEN [state |-> "none"]
    ELSE [state |-> IF settled[d] THEN "settled" ELSE "held",
          from |-> contracts[d].sender, to |-> contracts[d].receiver,
          amount |-> contracts[d].amount]]

C == INSTANCE Custody WITH deposit <- custody

IsCustody == C!Spec
=============================================================================
