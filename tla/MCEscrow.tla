------------------------------ MODULE MCEscrow ------------------------------
(***************************************************************************)
(* Instances of Escrow and of EscrowClient for TLC.                        *)
(***************************************************************************)
EXTENDS EscrowClient, TLC

CONSTANTS alice, bob, carol, e1, e2

\* One user owns Rich, and nobody has paid into the pool yet.
CONSTANT Rich

Endowment == [a \in Party \cup {Pool} |-> IF a = alice THEN Rich ELSE 0]

Symmetry == Permutations(Id)

\* Escrows go from alice to bob; at most one of them has an arbitrator, who is
\* bob.
AliceToBob ==
  /\ \A d \in Id : contracts[d] # NoContract =>
       /\ contracts[d].sender = alice /\ contracts[d].receiver = bob
       /\ contracts[d].arbitrator \in {Nobody, bob}
  /\ \A d, c \in Id :
       d # c /\ contracts[d] # NoContract /\ contracts[c] # NoContract =>
         Nobody \in {contracts[d].arbitrator, contracts[c].arbitrator}

VARIABLE part   \* whether calls of the library are explored

InitParts == part \in {"manager", "library"} /\ ClientInit

NextPart ==
  /\ UNCHANGED part
  /\ \/ part = "manager" /\ Next /\ UNCHANGED clientVars
     \/ part = "library" /\ ClientNext

SpecParts == InitParts /\ [][NextPart]_<<part, clientVars, vars>>

\* Beside calls of the library the escrows are of 1, have no arbitrator and are not
\* disputed, and money moves by escrows only.
Small ==
  /\ \A d \in Id : contracts[d] # NoContract =>
       /\ contracts[d].arbitrator = Nobody /\ contracts[d].amount = 1
       /\ contracts[d].status # "disputed"
  /\ balances[bob] = Cardinality({d \in Id : contracts[d].status = "released"})
  /\ balances[Pool] = Total([d \in Id |-> Owed(d)])
  /\ \A r \in Request : calls[r] # NoCall /\ "amount" \in DOMAIN calls[r] =>
       /\ calls[r].who = alice /\ calls[r].receiver = bob
       /\ calls[r].arbitrator = Nobody /\ calls[r].amount = 1

Bound == AliceToBob /\ (part = "library" => Small)
=============================================================================
