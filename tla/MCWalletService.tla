-------------------------- MODULE MCWalletService --------------------------
(***************************************************************************)
(* Instances of WalletService and of Accounts for TLC.  The users, their   *)
(* sessions and how wallets come to be have no state in common with what   *)
(* is done with wallets: TLC explores one or the other.                    *)
(***************************************************************************)
EXTENDS WalletService, Accounts, TLC

VARIABLE part   \* which of the two is explored

InitParts ==
  /\ part \in {"requests", "accounts"}
  /\ Init /\ AccInit

NextPart ==
  /\ UNCHANGED part
  /\ \/ part = "requests" /\ Next /\ UNCHANGED accVars
     \/ part = "accounts" /\ AccNext /\ UNCHANGED vars

SpecParts == InitParts /\ [][NextPart]_<<part, accVars, vars>>

\* Every legacy wallet owns one unit of BHX.
Endowment == [a \in Account |-> IF a \in Legacy THEN 1 ELSE 0]

Symmetry ==
  Permutations(Request) \cup Permutations(Registrant) \cup Permutations(Browser)

\* Only legacy wallets, which are the only ones that open, are paid.
ToLegacy == \A r \in Request : job[r] # Idle => job[r].to \in Legacy

\* The command line is used while no browser is logged in.
CliAlone == cli # 0 => \A b \in Browser : cookies[b] = NoSession /\ tasks[b] = NoTask

Bound == ToLegacy /\ CliAlone
=============================================================================
