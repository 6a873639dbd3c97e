---------------------------- MODULE MCNodeParts ----------------------------
(***************************************************************************)
(* Instances of Token and of Governance for TLC.  The two run in a node    *)
(* and share no state, so that a step of one changes nothing for the       *)
(* other: TLC explores one or the other.  The words are small, so that     *)
(* sums wrap; the powers have the ratios of the mock validators'.          *)
(***************************************************************************)
EXTENDS Token, Governance, TLC

CONSTANTS alice, bob, genesis, institutional

VARIABLE part   \* which of the two is explored

MockPower ==
  [v \in Validator |-> IF v = genesis THEN 20 ELSE 6]

InitParts ==
  /\ part \in {"token", "governance"}
  /\ TokenInit
  /\ GovInit

NextPart ==
  /\ UNCHANGED part
  /\ \/ part = "token" /\ TokenNext /\ UNCHANGED govVars
     \/ part = "governance" /\ GovNext /\ UNCHANGED tokenVars

SpecParts == InitParts /\ [][NextPart]_<<part, tokenVars, govVars>> /\ (part = "governance" => GovFairness)
=============================================================================
