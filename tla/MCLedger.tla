------------------------------ MODULE MCLedger ------------------------------
(***************************************************************************)
(* Instances of Ledger for TLC: a validator with genesis stake, native     *)
(* money and BHX, and "system", to which one more payment than its balance *)
(* has room for can be made.                                               *)
(***************************************************************************)
EXTENDS Ledger

CONSTANT val

Users == {val, "system"}
StartNative == [u \in Users |-> IF u = val THEN 1 ELSE Word - 2]
StartTokens == [u \in Users |-> 1]
ValidatorStake == [u \in Users |-> IF u = val THEN 1 ELSE 0]
=============================================================================
