--------------------------- MODULE MCEventIntake ---------------------------
(***************************************************************************)
(* Instances of EventIntake for TLC.                                       *)
(***************************************************************************)
EXTENDS EventIntake

CONSTANTS eth, sol, t1, t2

SeenBy == [t \in Tx |-> IF t = t1 THEN eth ELSE sol]
=============================================================================
