---------------------------- MODULE MCSdkProcess ----------------------------
(***************************************************************************)
(* Instances of Lifecycle, ErrorHandler and LogStreamer for TLC, which are *)
(* parts of one process.  They share no state but for the call of the      *)
(* error handler's shutdown, which ErrorHandler shows to return: TLC       *)
(* explores one of the three.                                              *)
(***************************************************************************)
EXTENDS Lifecycle, ErrorHandler, LogStreamer

VARIABLE part   \* which of the three is explored

InitParts ==
  /\ part \in {"lifecycle", "handler", "logs"}
  /\ LifeInit /\ HandlerInit /\ StreamInit

LifePart == part = "lifecycle" /\ LifeNext /\ UNCHANGED <<part, handlerVars, streamVars>>
HandlerPart == part = "handler" /\ HandlerNext /\ UNCHANGED <<part, lifeVars, streamVars>>
StreamPart == part = "logs" /\ StreamNext /\ UNCHANGED <<part, lifeVars, handlerVars>>

\* At first none of the steps that must follow is possible, so that fairness asks
\* nothing of the parts that stand still.
SpecParts ==
  /\ InitParts
  /\ [][LifePart \/ HandlerPart \/ StreamPart]_<<part, lifeVars, handlerVars, streamVars>>
  /\ LifeFairness /\ HandlerFairness
=============================================================================
