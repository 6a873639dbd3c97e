--------------------------- MODULE MCBridgeRelay ---------------------------
(***************************************************************************)
(* Instances of BridgeRelay for TLC.                                       *)
(***************************************************************************)
EXTENDS BridgeRelay

CONSTANTS ann, bo

AnnsFunds == [a \in User \cup {Pool} |-> IF a = ann THEN 1 ELSE 0]

Seen ==
  {[source |-> "ethereum", from |-> ann], [source |-> "ethereum", from |-> bo],
   [source |-> "solana", from |-> ann]}

Call(source, dest) ==
  [source |-> source, dest |-> dest, from |-> ann, to |-> bo, amount |-> 1]

OutAndIn == {Call("blackhole", "ethereum"), Call("ethereum", "blackhole")}
=============================================================================
