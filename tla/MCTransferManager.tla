------------------------- MODULE MCTransferManager -------------------------
(***************************************************************************)
(* Instances of TransferManager for TLC.                                   *)
(***************************************************************************)
EXTENDS TransferManager, TLC

CONSTANTS eth, bh, other, hexForm, bhForm

Forms == (eth :> hexForm) @@ (bh :> bhForm)

\* Requests to the relay chain, from a chain with a handler under either ID and
\* from one without under the first; one is refused for its sender's address.
Ask(i, chain, form) ==
  [id |-> i, from |-> chain, to |-> bh, fromForm |-> form, toForm |-> bhForm,
   positive |-> TRUE, inTime |-> TRUE]

CONSTANTS i1, i2

ToRelayChain ==
  {Ask(i1, eth, hexForm), Ask(i2, eth, hexForm), Ask(i1, other, hexForm),
   Ask(i1, eth, bhForm)}
=============================================================================
