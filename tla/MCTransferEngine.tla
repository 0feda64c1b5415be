-------------------------- MODULE MCTransferEngine --------------------------
(***************************************************************************)
(* The instance of TransferEngine for TLC: its constants need no           *)
(* definition here.  Liveness is checked, so the items, though no action   *)
(* tells them apart, are no symmetry set.                                  *)
(***************************************************************************)
EXTENDS TransferEngine
==============================================================================
