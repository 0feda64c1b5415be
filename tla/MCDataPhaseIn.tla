--------------------------- MODULE MCDataPhaseIn ---------------------------
(***************************************************************************)
(* Instances of DataPhaseIn for TLC: a header of 2 bytes, packets of 4, a  *)
(* chunk of two packets, a small one of one.  MaxLen plays 2^32 - 1: Small *)
(* sizes fit into it, with every remainder modulo packet and chunk; Large  *)
(* ones do not.                                                            *)
(***************************************************************************)
EXTENDS DataPhaseIn

Small == 0..21
Large == 22..30
==============================================================================
