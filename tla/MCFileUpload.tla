---------------------------- MODULE MCFileUpload ----------------------------
(***************************************************************************)
(* An instance of FileUpload for TLC.  Packets of 2 bytes stand for High   *)
(* Speed, of 4 for SuperSpeed; a chunk is two packets, and files are long  *)
(* enough for two chunks after the first packet in either case, with every *)
(* remainder.                                                              *)
(***************************************************************************)
EXTENDS FileUpload

PacketSizes == {2, 4}
==============================================================================
