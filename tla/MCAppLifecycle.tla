--------------------------- MODULE MCAppLifecycle ---------------------------
(***************************************************************************)
(* Instances of AppLifecycle for TLC.  Three identities are enough for a   *)
(* session that lives, one whose handle leaked and one being built; a      *)
(* connection is then always found a free identity.                        *)
(***************************************************************************)
EXTENDS AppLifecycle

CONSTANTS g1, g2, g3

Three == {g1, g2, g3}
==============================================================================
