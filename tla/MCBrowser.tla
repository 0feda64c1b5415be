----------------------------- MODULE MCBrowser -----------------------------
(***************************************************************************)
(* An instance of Browser for TLC: two storages; on the first a folder "a" *)
(* and a file "f", in "a" a folder "b"; the second is empty.               *)
(***************************************************************************)
EXTENDS Browser

Tree == [h \in {"a", "b", "f"} |->
           CASE h = "b" -> "a" [] h \in {"a", "f"} -> "sd"]
==============================================================================
