----------------------------- MODULE MCDatasets -----------------------------
(***************************************************************************)
(* An instance of Datasets for TLC.  A byte that counts to 4 stands for    *)
(* one that counts to 255; names are longer than that, and of ASCII bytes  *)
(* and bytes of longer characters.  The device's own names have units of   *)
(* every length in UTF-8 and surrogates; its strings are terminated, not   *)
(* terminated, empty, or padded with zeros.                                *)
(***************************************************************************)
EXTENDS Datasets

Seqs(S, n) == UNION {[1..k -> S] : k \in 0..n}

LocalNames == Seqs({97, 195}, 5)
DeviceNames == Seqs({97, 233, 8364, 55357}, 2)
Strings ==
  {Empty, Terminated(<<97, 98>>), [count |-> 2, units |-> <<97, 98>>],
   [count |-> 4, units |-> <<97, 0, 0, 0>>]}
Bytes == {0, 97, 55357}
Cuts == 0..90
==============================================================================
