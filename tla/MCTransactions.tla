--------------------------- MODULE MCTransactions ---------------------------
(***************************************************************************)
(* An instance of Transactions for TLC: two calls, after the handshake, of *)
(* any kind from any thread, one failure or end of the process, one cut    *)
(* transfer and one more attempt to connect.                               *)
(***************************************************************************)
EXTENDS Transactions

All == {"read", "get", "delete", "mkdir", "send", "close"}
==============================================================================
