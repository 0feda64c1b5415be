----------------------------- MODULE MCConnect -----------------------------
(***************************************************************************)
(* An instance of Connect for TLC: two devices of any of these kinds.      *)
(***************************************************************************)
EXTENDS Connect

Setting(i, m, a, b) == [iface |-> i, mtp |-> m, in |-> a, out |-> b]
Kind(id, class, settings) == [id |-> id, class |-> class, settings |-> settings]

AllKinds == {
  Kind("switch", TRUE, <<Setting(1, TRUE, TRUE, TRUE)>>),
  Kind("switch", FALSE, <<>>),                          \* no responder running
  Kind("phone", TRUE, <<Setting(1, FALSE, TRUE, TRUE), Setting(2, TRUE, TRUE, TRUE)>>),
  Kind("phone", FALSE, <<Setting(1, FALSE, TRUE, TRUE)>>),  \* only charging
  Kind("camera", TRUE, <<>>),          \* its class is in another configuration
  Kind("split", TRUE, <<Setting(1, TRUE, TRUE, FALSE), Setting(2, TRUE, FALSE, TRUE)>>),
  Kind("double", TRUE, <<Setting(1, TRUE, TRUE, TRUE), Setting(2, TRUE, TRUE, TRUE)>>)}
==============================================================================
