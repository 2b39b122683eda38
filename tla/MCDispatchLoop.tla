--------------------------- MODULE MCDispatchLoop ---------------------------
(* A small instance of DispatchLoop for TLC. *)
EXTENDS DispatchLoop, TLC

CONSTANTS c1, c2

TwoCallers == {c1, c2}
=============================================================================
