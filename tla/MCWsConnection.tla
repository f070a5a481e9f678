--------------------------- MODULE MCWsConnection ---------------------------
(* WsConnection on a small instance.  The callers of close() are model       *)
(* values, and interchangeable: no action or property names one of them.     *)
EXTENDS WsConnection, TLC

CONSTANTS run, stop

Symmetric == Permutations({run, stop})
=============================================================================
