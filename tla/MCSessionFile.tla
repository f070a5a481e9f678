--------------------------- MODULE MCSessionFile ---------------------------
(* SessionFile on a small instance.                                         *)
EXTENDS SessionFile, TLC

CONSTANTS p, q

Symmetric == Permutations({p, q})
=============================================================================
