--------------------------- MODULE MCSessionMemory ---------------------------
(* Session memory with few calls, a short window and a short time to live. *)
EXTENDS SessionMemory, TLC

CONSTANTS m1, m2

\* The messages that are alike.
Symmetry == Permutations({m1, m2})
=============================================================================
