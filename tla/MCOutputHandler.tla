--------------------------- MODULE MCOutputHandler ---------------------------
(* OutputHandler for TLC. *)
EXTENDS OutputHandler, TLC

CONSTANTS w1, w2, w3, m1, m2, m3, m4

Symmetry == Permutations(Workers) \cup Permutations(Msgs)
=============================================================================
