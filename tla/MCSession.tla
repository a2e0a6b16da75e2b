----------------------------- MODULE MCSession -----------------------------
(* Small instances of SessionBuffer for TLC. *)
EXTENDS SessionBuffer

CONSTANTS t1, t2, t3

Symmetry == Permutations(Thread)
=============================================================================
