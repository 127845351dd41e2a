------------------------------ MODULE MCPairing ------------------------------
(* Small instances of Pairing for TLC. *)
EXTENDS Pairing, TLC

Symmetry == Permutations(Mobile) \cup Permutations(Thread)
=============================================================================
