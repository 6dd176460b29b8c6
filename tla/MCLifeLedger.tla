---------------------------- MODULE MCLifeLedger ----------------------------
(* LifeLedger for TLC: interchangeable players. *)
EXTENDS LifeLedgerProps, TLC

Symmetry == Permutations(Players)
=============================================================================
