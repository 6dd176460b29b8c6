---------------------------- MODULE MCPayoutOutbox ----------------------------
(* Two rows, two loops, two invoices. *)
EXTENDS PayoutOutboxProps, TLC

CONSTANTS p1, p2, h1, h2, w1, w2

Symmetry == Permutations({p1, p2}) \cup Permutations({h1, h2}) \cup Permutations({w1, w2})
=============================================================================
