----------------------------- MODULE MCMpmcQueue -----------------------------
(* Instances of MpmcQueue for TLC. *)
EXTENDS MpmcQueue, TLC

Symmetry == Permutations(Threads) \union Permutations(Values)
=============================================================================
