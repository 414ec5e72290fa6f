---------------------------- MODULE MCCowListWops ----------------------------
(* Instances of CowListWops for TLC. *)
EXTENDS CowListWops

Symmetry == Permutations(Snaps) \union Permutations(Items)
=============================================================================
