------------------------- MODULE MCStoreTransaction -------------------------
(* StoreTransaction for TLC: the runs name their sets in the .cfg files. *)
EXTENDS StoreTransaction, TLC

Symmetry == Permutations(Proc)
=============================================================================
