----------------------------- MODULE MCStoreFile -----------------------------
(* Values for TLC: this build and the one before it.                       *)
EXTENDS StoreFile, TLC

MCSymmetry == Permutations(Procs) \cup Permutations(Contents)
=============================================================================
