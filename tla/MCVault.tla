------------------------------ MODULE MCVault ------------------------------
(* Threads are alike, and so are texts. *)
EXTENDS Vault, TLC

Symmetry == Permutations(Threads) \cup Permutations(Texts)
=============================================================================
