---------------------------- MODULE VaultMoveMC ----------------------------
(***************************************************************************)
(* Model values for VaultMove, and what TLC need not tell apart.           *)
(***************************************************************************)
EXTENDS VaultMove, TLC

MCSymmetry == Permutations(Clis) \union Permutations(Users)
                \union Permutations(Vaults)
=============================================================================
