---------------------------- MODULE ApiPolicyMC ----------------------------
(***************************************************************************)
(* Model values for ApiPolicy.                                             *)
(***************************************************************************)
EXTENDS ApiPolicy, TLC

Symmetry == Permutations(Accounts) \union Permutations(Fields)
              \union Permutations(Clis)
=============================================================================
