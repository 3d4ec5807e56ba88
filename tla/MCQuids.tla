------------------------------ MODULE MCQuids ------------------------------
(* Small instances of the token contract. *)
EXTENDS Quids, TLC

Symmetry == Permutations(Chains) \cup Permutations(Accounts) \cup Permutations(Valid)
=============================================================================
