------------------------------ MODULE MCPOBPC ------------------------------
(* Small instances of proof of batch proof consensus.                      *)
EXTENDS POBPC

Symmetry == Permutations(Nodes) \cup Permutations(Transactions)
=============================================================================
