-------------------------- MODULE MCBatchProcessor --------------------------
(* MCStateManager's ledger, with one client beside the workers. *)
EXTENDS BatchProcessor
CONSTANTS alice
MCTransactions == {[sender |-> alice, nonce |-> 1, amount |-> 1, gas |-> 1, signed |-> TRUE]}
=============================================================================
