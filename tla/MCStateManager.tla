--------------------------- MODULE MCStateManager ---------------------------
(* Two accounts and transactions at the edges of the checks: one that can be *)
(* paid for and one whose amount + gas wraps to nothing.                     *)
EXTENDS StateManager

Tx(s, n, amount, gas, ok) ==
  [sender |-> s, nonce |-> n, amount |-> amount, gas |-> gas, signed |-> ok]

CONSTANTS alice, bob

MCTransactions == {Tx(alice, 1, 1, 0, TRUE), Tx(bob, 1, W - 1, 1, TRUE)}
=============================================================================
