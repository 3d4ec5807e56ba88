CONSTANTS
  Nodes = {n1, n2}
  Transactions = {t1, t2}
  max_transactions = 1
  witness_count = 3
  MaxAdds = 2
  MaxBatches = 2
  MaxVotes = 7
SPECIFICATION ConsensusSpec
INVARIANTS TransactionsConserved ExclusionNeedsSevenFailures ConsensusNeedsValidVotes
SYMMETRY Symmetry
CHECK_DEADLOCK FALSE
