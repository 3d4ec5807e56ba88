CONSTANTS
  Nodes = {n1, n2, n3}
  Transactions = {t1}
  max_transactions = 1
  witness_count = 3
  MaxAdds = 1
  MaxBatches = 1
  MaxVotes = 4
SPECIFICATION ConsensusSpec
INVARIANT TwoThirdsOfWitnesses
CHECK_DEADLOCK FALSE
