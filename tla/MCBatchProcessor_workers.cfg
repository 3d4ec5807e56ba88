CONSTANTS
  Clients = {c1, w1, w2}
  Workers = {w1, w2}
  alice = alice
  Addresses = {alice}
  Keys = {k1}
  Transactions <- MCTransactions
  W = 2
  MAX_HISTORY_PER_ACCOUNT = 1
  Builds = {"libstdc++", "libc++"}
  MaxTxs = 1
  MaxCalls = 1
  min_batch_size = 2
  max_batch_size = 2
  MaxSubmits = 3
SPECIFICATION FairBatchSpec
PROPERTIES PendingIsTaken WorkersJoined
CHECK_DEADLOCK FALSE
