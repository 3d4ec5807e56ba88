CONSTANTS
  Clients = {c1, c2}
  alice = alice
  bob = bob
  Addresses = {alice, bob}
  Keys = {k1}
  Transactions <- MCTransactions
  W = 2
  MAX_HISTORY_PER_ACCOUNT = 1
  Builds = {"libstdc++", "libc++"}
  MaxTxs = 2
  MaxCalls = 3
SPECIFICATION FairSpec
INVARIANTS HistoryIsRecentSuffix
PROPERTIES WedgedForGood OnlyReadersStarve
CHECK_DEADLOCK FALSE
