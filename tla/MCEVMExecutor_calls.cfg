CONSTANTS
  Contracts = {k1, k2}
  Accounts = {alice, bob}
  Words = {0, 1}
  Programs <- MCPrograms
  Limits = {2, 150, 20006, 60000}
  Values = {0, 1}
  StackLimit = 3
  W = 4
  MaxCalls = 4
SPECIFICATION Spec
INVARIANTS GasWithinLimit
PROPERTIES OutcomeDetermined
CHECK_DEADLOCK FALSE
