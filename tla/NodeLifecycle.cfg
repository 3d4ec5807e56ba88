CONSTANTS
  Peers = {p1}
  Clients = {c1}
  MaxDatagrams = 2
  MaxConnects = 1
  Configs = {good, bad, invalid}
  BadPeer = {bad}
  SamePorts = {invalid}
  NoDataDir = {invalid}
  MaxCommands = 3
SPECIFICATION FairNodeSpec
INVARIANTS HandlerDoneAfterStop ThreadsOnlyWhileOwned
PROPERTIES StuckUntilDestroyed StopReturns
CHECK_DEADLOCK FALSE
