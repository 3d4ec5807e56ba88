CONSTANTS
  Callers = {c1, c2, c3}
  p1 = p1
  Peers = {p1}
  Malformed = malformed
  Bootstrap <- MCBootstrap
  MaxCalls = 5
SPECIFICATION FairSpec
INVARIANT DiscoveryWhileRunning
PROPERTIES OnlyDiscoveryStarves DiscoveryEnds
CHECK_DEADLOCK FALSE
