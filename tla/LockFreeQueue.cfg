CONSTANTS
  Producers = {p1, p2}
  Consumers = {c1, c2}
  Nodes = {x1, x2, x3}
  Null = Null
  W = 16
  MaxItems = 2
  Usages = {"single_producer", "producers_first", "consumers_race", "weak"}
SPECIFICATION FairSpec
INVARIANTS NoUseAfterDelete SizeAtRest
PROPERTIES ImplementsFifoQueue AllDelivered
CHECK_DEADLOCK FALSE
