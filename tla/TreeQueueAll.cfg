SPECIFICATION FairSpec
CONSTANTS
  Node = {n1, n2, n3}
  Root = n1
  NoNode = NoNode
  Commands = {"stop_all", "clear_all"}
  MaxCommands = 2
INVARIANTS
  StartedInOrder
PROPERTIES
  EveryMessageServed
CHECK_DEADLOCK FALSE
