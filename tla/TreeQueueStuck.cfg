SPECIFICATION FairSpec
CONSTANTS
  Node = {n1, n2}
  Root = n1
  NoNode = NoNode
  Commands = {"stop_task"}
  MaxCommands = 1
PROPERTY EveryMessageServed
CHECK_DEADLOCK FALSE
