SPECIFICATION Spec
CONSTANTS
  Node = {n1, n2, n3}
  Root = n1
  NoNode = NoNode
  Commands = {"stop_all"}
  MaxCommands = 1
INVARIANT OneCliAtATime
CHECK_DEADLOCK FALSE
