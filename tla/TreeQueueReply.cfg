SPECIFICATION Spec
CONSTANTS
  Node = {n1, n2, n3}
  Root = n1
  NoNode = NoNode
  Commands = {"stop_task", "clear_branch"}
  MaxCommands = 3
SYMMETRY ReplySymmetry
INVARIANTS
  TypeOK
  QueueDiscipline
  BusyTreeIsAttended
  CancelledStaysCancelled
  ParentEndsFirst
PROPERTIES
  ServesInTurn
CHECK_DEADLOCK FALSE
