SPECIFICATION FairSpec
CONSTANTS
  ToolName <- MCToolName
  Task <- TaskName
  ToolCallName <- MCToolCallName
  None = None
  ToolChunk <- MCToolChunk
  MaxChunks = 3
INVARIANTS
  ArgsDelivered
  TaskArgsPatched
PROPERTIES
  KeepsProtocol
  EveryMessageEnds
CHECK_DEADLOCK FALSE
