\* The documented meaning of cancelled, which the executor's unconditional writes break.
SPECIFICATION Spec
CONSTANTS
  Servers = {s1}
  Flows <- MCFlows
  Nodes <- MCNodes
  Kind <- MCKind
  Succ <- MCSucc
  Start = "start"
  MaxNodes = 60
  MaxEdits = 2
  NoNode = NoNode
  NoFlow = NoFlow
PROPERTY CancelledIsFinal
CHECK_DEADLOCK FALSE
