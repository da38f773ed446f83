SPECIFICATION Spec
CONSTANTS
  Anchors = {a1}
  Panes <- MCPanes
  MergeBound = 2
INVARIANT AnchorsKept
CHECK_DEADLOCK FALSE
