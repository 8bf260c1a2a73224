SPECIFICATION Spec
CONSTANTS
  NodeCount = 3
  Node <- MCNode
  ScopeOf <- MCOneScope
  Session = {s1, s2}
  Ops = {"insert", "move", "edit", "delete", "delete_many", "rebuild", "crash"}
  MaxPath = 6
  MaxOps = 5
  MaxBatch = 2
PROPERTIES ForestKept ExactKept RebuildExactUnlessPlaceholder
CHECK_DEADLOCK FALSE
