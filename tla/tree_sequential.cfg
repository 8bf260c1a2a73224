SPECIFICATION Spec
CONSTANTS
  NodeCount = 4
  Node <- MCNode
  ScopeOf <- MCOneScope
  Session = {s1}
  Ops = {"insert", "move", "edit", "delete", "rebuild"}
  MaxPath = 7
  MaxOps = 6
  MaxBatch = 2
INVARIANTS TypeOK OrdersContiguous
CHECK_DEADLOCK FALSE
