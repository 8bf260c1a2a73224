SPECIFICATION IntelligenceSpec
CONSTANTS
  Command = {c1, c2}
  Deployments <- MCDeployments
  MaxDay = 2
INVARIANTS RewritesRight ClicksKept ReportsRight
SYMMETRY Commands
CHECK_DEADLOCK FALSE
