SPECIFICATION Spec
CONSTANTS
  Client = {c1, c2}
  Deployments <- MCDeployments
  MaxVersion = 2
  MaxFaults = 1
INVARIANTS ResultsFresh RulesFresh AnswersRight CountsExact
SYMMETRY Clients
CHECK_DEADLOCK FALSE
