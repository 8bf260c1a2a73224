SPECIFICATION Spec
CONSTANTS
  Doc = {d1}
  Caller = {c1, c2}
  Uid <- MCUid
  Deployments <- MCDeployments
  Ops = {"create", "update", "delete", "all", "zero", "write", "fault", "kill"}
  MaxRetries = 1
  MaxFailures = 1
INVARIANTS SyncedUnlessDrift LiveExactUnlessGap
PROPERTIES ServedStaysServed
SYMMETRY Callers
CHECK_DEADLOCK FALSE
