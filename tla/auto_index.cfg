SPECIFICATION Spec
CONSTANTS
  Doc = {d1, d2}
  Client = {c1, c2}
  Worker = {w1, w2}
  MaxRetries = 1
  MaxChanges = 3
  MaxFailures = 1
SYMMETRY Symmetry
INVARIANTS TypeOK AgreesUnlessGap UnattendedOnlyByMarker
CHECK_DEADLOCK FALSE
