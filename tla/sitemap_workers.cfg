SPECIFICATION Safe
CONSTANTS
  Section = {s1}
  Item = {1}
  Worker = {w1, w2}
  BatchSize = 1
  MaxUrls = 1
  SplitsEarly = FALSE
  Ops = {"cleanup","fail","serve","crash","early"}
  MaxChanges = 1
  MaxFailures = 1
INVARIANTS FreshUnlessMissed
SYMMETRY Interchangeable
CHECK_DEADLOCK FALSE
