SPECIFICATION Spec
CONSTANTS
  Section = {s1, s2}
  Item = {1, 2}
  Worker = {w1}
  BatchSize = 1
  MaxUrls = 1
  SplitsEarly = FALSE
  Ops = {"force", "fail", "early", "crash", "serve"}
  MaxChanges = 1
  MaxFailures = 1
INVARIANTS KeysetExact ShardLimits FreshUnlessMissed IndexMatches
PROPERTIES Recovers
CHECK_DEADLOCK FALSE
