SPECIFICATION BulkSpec
CONSTANTS
  Worker = {w1, w2}
  Batches = 6
  MaxFailures = 2
  MaySourceFail = TRUE
INVARIANTS TypeOK ReturnsWhenAllIndexed StuckOnlyAfterError
PROPERTIES Delivers EndsOrStuck
CHECK_DEADLOCK FALSE
