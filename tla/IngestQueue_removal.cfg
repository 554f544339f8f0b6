\* One job, one event: its row is removed while its worker is not through.
SPECIFICATION Spec
CONSTANTS
  NJobs = 1
  b1 = b1
  Batches = {b1}
  NoBatch = NoBatch
  BatchOf <- AllSingle
  Slots = {w1}
  MaxRetries = 1
  MaxEvents = 1
CHECK_DEADLOCK FALSE
PROPERTIES RemovalOnlyPrunes
