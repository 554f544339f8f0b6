\* A standalone job and a member of a batch on one slot, any two events, under
\* fairness.
SPECIFICATION LiveSpec
CONSTANTS
  NJobs = 2
  b1 = b1
  Batches = {b1}
  NoBatch = NoBatch
  BatchOf <- OneAndMember
  Slots = {w1}
  MaxRetries = 1
  MaxEvents = 2
CHECK_DEADLOCK FALSE
INVARIANTS TypeOK RetryBound WorkConserving
PROPERTIES JobSettles NightWakes WaiterWakes
