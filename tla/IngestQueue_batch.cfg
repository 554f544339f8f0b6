\* A batch of two on two slots, any three events.
SPECIFICATION Spec
CONSTANTS
  NJobs = 2
  b1 = b1
  Batches = {b1}
  NoBatch = NoBatch
  BatchOf <- BatchOfTwo
  Slots = {w1, w2}
  MaxRetries = 1
  MaxEvents = 3
SYMMETRY Symmetry
CHECK_DEADLOCK FALSE
INVARIANTS OneOwner HeldWaits
PROPERTIES Lifecycle
