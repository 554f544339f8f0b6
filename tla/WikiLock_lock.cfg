\* A page edit, a batch and an agent with a shorter window, one page.
SPECIFICATION LiveSpec
CONSTANTS
  Singles = {s}
  Batches = {b}
  Agents = {a}
  Pages = {p}
  WindowOf <- ShortAgent
  Attempts = 2
  MaxTime = 3
  MaxEvents = 1
CHECK_DEADLOCK FALSE
INVARIANTS TypeOK OneWriter HeldIsLocked WedgedForOneWindow
PROPERTIES Implements EveryCallEnds
