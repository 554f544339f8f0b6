CONSTANTS
  ada = ada  ben = ben  a1 = a1  a2 = a2  b1 = b1  Nobody = Nobody
  Crew = {ada, ben}
  Proposals = {a1, b1}
  Standing = {a1, b1}
  Deepens = {b1}
  Author <- TwoAuthors
  Autonomy <- OneAuto
  Quota <- OneEach
  KeepNights = 0
  MaxNights = 1
  MaxRuns = 3
  RunCap = 1
  MaxEvents = 1
  MaxRounds = 2
SPECIFICATION Spec
INVARIANTS TypeOK OneRunPerFellow ActiveHasRun QuotaKept
PROPERTY ImplementsLifecycle
CHECK_DEADLOCK FALSE
