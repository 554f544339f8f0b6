CONSTANTS
  ada = ada  ben = ben  a1 = a1  a2 = a2  b1 = b1  Nobody = Nobody
  Crew = {ada}
  Proposals = {a1, a2}
  Standing = {a1, a2}
  Deepens = {a1, a2}
  Author <- OneAuthor
  Autonomy <- BothAsked
  Quota <- OneEach
  KeepNights = 0
  MaxNights = 1
  MaxRuns = 2
  RunCap = 3
  MaxEvents = 0
  MaxRounds = 2
SPECIFICATION Spec
INVARIANT HardCap
CHECK_DEADLOCK FALSE
