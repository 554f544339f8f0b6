CONSTANTS
  ada = ada  ben = ben  a1 = a1  a2 = a2  b1 = b1  Nobody = Nobody
  Crew = {ada}
  Proposals = {a1, a2}
  Standing = {a1}
  Deepens = {}
  Author <- OneAuthor
  Autonomy <- BothAsked
  Quota <- OneEach
  KeepNights = 0
  MaxNights = 1
  MaxRuns = 2
  RunCap = 2
  MaxEvents = 2
  MaxRounds = 2
SPECIFICATION Spec
PROPERTY RetiredIsFinal
CHECK_DEADLOCK FALSE
