CONSTANTS
  ada = ada  ben = ben  a1 = a1  a2 = a2  b1 = b1  Nobody = Nobody
  Crew = {ada}
  Proposals = {a1}
  Standing = {a1}
  Deepens = {}
  Author <- SoleAuthor
  Autonomy <- BothAsked
  Quota <- OneEach
  KeepNights = 0
  MaxNights = 2
  MaxRuns = 3
  RunCap = 3
  MaxEvents = 1
  MaxRounds = 2
SPECIFICATION FairSpec
INVARIANT OneShiftPerNight
PROPERTY NightEnds
CHECK_DEADLOCK FALSE
