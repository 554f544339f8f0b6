\* Two updates, an album or each on its own, one restart, two things that go wrong.
SPECIFICATION LiveSpec
CONSTANTS
  N = 2
  Groups = {g}
  None = None
  Lives = 2
  MaxEvents = 2
CHECK_DEADLOCK FALSE
INVARIANTS TypeOK NothingLost OutcomeReachesChat
PROPERTIES ToldWhole UpdatesHandled StopEnds
