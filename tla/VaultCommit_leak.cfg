\* One maintenance run and one page: its commit fails.
SPECIFICATION Spec
CONSTANTS
  Ingests = {}
  Maintenance = {m1}
  Pages = {p}
  User = User
  Edit = Edit
  Pass = Pass
  MaxEvents = 1
CHECK_DEADLOCK FALSE
INVARIANTS BusyPeriodEnds
