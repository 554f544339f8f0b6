\* One ingest, one maintenance run, one page, one event, under fairness.
SPECIFICATION LiveSpec
CONSTANTS
  Ingests = {i1}
  Maintenance = {m1}
  Pages = {p}
  User = User
  Edit = Edit
  Pass = Pass
  MaxEvents = 1
CHECK_DEADLOCK FALSE
INVARIANTS TypeOK IndexIsHolders RegistryExact ReportedPagesLand SweepSparesOlderWork
PROPERTIES EveryCallerServed
