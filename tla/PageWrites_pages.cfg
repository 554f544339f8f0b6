\* One writer of each kind, a page and the index, any one failure.
SPECIFICATION LiveSpec
CONSTANTS
  e1 = e1
  l1 = l1
  n1 = n1
  r1 = r1
  s1 = s1
  a1 = a1
  u1 = u1
  Edits = {e1}
  Lists = {l1}
  Notes = {n1}
  Repairs = {r1}
  Splits = {s1}
  Agents = {a1}
  Undoes = {u1}
  Unchecked = {}
  Pages = {p, Hub}
  Hub = Hub
  Nobody = Nobody
  MaxCalls = 3
  MaxEvents = 1
CHECK_DEADLOCK FALSE
INVARIANTS TypeOK CarefulKeepAll UndoSparesService SplitAllOrNothing NobodyStuck
PROPERTIES EveryWriterEnds
