SPECIFICATION Spec
CONSTANTS
  Procs = {p1, p2}
  Namespaces = {a, b}
  Keys = {k1}
  MaxUID = 1
  MaxEdits = 1
  MaxFaults = 1
INVARIANT EverythingDeleted
CHECK_DEADLOCK FALSE
