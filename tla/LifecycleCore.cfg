SPECIFICATION Spec
CONSTANTS
  Procs = {p1, p2}
  Namespaces = {a, b}
  Keys = {k1, k2}
  MaxUID = 2
  MaxEdits = 1
  MaxFaults = 1
INVARIANTS
  TypeOK
  Covered
PROPERTIES
  GuestAsNamed
  ReplacementKept
CHECK_DEADLOCK FALSE
