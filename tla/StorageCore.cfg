SPECIFICATION Spec
CONSTANTS
  Claims = {c1}
  Nodes = {n1, n2}
  Mortal = {n2}
  MaxFaults = 1
  OperatorUnoffers = TRUE
  TenantForces = {"PVC"}
  TenantLeaves = TRUE
INVARIANTS
  TypeOK
  SnapshotTruth
  OneVM
  HeldWhileCarried
  AttachedMeansReady
  GoneMeansClean
PROPERTIES
  UnplugBeforeDelete
  ForeignUntouched
  CustodyKept
CHECK_DEADLOCK FALSE
