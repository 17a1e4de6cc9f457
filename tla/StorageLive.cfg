SPECIFICATION FairSpec
CONSTANTS
  Claims = {c1}
  Nodes = {n1}
  Mortal = {n1}
  MaxFaults = 1
  OperatorUnoffers = FALSE
  TenantForces = {"PVC", "VA"}
  TenantLeaves = TRUE
PROPERTIES
  ReleaseAfterTeardown
  VAReleased
  StrayUnplugged
  TeardownCompletes
  AttachCompletes
  TenantGoes
CHECK_DEADLOCK FALSE
