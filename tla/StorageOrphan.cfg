SPECIFICATION Spec
CONSTANTS
  Claims = {c1}
  Nodes = {n1}
  Mortal = {}
  MaxFaults = 0
  OperatorUnoffers = FALSE
  TenantForces = {}
  TenantLeaves = FALSE
PROPERTY EveryDeleteUnplugged
