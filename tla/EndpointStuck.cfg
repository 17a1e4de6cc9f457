SPECIFICATION FairSpec
CONSTANTS
  s1 = s1
  r1 = r1
  g1 = g1
  Services = {s1}
  Routers = {r1}
  Routes = {}
  Gateways = {}
  Backends <- OneBackend
  Shapes = {"good", "NodePort"}
  Limits = {1}
  Switches <- AllSynced
  Squatted = {}
  MaxEdits = 3
  MaxFaults = 0
  MaxMisreads = 0
PROPERTY UnwantedReleased
