SPECIFICATION Spec
CONSTANTS
  s1 = s1
  r1 = r1
  g1 = g1
  Services = {s1}
  Routers = {r1}
  Routes = {}
  Gateways = {g1}
  Backends <- OneBackend
  Shapes = {"good", "family", "NodePort", "refused"}
  Limits = {0, 1}
  Switches <- AllSynced
  Squatted = {}
  MaxEdits = 3
  MaxFaults = 0
  MaxMisreads = 1
PROPERTY LimitNeverTearsDown
