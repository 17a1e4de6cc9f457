SPECIFICATION Spec
CONSTANTS
  s1 = s1
  r1 = r1
  g1 = g1
  Services = {s1}
  Routers = {r1}
  Routes = {}
  Gateways = {g1}
  Backends <- OneBackend
  Shapes = {"good", "family", "NodePort", "refused"}
  Limits = {0, 1}
  Switches <- ServicesMayStop
  Squatted = {g1}
  MaxEdits = 3
  MaxFaults = 1
  MaxMisreads = 0
INVARIANTS
  TypeOK
  RefusalByAge
PROPERTIES
  LimitNeverTearsDown
  ReleaseAfterPrune
  BackendsKept
  ForeignUntouched
