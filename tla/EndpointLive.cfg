SPECIFICATION FairSpec
CONSTANTS
  s1 = s1
  r1 = r1
  g1 = g1
  Services = {s1}
  Routers = {r1}
  Routes = {r1}
  Gateways = {}
  Backends <- OneBackend
  Shapes = {"good", "NodePort"}
  Limits = {0, 1}
  Switches <- EachMayStop
  Squatted = {}
  MaxEdits = 3
  MaxFaults = 1
  MaxMisreads = 0
PROPERTIES
  EndpointAnswered
  AddressShown
  DeletedReleased
  NothingLeaks
