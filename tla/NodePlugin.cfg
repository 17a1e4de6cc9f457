SPECIFICATION FairSpec
CONSTANTS
  Nodes = {n1, n2}
  MaxFaults = 2
INVARIANTS
  TypeOK
  PodSeesVolume
PROPERTIES
  DataKept
  UnmountedBeforeUnplug
  PodStarts
CHECK_DEADLOCK FALSE
