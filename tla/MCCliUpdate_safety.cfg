SPECIFICATION Spec
CONSTANTS
  p1 = p1
  p2 = p2
  NoPid = NoPid
  Version <- ThreeReleases
  Pid <- OnePid
  MaxDamage = 0
  MaxLeases = 1
INVARIANTS
  PointersInstalled
  InstallRevertible
  ReadyIsInstallable
PROPERTY
  RefinesSelection
