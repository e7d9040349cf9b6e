CONSTANTS
  x = x
  n1 = n1
  n2 = n2
  k1 = k1
  k2 = k2
  k3 = k3
  p1 = p1
  v1 = v1
  v2 = v2
  Hosts = {x}
  Numas = {n1, n2}
  Cores = {k1, k2, k3}
  Pfs = {p1}
  Vfs = {v1, v2}
  HostRam <- MCHostRam
  HostCpus <- MCHostCpus
  HostOf <- MCHostOf
  Hugepages <- MCHugepages
  NumaOfCore <- MCNumaOfCore
  NumaOfPf <- MCNumaOfPf
  Speed <- MCSpeed
  RootOf <- MCRootOf
  HttpThreads = {h1, h2}
  Servers = {s1, s2, s3}
  Flavors <- MixedFlavors
  NoServer = noserver
  NoPlan = noplan
SPECIFICATION Spec
INVARIANTS TypeOK CardsAreOwn UndisputedAreEntitled NoOvercommit DedicatedIsExclusive
SYMMETRY Symmetry
CHECK_DEADLOCK FALSE
