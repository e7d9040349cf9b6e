SPECIFICATION Spec
CONSTANTS
  HttpThreads = {h1, h2}
  AdminThreads = {h1}
  Nets = {n1, n2, n3}
  None = None
  Bridges = {b1, b2}
  DhcpBridges = {b1}
  ListedNames = {x1}
  Macs = {m1}
  Tenants = {t1, t2}
  Anybody = Anybody
  Flavors = {f1}
  Images = {i1}
  FirstVlan = 1
  EndVlan = 3
  ListSize = 1
  Explicit = {2}
  MaxOps = 4
  MaxFaults = 1
  Ofcs = {c1, c2}
  Default = Default
  Dpids = {d1, d2}
  DefaultDpid = d1
  OfPorts = {p1}
  Nothing = Nothing
  Areas = {"data", "bridges", "servers", "catalogue", "controllers"}
CHECK_DEADLOCK FALSE
INVARIANTS TypeOK ConfigAsLoaded  ChosenVlanIsFree TrackedMacsExist NoOrphans ServersHaveTheirItems
PROPERTIES VlanIsFound AddressIsWritten
