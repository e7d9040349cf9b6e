CONSTANTS
  n1 = n1
  n2 = n2
  a = a
  b = b
  d = d
  s1 = s1
  s2 = s2
  of1 = of1
  h1 = h1
  h2 = h2
  Ofcs = {of1}
  Default = of1
  Nets = {n1, n2}
  Ports = {a, b}
  NoNet = nonet
  NoPort = noport
  Match <- MCMatch
  Vlan <- MCVlan
  NoFlow = noflow
  NameIdx = {0, 1, 2}
  NetType <- AllData
  Bind <- N2ToN1
  PortOfc <- OneOfc
  External = {a}
  InitRows <- RowsOfBoth
  InitRules <- NoRules
  Breaks <- Never
  InitNet <- AInN1BInN2
  NetFlows <- BoundFlows
  HttpThreads = {h1, h2}
  Requests = {"new", "edit", "delete", "delnet", "admin", "reinstall"}
  ClearAll = clearall
  Anywhere = anywhere
  MaxOps = 3
  MaxFaults = 0
  MaxRestarts = 0
SPECIFICATION Spec
INVARIANTS TypeOK UpdateInv QuiescentSync
PROPERTIES WantedRuleComesBack
SYMMETRY HttpSymmetry
CHECK_DEADLOCK FALSE
