CONSTANTS
  n1 = n1
  n2 = n2
  a = a
  b = b
  d = d
  s1 = s1
  s2 = s2
  of1 = of1
  h1 = h1
  h2 = h2
  Ofcs = {of1}
  Default = of1
  Nets = {n1}
  Ports = {a, b, d}
  NoNet = nonet
  NoPort = noport
  Match <- MCMatch
  Vlan <- MCVlan
  NoFlow = noflow
  NameIdx = {0, 1, 2, 3, 4, 5, 6}
  NetType <- OnePtp
  Bind <- Unbound
  PortOfc <- OneOfc
  External = {a, b, d}
  InitRows <- NoRows
  InitRules <- NoRules
  Breaks <- AWithD
  InitNet <- AllInN1
  NetFlows <- MCNetFlows
  HttpThreads = {h1}
  Requests = {"delete", "delnet", "reinstall", "clear"}
  ClearAll = clearall
  Anywhere = anywhere
  MaxOps = 4
  MaxFaults = 1
  MaxRestarts = 1
SPECIFICATION FairSpec
INVARIANTS NoOrphanRule 
PROPERTIES Settles
CHECK_DEADLOCK FALSE
