CONSTANTS
  n1 = n1
  n2 = n2
  a = a
  b = b
  d = d
  s1 = s1
  s2 = s2
  of1 = of1
  h1 = h1
  h2 = h2
  Ofcs = {of1}
  Default = of1
  Nets = {n1}
  Ports = {a, b}
  NoNet = nonet
  NoPort = noport
  Match <- MCMatch
  Vlan <- MCVlan
  NoFlow = noflow
  NameIdx = {0, 1, 2, 3}
  NetType <- AllData
  Bind <- Unbound
  PortOfc <- OneOfc
  External = {a, b}
  InitRows <- NoRows
  InitRules <- NoRules
  Breaks <- Never
  InitNet <- TwoInN1
  NetFlows <- MCNetFlows
  HttpThreads = {h1}
  Requests = {"delete", "delnet", "reinstall"}
  ClearAll = clearall
  Anywhere = anywhere
  MaxOps = 4
  MaxFaults = 0
  MaxRestarts = 0
SPECIFICATION Spec
INVARIANTS NoStrayRule
CHECK_DEADLOCK FALSE
