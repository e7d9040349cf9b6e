CONSTANTS
  n1 = n1
  n2 = n2
  a = a
  b = b
  d = d
  s1 = s1
  s2 = s2
  of1 = of1
  h1 = h1
  h2 = h2
  Ofcs = {of1}
  Default = of1
  Nets = {n1}
  Ports = {a, b, d}
  NoNet = nonet
  NoPort = noport
  Match <- VlanMatch
  Vlan = {10, 20, 30}
  NoFlow = noflow
  NameIdx = {0, 1, 2, 3}
  NetType <- AllData
  Bind <- Unbound
  PortOfc <- OneOfc
  External = {a, b, d}
  InitRows <- NoRows
  InitRules <- NoRules
  Breaks <- Never
  InitNet <- TwoInN1
  NetFlows <- VlanFlows
  HttpThreads = {h1}
  Requests = {"new", "delete", "reinstall"}
  ClearAll = clearall
  Anywhere = anywhere
  MaxOps = 3
  MaxFaults = 0
  MaxRestarts = 0
SPECIFICATION Spec
INVARIANTS RepeatedIsEqual
CHECK_DEADLOCK FALSE
