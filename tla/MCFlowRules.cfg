CONSTANTS
  SwitchPorts = {1, 2, 3, 4}
  pp2ofi = {1, 2, 3}
  Vlans = {10, 20}
  Topologies <- MCTopologies
  MaxPorts <- MCMaxPorts
SPECIFICATION Spec
CONSTRAINT SwitchPortsInOrder
INVARIANTS Isolated UnicastArrives BroadcastArrives KeyErrorNeedsOneWay
CHECK_DEADLOCK FALSE
