---------------------------- MODULE MCFlowRules ----------------------------
EXTENDS FlowRules

Net(id, vlan, bind, bindVlan) ==
  [id |-> id, vlan |-> vlan, bind |-> bind, bindVlan |-> bindVlan,
   ports |-> <<>>]

Alone == <<Net(1, 10, None, None)>>
SharedFirst == <<Net(1, 10, None, None), Net(2, 20, 1, 20)>>
SharedLast == <<Net(2, 20, 1, 20), Net(1, 10, None, None)>>
Untagged == <<Net(1, 10, None, None), Net(2, 20, 1, None)>>
UntaggedLast == <<Net(2, 20, 1, None), Net(1, 10, None, None)>>
TwoBound ==
  <<Net(1, 10, None, None), Net(2, 20, 1, 20), Net(3, 10, 1, None)>>

MCTopologies ==
  {Alone, SharedFirst, SharedLast, Untagged, UntaggedLast, TwoBound}

MCMaxPorts == <<4, 3, 3>>

\* New switch ports are taken in order.
SwitchPortsInOrder ==
  LET used == {p.sp : p \in PortsOf(nets)}
  IN used = 1..Cardinality(used)
=============================================================================
