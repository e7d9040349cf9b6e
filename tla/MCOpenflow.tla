----------------------------- MODULE MCOpenflow -----------------------------
(* OpenflowThread for TLC: a few networks and ports of one switch.         *)
EXTENDS OpenflowSync, TLC
CONSTANTS n1, n2, a, b, of1, h1, h2

MCMatch == Ports \X Ports
MCVlan == {0}
\* One flow for each ordered pair of different ports of a network.
PairFlows ==
  [s \in Snapshots |->
    UNION {{[net |-> n, match |-> m, vlan |-> 0] :
              m \in {pq \in s[n] \X s[n] : pq[1] # pq[2]}} : n \in Nets}]
MCNetFlows(s) == PairFlows[s]

\* Ports a and d on the same port of the switch, each with its own VLAN; the
\* VLAN of the destination is part of the actions, which are compared.
CONSTANTS d, s1, s2
SwitchPort(p) == IF p = b THEN s2 ELSE s1
PortVlan(p) == CASE p = a -> 10 [] p = b -> 30 [] OTHER -> 20
VlanMatch == {s1, s2} \X {s1, s2} \X {10, 20, 30}
VlanFlows(s) ==
  UNION {{[net |-> n, match |-> <<SwitchPort(m[1]), SwitchPort(m[2]), PortVlan(m[2])>>,
           vlan |-> PortVlan(m[1])] :
            m \in {pq \in s[n] \X s[n] : pq[1] # pq[2]}} : n \in Nets}

\* Networks bound together: a flow also goes to the ports of the other one, and
\* its network is that of the port it comes from.
CrossFlows ==
  [s \in Snapshots |->
    UNION {{[net |-> n, match |-> m, vlan |-> 0] :
              m \in {pq \in s[n] \X UNION {s[k] : k \in Nets} : pq[1] # pq[2]}} : n \in Nets}]
BoundFlows(s) == CrossFlows[s]

AllData == [n \in Nets |-> "data"]
OnePtp == [n \in Nets |-> IF n = n1 THEN "ptp" ELSE "data"]
\* a and b are in n1 when the process starts, other ports do not exist.
TwoInN1 == [p \in Ports |-> IF p \in {a, b} THEN n1 ELSE NoPort]
AInN1BInN2 == [p \in Ports |-> CASE p = a -> n1 [] p = b -> n2 [] OTHER -> NoPort]
AllInN1 == [p \in Ports |-> n1]
N2ToN1 == [n \in Nets |-> IF n = n2 THEN n1 ELSE NoNet]
Unbound == [n \in Nets |-> NoNet]
\* No rows, or those of the flows between a in n1 and b in n2,
\* whose rules are lost.
NoRows == [nm \in Names |-> NoFlow]
NoRules == [c \in Ofcs |-> NoRows]
RowsOfBoth ==
  [nm \in Names |->
    CASE nm = <<n1, 0>> -> [net |-> n1, match |-> <<a, b>>, vlan |-> 0]
      [] nm = <<n2, 0>> -> [net |-> n2, match |-> <<b, a>>, vlan |-> 0]
      [] OTHER -> NoFlow]

\* Taken for the ports of which KeyErrorNeedsOneWay (FlowRules) speaks: a for two
\* functions of one port of the switch, d for an external port.
Never(s) == FALSE
AWithD(s) == s[n1] = {a, d}
OneOfc == [p \in Ports |-> Default]

HttpSymmetry == Permutations(HttpThreads)
=============================================================================
