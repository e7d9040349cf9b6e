----------------------------- MODULE FlowRules -----------------------------
(***************************************************************************)
(* What openflow_thread computes for a network and the networks bound to   *)
(* it: _compute_net_flows, from the tables nets and ports to the list of   *)
(* flows, and what the switch does to a frame under these flows.           *)
(*                                                                         *)
(* Kept: the order of the loops, which decides what is first, the           *)
(* priorities, the VLAN of a binding against the VLAN of a port and the    *)
(* skipped double VLANs, the search for repeated flows, the broadcast flow *)
(* of each port, the unification of the flows of an ingress port, every    *)
(* error.                                                                  *)
(*                                                                         *)
(* Abstracted: a port has one number, which is also its MAC address; a     *)
(* VLAN or a MAC address that is null is None; the external port that      *)
(* update_of_flows adds for a provider is one more port without a MAC.     *)
(* A ('vlan', t) is always followed by an ('out', p): they are one action, *)
(* [set |-> t, out |-> p].  new_broadcast_flows is a hash of arbitrary     *)
(* order: of equal broadcast flows any may be the one that is kept.        *)
(***************************************************************************)
EXTENDS Integers, Sequences, FiniteSets, Functions

CONSTANTS
  SwitchPorts,  \* the ports of the switch, as numbers
  pp2ofi,       \* those the controller knows
  Vlans,        \* VLAN tags, positive
  Topologies,   \* bound: the networks bound together, in the order read
  MaxPorts      \* MaxPorts[k], bound: number of ports of k networks

None == 0
Broadcast == -1    \* the address ff:ff:ff:ff:ff:ff
SomeVlan == -1     \* previous_vlan of a frame that enters tagged
Unset == -2        \* no ('vlan', _) before an ('out', _)

Tags == Vlans \cup {None}
PortRow == [id : Nat \ {None}, sp : SwitchPorts, vlan : Tags, mac : BOOLEAN]

\* A row of nets: bind_net, and the VLAN of bind_type.
NetRow == [id : Nat \ {None}, vlan : Vlans, bind : Nat, bindVlan : Tags, ports : Seq(PortRow)]

ASSUME SwitchAssumption ==
  /\ Vlans \subseteq Nat \ {None}
  /\ SwitchPorts \subseteq Nat
  /\ pp2ofi \subseteq SwitchPorts
  /\ IsFiniteSet(Vlans) /\ IsFiniteSet(SwitchPorts)

\* Networks without ports, with ids of their own.
ASSUME TopologiesAreRows ==
  \A ns \in Topologies :
    /\ ns \in Seq(NetRow)
    /\ \A i \in DOMAIN ns : ns[i].ports = << >>
    /\ \A i, j \in DOMAIN ns : ns[i].id = ns[j].id => i = j

VARIABLES
  nets,    \* the rows read: a sequence of networks, each with its ports
  result   \* what _compute_net_flows returns: [status, flows]

vars == <<nets, result>>

Result(status, flows) == [status |-> status, flows |-> flows]
Pending == Result("none", {})

PortsOf(ns) == UNION {Range(ns[i].ports) : i \in DOMAIN ns}
NbPorts(ns) == Cardinality(PortsOf(ns))

-----------------------------------------------------------------------------
(***************************************************************************)
(* The loops over networks and ports.                                      *)
(***************************************************************************)
Binds(s, d) == s.bind = d.id

\* Mutant: all the networks read are connected with each other.
LinkedAll(s, d) == TRUE
Linked(s, d) == s = d \/ Binds(s, d) \/ Binds(d, s)

Priority(s, d) == IF s = d THEN 1000 ELSE 1100

\* vlan_net_out and vlan_net_in.
NetOut(s, d) == IF s # d /\ Binds(s, d) THEN s.bindVlan ELSE None
NetIn(s, d) == IF s # d /\ ~Binds(s, d) THEN d.bindVlan ELSE None

\* A tag of the binding and a tag of the port would need two VLAN headers.
DoubleVlan(netVlan, port) == netVlan # None /\ port.vlan # None
TagOf(netVlan, port) == IF netVlan # None THEN netVlan ELSE port.vlan

\* Places in the loops are compared from the outermost loop inwards.
Earlier(t, u) ==
  \E n \in DOMAIN t : t[n] < u[n] /\ \A i \in 1..(n - 1) : t[i] = u[i]

\* The source ports visited, each for a pair of networks.
Visits(ns) ==
  {v \in UNION {{[turn |-> <<i, j, k>>, s |-> ns[i], d |-> ns[j], src |-> ns[i].ports[k]] :
                   k \in DOMAIN ns[i].ports} : i, j \in DOMAIN ns} :
     Linked(v.s, v.d) /\ ~DoubleVlan(NetIn(v.s, v.d), v.src)}

Vin(v) == TagOf(NetIn(v.s, v.d), v.src)
Vout(v, q) == TagOf(NetOut(v.s, v.d), q)

\* The key of new_broadcast_flows.
Key(v) == <<v.src.id, Vin(v)>>

\* Mutant: a frame is sent back where it came from.
IsDestinationToo(v, q) == ~DoubleVlan(NetOut(v.s, v.d), q)
\* The destinations of a visit: no double VLAN, not where the frame came from.
IsDestination(v, q) ==
  /\ ~DoubleVlan(NetOut(v.s, v.d), q)
  /\ ~(v.src.sp = q.sp /\ Vin(v) = Vout(v, q))

\* Mutant: the tag of the source is never stripped.
VlanActionNoStrip(vin, vout) == IF vout = None THEN Unset ELSE vout
VlanAction(vin, vout) == IF vout = None /\ vin = None THEN Unset ELSE vout

\* Mutant: the boundary to point to multipoint is off by one.
AnyMacOfThree(nb, q) == ~q.mac \/ nb <= 3
\* Point to point, or a destination without MAC: the address is not compared.
AnyMac(nb, q) == ~q.mac \/ nb = 2

UnicastFlow(nb, v, q) ==
  [priority |-> Priority(v.s, v.d) - (IF AnyMac(nb, q) THEN 5 ELSE 0),
   net |-> v.s.id, ingress |-> v.src.sp, vlan |-> Vin(v),
   dst |-> IF AnyMac(nb, q) THEN None ELSE q.id,
   actions |-> << [set |-> VlanAction(Vin(v), Vout(v, q)), out |-> q.sp] >>]

\* Every visit with a destination, its flow and its output in a broadcast.
Hops(ns) ==
  UNION {{[turn |-> <<v.turn[1], v.turn[2], v.turn[3], m>>, key |-> Key(v),
           flow |-> UnicastFlow(NbPorts(ns), v, v.d.ports[m]),
           out |-> <<Vout(v, v.d.ports[m]), v.d.ports[m].sp>>] :
            m \in {n \in DOMAIN v.d.ports : IsDestination(v, v.d.ports[n])}} :
         v \in Visits(ns)}

\* _check_flow_already_present: flow_fields says 'vlan', not 'vlan_id'.
SameFlow(f, g) ==
  /\ f.priority = g.priority /\ f.net = g.net /\ f.ingress = g.ingress
  /\ f.dst = g.dst /\ f.actions = g.actions

\* A repeated flow is skipped, and with it the output of its broadcast.
KeptHops(ns) ==
  {h \in Hops(ns) :
     ~ \E g \in Hops(ns) : Earlier(g.turn, h.turn) /\ SameFlow(g.flow, h.flow)}

-----------------------------------------------------------------------------
(***************************************************************************)
(* Broadcast flows: one for each source port and VLAN with an output.      *)
(***************************************************************************)
Outs(kept, key) == {h.out : h \in {x \in kept : x.key = key}}

BroadcastKeys(ns, kept) == IF NbPorts(ns) <= 2 THEN {} ELSE {h.key : h \in kept}

\* The outputs sorted by VLAN and port.
Before(o, p) == o[1] < p[1] \/ (o[1] = p[1] /\ o[2] < p[2])
Sorted(outs) ==
  CHOOSE s \in [1..Cardinality(outs) -> outs] : \A i, j \in DOMAIN s : i < j => Before(s[i], s[j])

\* The tag is set when it changes.
FinalActions(vin, outs) ==
  LET s == Sorted(outs)
      previous(i) == IF i > 1 THEN s[i - 1][1] ELSE IF vin = None THEN None ELSE SomeVlan
  IN [i \in DOMAIN s |->
        [set |-> IF s[i][1] = previous(i) THEN Unset ELSE s[i][1], out |-> s[i][2]]]

\* The pair of networks visited first gives the priority.
BroadcastFlow(ns, kept, key) ==
  LET of == {v \in Visits(ns) : Key(v) = key}
      v == CHOOSE x \in of : \A y \in of : x = y \/ Earlier(x.turn, y.turn)
  IN [priority |-> Priority(v.s, v.d), net |-> v.s.id, ingress |-> v.src.sp,
      vlan |-> key[2], dst |-> Broadcast,
      actions |-> FinalActions(key[2], Outs(kept, key))]

BroadcastFlows(ns, kept) == {BroadcastFlow(ns, kept, key) : key \in BroadcastKeys(ns, kept)}

SetsVlanTwice(f) ==
  \E i, j \in DOMAIN f.actions : i # j /\ f.actions[i].set # Unset /\ f.actions[j].set # Unset

\* Of each lot of repeated flows, the one that comes first.
Representatives(flows) ==
  {fs \in SUBSET flows :
     \A f \in flows : Cardinality({g \in fs : SameFlow(f, g)}) = 1}

-----------------------------------------------------------------------------
(***************************************************************************)
(* Flows of one ingress port and VLAN with equal actions become one.       *)
(***************************************************************************)
Group(flows, f) == {g \in flows : g.vlan = f.vlan /\ g.ingress = f.ingress}

\* convert2ptp
Converted(group) ==
  /\ \E f, g \in group : f # g
  /\ \A f, g \in group : f.actions = g.actions

\* The first flow of each group; broadcast flows come after all others.
Leaders(kept) ==
  {h.flow : h \in {x \in kept :
     \A y \in kept : y.flow \in Group({k.flow : k \in kept}, x.flow) =>
                      x = y \/ Earlier(x.turn, y.turn)}}

\* pop('dst_mac') raises a KeyError when the first flow has none.
PopFails(flows, leader) == Converted(Group(flows, leader)) /\ leader.dst = None

Unified(flows, leaders) ==
  {f \in flows : ~Converted(Group(flows, f))} \cup
  {[f EXCEPT !.dst = None, !.priority = @ - 5] :
     f \in {x \in leaders : Converted(Group(flows, x))}}

\* _compute_net_flows, with the broadcast flows that are kept and the flag
\* of_controller_nets_with_same_vlan set or not.
compute_net_flows(ns, broadcast, pmp_with_same_vlan) ==
  LET kept == KeptHops(ns)
      leaders == Leaders(kept)
      flows == {h.flow : h \in kept} \cup broadcast
  IN IF \/ \E p \in PortsOf(ns) : p.sp \notin pp2ofi
        \/ pmp_with_same_vlan /\ \E f \in BroadcastFlows(ns, kept) : SetsVlanTwice(f)
     THEN Result("error", {})
     ELSE IF \E f \in leaders : PopFails(flows, f)
     THEN Result("KeyError", {})
     ELSE Result("ok", Unified(flows, leaders))

-----------------------------------------------------------------------------
(***************************************************************************)
(* The tables: ports of servers and external ports are added one by one.   *)
(***************************************************************************)
Init ==
  /\ nets \in Topologies
  /\ result = Pending

AddPort(i, sp, vlan, mac) ==
  /\ NbPorts(nets) < MaxPorts[Len(nets)]
  /\ nets' = [nets EXCEPT ![i].ports = Append(@,
                [id |-> NbPorts(nets) + 1, sp |-> sp, vlan |-> vlan,
                 mac |-> mac])]
  /\ result' = Pending

\* An untagged port has the switch port for itself.
FreeFor(sp, vlan) ==
  \A p \in PortsOf(nets) :
    p.sp = sp => vlan # None /\ p.vlan \notin {None, vlan}

\* A passthrough interface of a server: no VLAN.
NewPFPort(i, sp) == FreeFor(sp, None) /\ AddPort(i, sp, None, TRUE)

\* A virtual function has the VLAN of its network, as have its neighbours.
NewVFPort(i, sp) ==
  /\ \A p \in PortsOf(nets) : p.sp = sp =>
       /\ p.vlan # None
       /\ p \notin Range(nets[i].ports) => p.vlan # nets[i].vlan
  /\ AddPort(i, sp, nets[i].vlan, TRUE)

\* new_port and new_external_port: any VLAN, with or without a MAC address.
NewExternalPort(i, sp, vlan, mac) ==
  FreeFor(sp, vlan) /\ AddPort(i, sp, vlan, mac)

\* The part of update_of_flows that needs the tables alone.
Compute(broadcast, pmp_with_same_vlan) ==
  /\ result = Pending
  /\ result' = compute_net_flows(nets, broadcast, pmp_with_same_vlan)
  /\ UNCHANGED nets

Next ==
  \/ \E i \in DOMAIN nets, sp \in SwitchPorts :
       \/ NewPFPort(i, sp)
       \/ NewVFPort(i, sp)
       \/ \E vlan \in Vlans \cup {None}, mac \in BOOLEAN :
            NewExternalPort(i, sp, vlan, mac)
  \/ \E broadcast \in Representatives(BroadcastFlows(nets, KeptHops(nets))),
        sameVlan \in BOOLEAN : Compute(broadcast, sameVlan)

Spec == Init /\ [][Next]_vars

-----------------------------------------------------------------------------
(***************************************************************************)
(* The switch (external): a frame takes one of the matching flows of the   *)
(* highest priority; a flow without VLAN or address matches any.           *)
(***************************************************************************)
Matching(frame) ==
  {f \in result.flows : /\ f.ingress = frame.sp
                        /\ f.vlan \in {None, frame.tag}
                        /\ f.dst \in {None, frame.dst}}
Taken(frame) ==
  {f \in Matching(frame) :
     \A g \in Matching(frame) : g.priority <= f.priority}

\* The tag of a frame at an action: the last one set until then.
TagAt(actions, i, tag) ==
  LET sets == {j \in 1..i : actions[j].set # Unset}
  IN IF sets = {} THEN tag
     ELSE actions[CHOOSE j \in sets : \A k \in sets : k <= j].set

\* Where the frame goes: switch ports, each with the tag the frame then has.
Emitted(f, tag) ==
  {<<f.actions[i].out, TagAt(f.actions, i, tag)>> : i \in DOMAIN f.actions}

-----------------------------------------------------------------------------
(***************************************************************************)
(* Reference: who hears whom, from the tables alone.  A link connects a    *)
(* port and the tag it sends with to a port and the tag it receives.       *)
(***************************************************************************)
BoundTo(s, d) == s # d /\ (s.bind = d.id \/ d.bind = s.id)

\* The tag on the side of a port: its own, or the binding's at the network
\* that others are bound to; none when there would be two.
Side(own, other, port) ==
  IF own # other /\ other.bind = own.id /\ other.bindVlan # None
  THEN IF port.vlan = None THEN {other.bindVlan} ELSE {}
  ELSE {port.vlan}

Ends(s, d) ==
  UNION {{<<p, t>> : t \in Side(s, d, p)} : p \in Range(s.ports)}

Links ==
  LET between(s, d) ==
        {[src |-> e[1], tag |-> e[2], dst |-> f[1], out |-> f[2],
          bound |-> s # d] : e \in Ends(s, d), f \in Ends(d, s)}
      joined == {x \in Range(nets) \X Range(nets) :
                   x[1] = x[2] \/ BoundTo(x[1], x[2])}
  IN {l \in UNION {between(x[1], x[2]) : x \in joined} :
        <<l.src.sp, l.tag>> # <<l.dst.sp, l.out>>}

Frame(l, dst) == [sp |-> l.src.sp, tag |-> l.tag, dst |-> dst]

\* The links of the frames that enter where those of l do.
Alike(l) == {k \in Links : k.src.sp = l.src.sp /\ k.tag = l.tag}

-----------------------------------------------------------------------------
(***************************************************************************)
(* Where the code cannot tell frames apart.                                *)
(***************************************************************************)
\* Two ports of a network on one switch port with different VLANs: flows that
\* differ in the VLAN alone count as repeated.
Twins(p) ==
  \E n \in Range(nets), q \in PortsOf(nets) :
    /\ {p, q} \subseteq Range(n.ports)
    /\ q.sp = p.sp /\ q.vlan # p.vlan

\* A port that sends untagged frames too: flows without VLAN match any tag.
AlsoUntagged(l) ==
  l.tag # None /\ \E k \in Links : k.src = l.src /\ k.tag = None

Distinct(l) == ~Twins(l.src) /\ ~AlsoUntagged(l)

\* A bound network with a port without MAC: its flow for any address has the
\* priority 1095, above the flows of the port's own network.
Overridden(l) == \E k \in Alike(l) : k.bound /\ ~k.dst.mac

-----------------------------------------------------------------------------
Computed == result.status = "ok"
Stranger == MaxPorts[Len(nets)] + 1   \* a MAC address of no port

\* Whatever flow such a frame takes, it goes to these places and no other.
Reaches(l, dst, places) ==
  LET taken == Taken(Frame(l, dst))
  IN taken # {} /\ \A f \in taken : Emitted(f, l.tag) = places

\* A frame, to whatever address, leaves only by ports that the sender's switch
\* port is linked to and with the tag of one of them: skipped, repeated,
\* unified and overridden flows never connect two networks that are not bound.
Isolated ==
  Computed =>
    \A l \in Links, dst \in {p.id : p \in PortsOf(nets)} \cup {Broadcast, Stranger} :
      \A f \in Taken(Frame(l, dst)) : \A e \in Emitted(f, l.tag) :
        \E k \in Links : /\ k.src.sp = l.src.sp /\ k.dst.sp = e[1]
                         /\ k.dst.vlan \in {None, e[2]}

\* A frame to the address of a linked port reaches it, with its tag, and no
\* other place: no flow of lower rank, of a repeated or of a unified flow is in
\* the way.  The own network may be overridden by a bound one.
UnicastArrives ==
  Computed => \A l \in {x \in Links : Distinct(x) /\ x.dst.mac} :
    l.bound \/ ~Overridden(l) => Reaches(l, l.dst.id, {<<l.dst.sp, l.out>>})

\* A broadcast reaches every linked port with its own tag, in one pass over the
\* outputs sorted by VLAN, and does not come back to the sender.
BroadcastArrives ==
  Computed => \A l \in {x \in Links : Distinct(x) /\ ~Overridden(x)} :
    Reaches(l, Broadcast, {<<k.dst.sp, k.out>> : k \in Alike(l)})

\* The unification pops dst_mac of a flow without one only when all that a port
\* hears of is at one place and has a port without MAC: two virtual functions
\* on one switch port and an external port.  The task then ends in run's last
\* handler, and the network keeps the status it had.
KeyErrorNeedsOneWay ==
  result.status = "KeyError" =>
    \E l \in Links :
      /\ ~l.dst.mac
      /\ \A k \in Alike(l) : \/ k.dst.sp = l.dst.sp /\ k.out = l.out
                             \/ Twins(l.dst)
=============================================================================
