--------------------------- MODULE FlowRulesProofs ---------------------------
(***************************************************************************)
(* What the flows of a network do to frames, for any number of networks,   *)
(* ports, VLANs and bindings.  The places of the loops (a pair of          *)
(* networks, a source port and a destination port) are tuples of numbers,  *)
(* "turns"; a hop is a turn that makes a flow.  The hops are the links of  *)
(* the reference, the flows are those of hops or broadcast flows, and the  *)
(* rest follows each kind of frame from a link to the flow that it takes.  *)
(***************************************************************************)
EXTENDS FlowRules, FiniteSetTheorems, WellFoundedInduction, TLAPS

-----------------------------------------------------------------------------
(* Numbers, and places in the loops *)

\* Smaller numbers are before greater ones.
LEMMA LessThan == OpToRel(<, Nat) = {p \in Nat \X Nat : p[1] < p[2]}
BY Zenon DEF OpToRel

\* A set of numbers has a least element.
LEMMA LeastNumber ==
  ASSUME NEW T, T \subseteq Nat, T # {}
  PROVE  \E x \in T : \A y \in T : x <= y
<1>1. \E x \in T : \A y \in T : ~(<<y, x>> \in OpToRel(<, Nat))
  BY WFMin, NatLessThanWellFounded
<1>2. PICK x \in T : \A y \in T : ~(<<y, x>> \in {p \in Nat \X Nat : p[1] < p[2]})
  BY <1>1, LessThan
<1>3. \A y \in T : ~(y < x)
  BY <1>2
<1>4. QED
  BY <1>3

\* A set of numbers with a bound has a greatest element.
LEMMA GreatestNumber ==
  ASSUME NEW T, T \subseteq Nat, T # {}, NEW b \in Nat, \A y \in T : y <= b
  PROVE  \E x \in T : \A y \in T : y <= x
<1> DEFINE D == {b - y : y \in T}
<1>1. D \subseteq Nat /\ D # {}
  <2>1. \A y \in T : b - y \in Nat
    OBVIOUS
  <2>2. QED
    BY <2>1
<1>2. PICK d \in D : \A e \in D : d <= e
  BY <1>1, LeastNumber
<1>3. PICK x \in T : d = b - x
  OBVIOUS
<1>4. ASSUME NEW y \in T PROVE y <= x
  <2>1. b - y \in D /\ y \in Nat /\ x \in Nat
    OBVIOUS
  <2>2. QED
    BY <1>2, <1>3, <2>1
<1>5. QED
  BY <1>4

\* The places of the visits and of the hops.
Turns3 == Nat \X Nat \X Nat
Turns == Nat \X Nat \X Nat \X Nat

\* The order of the places of visits.
LEMMA EarlierOf3 ==
  ASSUME NEW t \in Turns3, NEW u \in Turns3
  PROVE  Earlier(t, u) <=> \/ t[1] < u[1]
                           \/ t[1] = u[1] /\ t[2] < u[2]
                           \/ t[1] = u[1] /\ t[2] = u[2] /\ t[3] < u[3]
<1>1. DOMAIN t = 1..3
  BY DEF Turns3
<1>2. \A n : n \in 1..3 <=> n = 1 \/ n = 2 \/ n = 3
  OBVIOUS
<1>3. 1..(1 - 1) = {} /\ 1..(2 - 1) = {1} /\ 1..(3 - 1) = {1, 2}
  OBVIOUS
<1>4. QED
  BY <1>1, <1>2, <1>3 DEF Earlier

\* The order of the places of hops.
LEMMA EarlierOf4 ==
  ASSUME NEW t \in Turns, NEW u \in Turns
  PROVE  Earlier(t, u) <=> \/ t[1] < u[1]
                           \/ t[1] = u[1] /\ t[2] < u[2]
                           \/ t[1] = u[1] /\ t[2] = u[2] /\ t[3] < u[3]
                           \/ t[1] = u[1] /\ t[2] = u[2] /\ t[3] = u[3] /\ t[4] < u[4]
<1>1. DOMAIN t = 1..4
  BY DEF Turns
<1>2. \A n : n \in 1..4 <=> n = 1 \/ n = 2 \/ n = 3 \/ n = 4
  OBVIOUS
<1>3. 1..(1 - 1) = {} /\ 1..(2 - 1) = {1} /\ 1..(3 - 1) = {1, 2} /\ 1..(4 - 1) = {1, 2, 3}
  OBVIOUS
<1>4. QED
  BY <1>1, <1>2, <1>3 DEF Earlier

\* Places are equal when their parts are.
LEMMA SameTurn ==
  /\ \A t, u \in Turns3 : t[1] = u[1] /\ t[2] = u[2] /\ t[3] = u[3] => t = u
  /\ \A t, u \in Turns :
       t[1] = u[1] /\ t[2] = u[2] /\ t[3] = u[3] /\ t[4] = u[4] => t = u
  /\ \A t \in Turns3 : t = <<t[1], t[2], t[3]>> /\ t[1] \in Nat /\ t[2] \in Nat /\ t[3] \in Nat
  /\ \A t \in Turns : /\ t = <<t[1], t[2], t[3], t[4]>>
                      /\ t[1] \in Nat /\ t[2] \in Nat /\ t[3] \in Nat /\ t[4] \in Nat
BY DEF Turns, Turns3

\* Of any places of the loops one comes first.
LEMMA FirstOf3 ==
  ASSUME NEW T, T \subseteq Turns3, T # {}
  PROVE  \E t \in T : \A u \in T : t = u \/ Earlier(t, u)
<1> DEFINE A == {t[1] : t \in T}
<1>1. A \subseteq Nat /\ A # {}
  BY SameTurn
<1>2. PICK a \in A : \A x \in A : a <= x
  BY <1>1, LeastNumber
<1> DEFINE B == {t[2] : t \in {u \in T : u[1] = a}}
<1>3. B \subseteq Nat /\ B # {}
  BY SameTurn
<1>4. PICK b \in B : \A x \in B : b <= x
  BY <1>3, LeastNumber
<1> DEFINE C == {t[3] : t \in {u \in T : u[1] = a /\ u[2] = b}}
<1>5. C \subseteq Nat /\ C # {}
  BY SameTurn
<1>6. PICK c \in C : \A x \in C : c <= x
  BY <1>5, LeastNumber
<1>7. PICK t \in T : t[1] = a /\ t[2] = b /\ t[3] = c
  OBVIOUS
<1>8. ASSUME NEW u \in T PROVE t = u \/ Earlier(t, u)
  <2>1. a <= u[1] /\ (u[1] = a => b <= u[2]) /\ (u[1] = a /\ u[2] = b => c <= u[3])
    BY <1>2, <1>4, <1>6
  <2>2. t \in Turns3 /\ u \in Turns3
    OBVIOUS
  <2>3. QED
    BY <1>7, <2>1, <2>2, SameTurn, EarlierOf3
<1>9. QED
  BY <1>8

\* The same for the places of hops.
LEMMA FirstOf4 ==
  ASSUME NEW T, T \subseteq Turns, T # {}
  PROVE  \E t \in T : \A u \in T : t = u \/ Earlier(t, u)
<1> DEFINE A == {t[1] : t \in T}
<1>1. A \subseteq Nat /\ A # {}
  BY SameTurn
<1>2. PICK a \in A : \A x \in A : a <= x
  BY <1>1, LeastNumber
<1> DEFINE B == {t[2] : t \in {u \in T : u[1] = a}}
<1>3. B \subseteq Nat /\ B # {}
  BY SameTurn
<1>4. PICK b \in B : \A x \in B : b <= x
  BY <1>3, LeastNumber
<1> DEFINE C == {t[3] : t \in {u \in T : u[1] = a /\ u[2] = b}}
<1>5. C \subseteq Nat /\ C # {}
  BY SameTurn
<1>6. PICK c \in C : \A x \in C : c <= x
  BY <1>5, LeastNumber
<1> DEFINE D == {t[4] : t \in {u \in T : u[1] = a /\ u[2] = b /\ u[3] = c}}
<1>7. D \subseteq Nat /\ D # {}
  BY SameTurn
<1>8. PICK d \in D : \A x \in D : d <= x
  BY <1>7, LeastNumber
<1>9. PICK t \in T : t[1] = a /\ t[2] = b /\ t[3] = c /\ t[4] = d
  OBVIOUS
<1>10. ASSUME NEW u \in T PROVE t = u \/ Earlier(t, u)
  <2>1. /\ a <= u[1] /\ (u[1] = a => b <= u[2])
        /\ u[1] = a /\ u[2] = b => c <= u[3]
        /\ u[1] = a /\ u[2] = b /\ u[3] = c => d <= u[4]
    BY <1>2, <1>4, <1>6, <1>8
  <2>2. t \in Turns /\ u \in Turns
    OBVIOUS
  <2>3. QED
    BY <1>9, <2>1, <2>2, SameTurn, EarlierOf4
<1>11. QED
  BY <1>10

-----------------------------------------------------------------------------
(* The tables, and the hops as places in the loops *)

\* No two networks are bound to each other.
OneWay(ns) == \A i, j \in DOMAIN ns : i # j => ~(Binds(ns[i], ns[j]) /\ Binds(ns[j], ns[i]))

\* Networks and ports have numbers of their own.
OwnNumbers(ns) ==
  /\ \A i, j \in DOMAIN ns : ns[i].id = ns[j].id => i = j
  /\ \A i, j \in DOMAIN ns : \A k \in DOMAIN ns[i].ports, m \in DOMAIN ns[j].ports :
       ns[i].ports[k].id = ns[j].ports[m].id => i = j /\ k = m

\* Ports share a port of the switch when each has a VLAN, and those with the
\* same VLAN are in one network.
SharedByVlan(ns) ==
  \A i, j \in DOMAIN ns : \A k \in DOMAIN ns[i].ports, m \in DOMAIN ns[j].ports :
    ns[i].ports[k].sp = ns[j].ports[m].sp =>
      \/ i = j /\ k = m
      \/ /\ ns[i].ports[k].vlan # None /\ ns[j].ports[m].vlan # None
         /\ ns[i].ports[k].vlan = ns[j].ports[m].vlan => i = j

\* What the requests see to in the tables.
Tables(ns) == ns \in Seq(NetRow) /\ OneWay(ns) /\ OwnNumbers(ns) /\ SharedByVlan(ns)

\* The port a hop comes from, the one it goes to, and their tags.
S(ns, t) == ns[t[1]]
D(ns, t) == ns[t[2]]
P(ns, t) == ns[t[1]].ports[t[3]]
Q(ns, t) == ns[t[2]].ports[t[4]]
In(ns, t) == TagOf(NetIn(S(ns, t), D(ns, t)), P(ns, t))
Out(ns, t) == TagOf(NetOut(S(ns, t), D(ns, t)), Q(ns, t))

\* The visit, the flow and the hop of a place of the loops.
VisitAt(ns, t) == [turn |-> <<t[1], t[2], t[3]>>, s |-> S(ns, t), d |-> D(ns, t), src |-> P(ns, t)]

IsVisit(ns, t) ==
  /\ t[1] \in DOMAIN ns /\ t[2] \in DOMAIN ns /\ t[3] \in DOMAIN S(ns, t).ports
  /\ Linked(S(ns, t), D(ns, t)) /\ ~DoubleVlan(NetIn(S(ns, t), D(ns, t)), P(ns, t))

IsHop(ns, t) ==
  /\ IsVisit(ns, t) /\ t[4] \in DOMAIN D(ns, t).ports
  /\ ~DoubleVlan(NetOut(S(ns, t), D(ns, t)), Q(ns, t))
  /\ ~(P(ns, t).sp = Q(ns, t).sp /\ In(ns, t) = Out(ns, t))

HopTurns(ns) == {t \in Turns : IsHop(ns, t)}

AnyAt(ns, t) == AnyMac(NbPorts(ns), Q(ns, t))
ActionAt(ns, t) == [set |-> VlanAction(In(ns, t), Out(ns, t)), out |-> Q(ns, t).sp]
FlowAt(ns, t) ==
  [priority |-> Priority(S(ns, t), D(ns, t)) - (IF AnyAt(ns, t) THEN 5 ELSE 0),
   net |-> S(ns, t).id, ingress |-> P(ns, t).sp, vlan |-> In(ns, t),
   dst |-> IF AnyAt(ns, t) THEN None ELSE Q(ns, t).id,
   actions |-> << ActionAt(ns, t) >>]
HopAt(ns, t) ==
  [turn |-> <<t[1], t[2], t[3], t[4]>>, key |-> <<P(ns, t).id, In(ns, t)>>,
   flow |-> FlowAt(ns, t), out |-> <<Out(ns, t), Q(ns, t).sp>>]

\* The types of rows and ports.
LEMMA RowTypes ==
  ASSUME NEW ns \in Seq(NetRow), NEW i \in DOMAIN ns
  PROVE  /\ i \in Nat /\ ns[i] \in NetRow
         /\ DOMAIN ns[i].ports \subseteq Nat
         /\ \A k \in DOMAIN ns[i].ports : ns[i].ports[k] \in PortRow
<1>1. DOMAIN ns = 1..Len(ns) /\ Len(ns) \in Nat
  OBVIOUS
<1>2. ns[i] \in NetRow
  OBVIOUS
<1>3. ns[i].ports \in Seq(PortRow)
  BY <1>2 DEF NetRow
<1>4. DOMAIN ns[i].ports = 1..Len(ns[i].ports) /\ Len(ns[i].ports) \in Nat
  BY <1>3
<1>5. QED
  BY <1>1, <1>2, <1>3, <1>4

\* The visits are those of the places where networks are linked.
LEMMA VisitsAre ==
  ASSUME NEW ns \in Seq(NetRow)
  PROVE  /\ \A v \in Visits(ns) : \E t \in Turns3 : IsVisit(ns, t) /\ v = VisitAt(ns, t)
         /\ \A t \in Turns3 : IsVisit(ns, t) => VisitAt(ns, t) \in Visits(ns)
<1>1. ASSUME NEW v \in Visits(ns) PROVE \E t \in Turns3 : IsVisit(ns, t) /\ v = VisitAt(ns, t)
  <2>1. PICK i \in DOMAIN ns, j \in DOMAIN ns : \E k \in DOMAIN ns[i].ports :
          v = [turn |-> <<i, j, k>>, s |-> ns[i], d |-> ns[j], src |-> ns[i].ports[k]]
    BY DEF Visits
  <2>2. PICK k \in DOMAIN ns[i].ports :
          v = [turn |-> <<i, j, k>>, s |-> ns[i], d |-> ns[j], src |-> ns[i].ports[k]]
    BY <2>1
  <2>3. Linked(v.s, v.d) /\ ~DoubleVlan(NetIn(v.s, v.d), v.src)
    BY DEF Visits
  <2>4. <<i, j, k>> \in Turns3
    BY RowTypes DEF Turns3
  <2>5. IsVisit(ns, <<i, j, k>>) /\ v = VisitAt(ns, <<i, j, k>>)
    BY <2>2, <2>3 DEF IsVisit, VisitAt, S, D, P
  <2>6. QED
    BY <2>4, <2>5
<1>2. ASSUME NEW t \in Turns3, IsVisit(ns, t) PROVE VisitAt(ns, t) \in Visits(ns)
  <2> DEFINE row(x, y, z) == [turn |-> <<x, y, z>>, s |-> ns[x], d |-> ns[y], src |-> ns[x].ports[z]]
             rows(x, y) == {row(x, y, z) : z \in DOMAIN ns[x].ports}
             all == {rows(x, y) : x, y \in DOMAIN ns}
             U == UNION all
             v == VisitAt(ns, t)
  <2>1. v = row(t[1], t[2], t[3]) /\ v \in rows(t[1], t[2])
    BY <1>2 DEF IsVisit, VisitAt, S, D, P
  <2>2. Linked(v.s, v.d) /\ ~DoubleVlan(NetIn(v.s, v.d), v.src)
    BY <1>2 DEF IsVisit, VisitAt, S, D, P
  <2>3. rows(t[1], t[2]) \in all
    BY <1>2 DEF IsVisit
  <2>4. \A R \in all : \A w \in R : w \in U
    OBVIOUS
  <2>5. v \in U
    <3> HIDE DEF U, all, rows, v
    <3>1. QED
      BY <2>1, <2>3, <2>4
  <2>6. Visits(ns) = {w \in U : Linked(w.s, w.d) /\ ~DoubleVlan(NetIn(w.s, w.d), w.src)}
    BY DEF Visits
  <2> HIDE DEF U, v
  <2>7. QED
    BY <2>2, <2>5, <2>6 DEF v
<1>3. QED
  BY <1>1, <1>2

\* The hops are those of the places with a destination.
LEMMA HopsAre ==
  ASSUME NEW ns \in Seq(NetRow)
  PROVE  Hops(ns) = {HopAt(ns, t) : t \in HopTurns(ns)}
<1> DEFINE hop(v, m) ==
      [turn |-> <<v.turn[1], v.turn[2], v.turn[3], m>>, key |-> Key(v),
       flow |-> UnicastFlow(NbPorts(ns), v, v.d.ports[m]),
       out |-> <<Vout(v, v.d.ports[m]), v.d.ports[m].sp>>]
    dests(v) == {n \in DOMAIN v.d.ports : IsDestination(v, v.d.ports[n])}
<1>1. Hops(ns) = UNION {{hop(v, m) : m \in dests(v)} : v \in Visits(ns)}
  BY DEF Hops
<1>2. ASSUME NEW t \in Turns, NEW v, v = VisitAt(ns, t), t[4] \in DOMAIN v.d.ports
      PROVE  /\ hop(v, t[4]) = HopAt(ns, t)
             /\ IsHop(ns, t) <=> IsVisit(ns, t) /\ IsDestination(v, v.d.ports[t[4]])
  <2>1. /\ v.turn = <<t[1], t[2], t[3]>> /\ v.s = S(ns, t) /\ v.d = D(ns, t) /\ v.src = P(ns, t)
        /\ v.d.ports[t[4]] = Q(ns, t)
    BY <1>2 DEF VisitAt, D, Q
  <2>2. Key(v) = <<P(ns, t).id, In(ns, t)>> /\ Vin(v) = In(ns, t) /\ Vout(v, Q(ns, t)) = Out(ns, t)
    BY <2>1 DEF Key, Vin, Vout, In, Out
  <2>3. UnicastFlow(NbPorts(ns), v, Q(ns, t)) = FlowAt(ns, t)
    BY <2>1, <2>2 DEF UnicastFlow, FlowAt, AnyAt, ActionAt
  <2>4. IsDestination(v, Q(ns, t)) <=> /\ ~DoubleVlan(NetOut(S(ns, t), D(ns, t)), Q(ns, t))
                                      /\ ~(P(ns, t).sp = Q(ns, t).sp /\ In(ns, t) = Out(ns, t))
    BY <2>1, <2>2 DEF IsDestination
  <2>5. hop(v, t[4]) = HopAt(ns, t)
    BY <2>1, <2>2, <2>3 DEF HopAt
  <2>6. IsHop(ns, t) <=> IsVisit(ns, t) /\ IsDestination(v, v.d.ports[t[4]])
    BY <1>2, <2>1, <2>4 DEF IsHop
  <2>7. QED
    BY <2>5, <2>6
<1> HIDE DEF hop
<1>3. ASSUME NEW h \in Hops(ns) PROVE h \in {HopAt(ns, t) : t \in HopTurns(ns)}
  <2>1. PICK v \in Visits(ns) : \E m \in dests(v) : h = hop(v, m)
    BY <1>1
  <2>2. PICK m \in dests(v) : h = hop(v, m)
    BY <2>1
  <2>3. PICK u \in Turns3 : IsVisit(ns, u) /\ v = VisitAt(ns, u)
    BY VisitsAre
  <2> DEFINE t == <<u[1], u[2], u[3], m>>
  <2>4. m \in Nat
    BY <2>3, RowTypes DEF IsVisit, VisitAt, D
  <2>5. t \in Turns /\ t[1] = u[1] /\ t[2] = u[2] /\ t[3] = u[3] /\ t[4] = m
    BY <2>4 DEF Turns, Turns3
  <2>6. IsVisit(ns, t) /\ v = VisitAt(ns, t)
    BY <2>3, <2>5 DEF IsVisit, VisitAt, S, D, P
  <2>7. h = HopAt(ns, t) /\ IsHop(ns, t)
    BY <1>2, <2>2, <2>5, <2>6
  <2>8. QED
    BY <2>5, <2>7 DEF HopTurns
<1>4. ASSUME NEW t \in HopTurns(ns) PROVE HopAt(ns, t) \in Hops(ns)
  <2> DEFINE u == <<t[1], t[2], t[3]>>
             v == VisitAt(ns, u)
  <2>1. t \in Turns /\ IsHop(ns, t)
    BY DEF HopTurns
  <2>2. u \in Turns3 /\ u[1] = t[1] /\ u[2] = t[2] /\ u[3] = t[3]
    BY <2>1 DEF Turns, Turns3
  <2>3. v = VisitAt(ns, t) /\ IsVisit(ns, u) /\ v.d = D(ns, t)
    BY <2>1, <2>2 DEF VisitAt, IsVisit, IsHop, S, D, P
  <2>4. v \in Visits(ns)
    BY <2>2, <2>3, VisitsAre
  <2>5. t[4] \in DOMAIN v.d.ports
    BY <2>1, <2>3 DEF IsHop
  <2>6. hop(v, t[4]) = HopAt(ns, t) /\ t[4] \in dests(v)
    BY <1>2, <2>1, <2>3, <2>5
  <2>7. QED
    BY <1>1, <2>4, <2>6
<1>5. QED
  BY <1>3, <1>4


-----------------------------------------------------------------------------
(* What the tables say of two hops *)

\* A tag is a number, or None.
LEMMA TagsAreNumbers == /\ Tags \subseteq Nat /\ None \in Tags /\ Vlans \subseteq Tags
                        /\ \A x \in Tags : x # Unset /\ x # SomeVlan
BY SwitchAssumption DEF Tags, None, Unset, SomeVlan

\* The types of the parts of a hop.
LEMMA HopTypes ==
  ASSUME NEW ns \in Seq(NetRow), NEW t \in HopTurns(ns)
  PROVE  /\ t \in Turns /\ IsHop(ns, t) /\ IsVisit(ns, t)
         /\ t[1] \in DOMAIN ns /\ t[2] \in DOMAIN ns
         /\ t[3] \in DOMAIN ns[t[1]].ports /\ t[4] \in DOMAIN ns[t[2]].ports
         /\ S(ns, t) \in NetRow /\ D(ns, t) \in NetRow
         /\ P(ns, t) \in PortRow /\ Q(ns, t) \in PortRow
         /\ In(ns, t) \in Tags /\ Out(ns, t) \in Tags
<1>1. /\ t \in Turns /\ IsHop(ns, t) /\ IsVisit(ns, t)
      /\ t[1] \in DOMAIN ns /\ t[2] \in DOMAIN ns
      /\ t[3] \in DOMAIN ns[t[1]].ports /\ t[4] \in DOMAIN ns[t[2]].ports
  BY DEF HopTurns, IsHop, IsVisit, S, D
<1>2. /\ S(ns, t) \in NetRow /\ D(ns, t) \in NetRow
      /\ P(ns, t) \in PortRow /\ Q(ns, t) \in PortRow
  BY <1>1, RowTypes DEF S, D, P, Q
<1>3. In(ns, t) \in Tags /\ Out(ns, t) \in Tags
  BY <1>2, TagsAreNumbers DEF In, Out, TagOf, NetIn, NetOut, NetRow, PortRow
<1>4. QED
  BY <1>1, <1>2, <1>3

\* The tag of a port that has a VLAN, and the one a binding gives to others.
LEMMA OwnTag ==
  ASSUME NEW ns, NEW t \in HopTurns(ns)
  PROVE  /\ P(ns, t).vlan # None => In(ns, t) = P(ns, t).vlan /\ NetIn(S(ns, t), D(ns, t)) = None
         /\ P(ns, t).vlan = None => In(ns, t) = NetIn(S(ns, t), D(ns, t))
         /\ Q(ns, t).vlan # None => Out(ns, t) = Q(ns, t).vlan /\ NetOut(S(ns, t), D(ns, t)) = None
         /\ Q(ns, t).vlan = None => Out(ns, t) = NetOut(S(ns, t), D(ns, t))
BY DEF HopTurns, IsHop, IsVisit, DoubleVlan, In, Out, TagOf

\* Two hops from one switch port with one tag come from one network.
LEMMA SameOrigin ==
  ASSUME NEW ns, Tables(ns), NEW t \in HopTurns(ns), NEW u \in HopTurns(ns),
         P(ns, t).sp = P(ns, u).sp, In(ns, t) = In(ns, u)
  PROVE  /\ t[1] = u[1] /\ S(ns, t) = S(ns, u)
         /\ P(ns, t).vlan = P(ns, u).vlan
         /\ P(ns, t).vlan = None => t[3] = u[3] /\ P(ns, t) = P(ns, u)
<1>1. ns \in Seq(NetRow) /\ SharedByVlan(ns)
  BY DEF Tables
<1>2. \/ t[1] = u[1] /\ t[3] = u[3]
      \/ /\ P(ns, t).vlan # None /\ P(ns, u).vlan # None
         /\ P(ns, t).vlan = P(ns, u).vlan => t[1] = u[1]
  BY <1>1, HopTypes DEF SharedByVlan, P
<1>3. P(ns, t).vlan # None /\ P(ns, u).vlan # None => P(ns, t).vlan = P(ns, u).vlan
  BY OwnTag
<1>4. QED
  BY <1>2, <1>3 DEF S, P

\* Two hops to one switch port with one tag go to one network.
LEMMA SameGoal ==
  ASSUME NEW ns, Tables(ns), NEW t \in HopTurns(ns), NEW u \in HopTurns(ns),
         Q(ns, t).sp = Q(ns, u).sp, Out(ns, t) = Out(ns, u)
  PROVE  /\ t[2] = u[2] /\ D(ns, t) = D(ns, u)
         /\ Q(ns, t).vlan = Q(ns, u).vlan
<1>1. ns \in Seq(NetRow) /\ SharedByVlan(ns)
  BY DEF Tables
<1>2. \/ t[2] = u[2] /\ t[4] = u[4]
      \/ /\ Q(ns, t).vlan # None /\ Q(ns, u).vlan # None
         /\ Q(ns, t).vlan = Q(ns, u).vlan => t[2] = u[2]
  BY <1>1, HopTypes DEF SharedByVlan, Q
<1>3. Q(ns, t).vlan # None /\ Q(ns, u).vlan # None => Q(ns, t).vlan = Q(ns, u).vlan
  BY OwnTag
<1>4. QED
  BY <1>2, <1>3 DEF D, Q

\* The action says which tag a frame has then.
LEMMA VlanActions ==
  ASSUME NEW a \in Tags, NEW b \in Tags, NEW c \in Tags, NEW d \in Tags
  PROVE  /\ VlanAction(a, b) = VlanAction(c, d) => b = d
         /\ VlanAction(a, b) = Unset <=> a = None /\ b = None
         /\ VlanAction(a, b) # Unset => VlanAction(a, b) = b
BY TagsAreNumbers DEF VlanAction, None, Unset

\* Ports with one number are one port.
LEMMA SameNumber ==
  ASSUME NEW ns, Tables(ns), NEW t \in HopTurns(ns), NEW u \in HopTurns(ns)
  PROVE  /\ Q(ns, t).id = Q(ns, u).id => t[2] = u[2] /\ t[4] = u[4] /\ Q(ns, t) = Q(ns, u) /\ D(ns, t) = D(ns, u)
         /\ P(ns, t).id = P(ns, u).id => t[1] = u[1] /\ t[3] = u[3] /\ P(ns, t) = P(ns, u) /\ S(ns, t) = S(ns, u)
         /\ P(ns, t).id = Q(ns, u).id => t[1] = u[2] /\ t[3] = u[4] /\ P(ns, t) = Q(ns, u) /\ S(ns, t) = D(ns, u)
         /\ S(ns, t).id = S(ns, u).id => t[1] = u[1] /\ S(ns, t) = S(ns, u)
BY HopTypes DEF Tables, OwnNumbers, S, D, P, Q

\* Hops whose flows count as repeated: from one network and one switch port to
\* one network, one switch port and one tag.
LEMMA Repeated ==
  ASSUME NEW ns, Tables(ns), NEW t \in HopTurns(ns), NEW u \in HopTurns(ns)
  PROVE  SameFlow(FlowAt(ns, t), FlowAt(ns, u)) =>
           /\ t[1] = u[1] /\ S(ns, t) = S(ns, u) /\ P(ns, t).sp = P(ns, u).sp
           /\ t[2] = u[2] /\ D(ns, t) = D(ns, u)
           /\ Q(ns, t).sp = Q(ns, u).sp /\ Out(ns, t) = Out(ns, u)
           /\ P(ns, t).vlan = P(ns, u).vlan => In(ns, t) = In(ns, u) /\ FlowAt(ns, t) = FlowAt(ns, u)
<1> SUFFICES ASSUME SameFlow(FlowAt(ns, t), FlowAt(ns, u))
    PROVE  /\ t[1] = u[1] /\ S(ns, t) = S(ns, u) /\ P(ns, t).sp = P(ns, u).sp
           /\ t[2] = u[2] /\ D(ns, t) = D(ns, u)
           /\ Q(ns, t).sp = Q(ns, u).sp /\ Out(ns, t) = Out(ns, u)
           /\ P(ns, t).vlan = P(ns, u).vlan => In(ns, t) = In(ns, u) /\ FlowAt(ns, t) = FlowAt(ns, u)
  OBVIOUS
<1>1. /\ S(ns, t).id = S(ns, u).id /\ P(ns, t).sp = P(ns, u).sp
      /\ ActionAt(ns, t) = ActionAt(ns, u)
      /\ FlowAt(ns, t).priority = FlowAt(ns, u).priority
      /\ FlowAt(ns, t).dst = FlowAt(ns, u).dst
  BY DEF SameFlow, FlowAt
<1>2. Q(ns, t).sp = Q(ns, u).sp /\ VlanAction(In(ns, t), Out(ns, t)) = VlanAction(In(ns, u), Out(ns, u))
  BY <1>1 DEF ActionAt
<1>3. Out(ns, t) = Out(ns, u)
  BY <1>2, VlanActions, HopTypes DEF Tables
<1>4. t[1] = u[1] /\ S(ns, t) = S(ns, u) /\ t[2] = u[2] /\ D(ns, t) = D(ns, u)
  BY <1>1, <1>2, <1>3, SameNumber, SameGoal
<1>5. P(ns, t).vlan = P(ns, u).vlan => In(ns, t) = In(ns, u)
  BY <1>4 DEF In, TagOf
<1>6. P(ns, t).vlan = P(ns, u).vlan => FlowAt(ns, t) = FlowAt(ns, u)
  BY <1>1, <1>4, <1>5 DEF FlowAt
<1>7. QED
  BY <1>1, <1>2, <1>3, <1>4, <1>5, <1>6


-----------------------------------------------------------------------------
(* The links of the reference are the hops of the code *)

\* The link of a hop.
LinkAt(ns, t) ==
  [src |-> P(ns, t), tag |-> In(ns, t), dst |-> Q(ns, t), out |-> Out(ns, t),
   bound |-> S(ns, t) # D(ns, t)]

\* Networks are linked, and ports have the tags, as the reference says.
LEMMA Sides ==
  ASSUME NEW ns, Tables(ns), NEW i \in DOMAIN ns, NEW j \in DOMAIN ns
  PROVE  LET s == ns[i]
             d == ns[j]
         IN /\ Linked(s, d) <=> s = d \/ BoundTo(s, d)
            /\ Linked(s, d) =>
                 /\ \A p \in PortRow : \A x : x \in Side(s, d, p) <=>
                      ~DoubleVlan(NetIn(s, d), p) /\ x = TagOf(NetIn(s, d), p)
                 /\ \A q \in PortRow : \A x : x \in Side(d, s, q) <=>
                      ~DoubleVlan(NetOut(s, d), q) /\ x = TagOf(NetOut(s, d), q)
<1> DEFINE s == ns[i]
           d == ns[j]
<1>1. ns \in Seq(NetRow)
  BY DEF Tables
<1>2. s \in NetRow /\ d \in NetRow /\ s.bindVlan \in Tags /\ d.bindVlan \in Tags
  BY <1>1, RowTypes DEF NetRow
<1>3. s # d => ~(Binds(s, d) /\ Binds(d, s))
  BY DEF Tables, OneWay
<1>4. Linked(s, d) <=> s = d \/ BoundTo(s, d)
  BY DEF Linked, BoundTo, Binds
<1>5. ASSUME Linked(s, d), NEW p \in PortRow, NEW x
      PROVE  x \in Side(s, d, p) <=> ~DoubleVlan(NetIn(s, d), p) /\ x = TagOf(NetIn(s, d), p)
  BY <1>2, <1>3, <1>5 DEF Side, DoubleVlan, NetIn, TagOf, Linked, Binds, None
<1>6. ASSUME Linked(s, d), NEW q \in PortRow, NEW x
      PROVE  x \in Side(d, s, q) <=> ~DoubleVlan(NetOut(s, d), q) /\ x = TagOf(NetOut(s, d), q)
  BY <1>2, <1>3, <1>6 DEF Side, DoubleVlan, NetOut, TagOf, Linked, Binds, None
<1>7. QED
  BY <1>4, <1>5, <1>6

\* The ends of a link, by the ports of a network.
LEMMA EndsAre ==
  ASSUME NEW s \in NetRow, NEW d
  PROVE  \A e : e \in Ends(s, d) <=>
           \E k \in DOMAIN s.ports : \E x \in Side(s, d, s.ports[k]) : e = <<s.ports[k], x>>
BY DEF Ends, Range

\* The reference has the links of the hops and no other.
LEMMA LinksAre ==
  ASSUME Tables(nets)
  PROVE  Links = {LinkAt(nets, t) : t \in HopTurns(nets)}
<1> DEFINE between(s, d) ==
             {[src |-> e[1], tag |-> e[2], dst |-> f[1], out |-> f[2],
               bound |-> s # d] : e \in Ends(s, d), f \in Ends(d, s)}
           joined == {x \in Range(nets) \X Range(nets) : x[1] = x[2] \/ BoundTo(x[1], x[2])}
           all == {between(x[1], x[2]) : x \in joined}
<1>1. Links = {l \in UNION all : <<l.src.sp, l.tag>> # <<l.dst.sp, l.out>>}
  BY DEF Links
<1>2. nets \in Seq(NetRow)
  BY DEF Tables
<1>3. ASSUME NEW l \in Links PROVE l \in {LinkAt(nets, t) : t \in HopTurns(nets)}
  <2>1. PICK x \in joined : l \in between(x[1], x[2])
    BY <1>1
  <2>2. PICK i \in DOMAIN nets, j \in DOMAIN nets : x[1] = nets[i] /\ x[2] = nets[j]
    BY DEF Range
  <2> DEFINE s == nets[i]
             d == nets[j]
  <2>3. s \in NetRow /\ d \in NetRow /\ Linked(s, d)
    BY <1>2, <2>1, <2>2, RowTypes, Sides
  <2>4. PICK e \in Ends(s, d), f \in Ends(d, s) :
          l = [src |-> e[1], tag |-> e[2], dst |-> f[1], out |-> f[2], bound |-> s # d]
    BY <2>1, <2>2
  <2>5. PICK k \in DOMAIN s.ports : \E y \in Side(s, d, s.ports[k]) : e = <<s.ports[k], y>>
    BY <2>3, EndsAre
  <2>6. PICK m \in DOMAIN d.ports : \E y \in Side(d, s, d.ports[m]) : f = <<d.ports[m], y>>
    BY <2>3, EndsAre
  <2>7. s.ports[k] \in PortRow /\ d.ports[m] \in PortRow /\ k \in Nat /\ m \in Nat /\ i \in Nat /\ j \in Nat
    BY <1>2, RowTypes
  <2>8. /\ e = <<s.ports[k], TagOf(NetIn(s, d), s.ports[k])>> /\ ~DoubleVlan(NetIn(s, d), s.ports[k])
        /\ f = <<d.ports[m], TagOf(NetOut(s, d), d.ports[m])>> /\ ~DoubleVlan(NetOut(s, d), d.ports[m])
    BY <2>3, <2>5, <2>6, <2>7, Sides
  <2> DEFINE t == <<i, j, k, m>>
  <2>9. /\ t \in Turns /\ S(nets, t) = s /\ D(nets, t) = d
        /\ P(nets, t) = s.ports[k] /\ Q(nets, t) = d.ports[m]
    BY <2>7 DEF Turns, S, D, P, Q
  <2>10. l = LinkAt(nets, t)
    BY <2>4, <2>8, <2>9 DEF LinkAt, In, Out
  <2>11. ~(l.src.sp = l.dst.sp /\ l.tag = l.out)
    <3>1. <<l.src.sp, l.tag>> # <<l.dst.sp, l.out>>
      <4> HIDE DEF all
      <4>1. QED
        BY <1>1
    <3>2. QED
      BY <3>1
  <2>12. IsVisit(nets, t)
    BY <2>3, <2>8, <2>9 DEF IsVisit
  <2>13. IsHop(nets, t)
    BY <2>8, <2>9, <2>10, <2>11, <2>12 DEF IsHop, LinkAt
  <2>14. QED
    BY <2>9, <2>10, <2>13 DEF HopTurns
<1>4. ASSUME NEW t \in HopTurns(nets) PROVE LinkAt(nets, t) \in Links
  <2> DEFINE s == S(nets, t)
             d == D(nets, t)
             l == LinkAt(nets, t)
  <2>1. /\ s \in NetRow /\ d \in NetRow /\ P(nets, t) \in PortRow /\ Q(nets, t) \in PortRow
        /\ t[1] \in DOMAIN nets /\ t[2] \in DOMAIN nets
        /\ t[3] \in DOMAIN s.ports /\ t[4] \in DOMAIN d.ports
        /\ P(nets, t) = s.ports[t[3]] /\ Q(nets, t) = d.ports[t[4]]
    BY <1>2, HopTypes DEF S, D, P, Q
  <2>2. Linked(s, d) /\ In(nets, t) \in Side(s, d, P(nets, t)) /\ Out(nets, t) \in Side(d, s, Q(nets, t))
    <3>1. /\ Linked(s, d) /\ ~DoubleVlan(NetIn(s, d), P(nets, t))
          /\ ~DoubleVlan(NetOut(s, d), Q(nets, t))
      BY DEF HopTurns, IsHop, IsVisit
    <3>2. s = nets[t[1]] /\ d = nets[t[2]]
      BY DEF S, D
    <3>3. QED
      BY <2>1, <3>1, <3>2, Sides DEF In, Out
  <2>3. <<P(nets, t), In(nets, t)>> \in Ends(s, d) /\ <<Q(nets, t), Out(nets, t)>> \in Ends(d, s)
    BY <2>1, <2>2, EndsAre
  <2>4. l \in between(s, d)
    BY <2>3 DEF LinkAt
  <2>5. <<s, d>> \in joined /\ <<s, d>>[1] = s /\ <<s, d>>[2] = d
    <3>1. s \in Range(nets) /\ d \in Range(nets)
      BY <2>1 DEF Range, S, D
    <3>2. s = d \/ BoundTo(s, d)
      BY <2>1, <2>2, Sides DEF S, D
    <3>3. QED
      BY <3>1, <3>2
  <2>6. between(s, d) \in all
    <3>1. \A x \in joined : between(x[1], x[2]) \in all
      OBVIOUS
    <3> HIDE DEF all, between, joined
    <3>2. QED
      BY <2>5, <3>1
  <2>7. l \in UNION all
    <3> HIDE DEF all, between, l
    <3>1. QED
      BY <2>4, <2>6
  <2>8. ~(l.src.sp = l.dst.sp /\ l.tag = l.out)
    BY DEF LinkAt, HopTurns, IsHop
  <2>9. <<l.src.sp, l.tag>> # <<l.dst.sp, l.out>>
    BY <2>8
  <2>10. QED
    <3> HIDE DEF all, l
    <3>1. QED
      BY <1>1, <2>7, <2>9 DEF l
<1>5. QED
  BY <1>3, <1>4


-----------------------------------------------------------------------------
(* The actions of a broadcast *)

\* Induction over the parts of a finite set.
LEMMA SubsetInduction ==
  ASSUME NEW A, IsFiniteSet(A), NEW G, {} \in G,
         \A T \in SUBSET A : T # {} /\ (\A x \in T : T \ {x} \in G) => T \in G
  PROVE  \A T \in SUBSET A : T \in G
<1> DEFINE bad == {n \in Nat : \E T \in SUBSET A : Cardinality(T) = n /\ T \notin G}
<1>1. SUFFICES ASSUME NEW T \in SUBSET A, T \notin G PROVE FALSE
  OBVIOUS
<1>2. IsFiniteSet(T) /\ Cardinality(T) \in Nat
  BY FS_Subset, FS_CardinalityType
<1>3. Cardinality(T) \in bad /\ bad \subseteq Nat
  <2>1. \E U \in SUBSET A : Cardinality(U) = Cardinality(T) /\ U \notin G
    BY <1>1
  <2>2. QED
    BY <1>2, <2>1
<1>4. PICK n \in bad : \A m \in bad : n <= m
  BY <1>3, LeastNumber
<1>5. PICK U \in SUBSET A : Cardinality(U) = n /\ U \notin G
  OBVIOUS
<1>6. U # {} /\ IsFiniteSet(U)
  BY <1>5, FS_Subset
<1>7. ASSUME NEW x \in U PROVE U \ {x} \in G
  <2>1. Cardinality(U \ {x}) = n - 1 /\ Cardinality(U \ {x}) \in Nat
    BY <1>5, <1>6, FS_RemoveElement, FS_CardinalityType
  <2>2. n - 1 \notin bad
    BY <1>4
  <2>3. QED
    BY <2>1, <2>2
<1>8. QED
  BY <1>5, <1>6, <1>7

\* An output of a broadcast: a tag and a switch port.
Pairs == Tags \X SwitchPorts

\* Outputs are in a total order.
LEMMA BeforeOrder ==
  /\ \A o, p \in Pairs : o = p \/ Before(o, p) \/ Before(p, o)
  /\ \A o, p \in Pairs : Before(o, p) => o # p
  /\ \A o \in Pairs : o[1] \in Tags /\ o[2] \in SwitchPorts /\ o = <<o[1], o[2]>> /\ o[1] \in Nat /\ o[2] \in Nat
<1>1. \A o \in Pairs : o[1] \in Tags /\ o[2] \in SwitchPorts /\ o = <<o[1], o[2]>>
  BY DEF Pairs
<1>2. \A o \in Pairs : o[1] \in Nat /\ o[2] \in Nat
  BY <1>1, TagsAreNumbers, SwitchAssumption
<1>3. \A o, p \in Pairs : o[1] = p[1] /\ o[2] = p[2] => o = p
  BY <1>1
<1>4. QED
  BY <1>1, <1>2, <1>3 DEF Before

\* Of any outputs one is the first.
LEMMA LeastPair ==
  ASSUME NEW T \in SUBSET Pairs, T # {}
  PROVE  \E o \in T : \A p \in T : o = p \/ Before(o, p)
<1> DEFINE A == {o[1] : o \in T}
<1>1. A \subseteq Nat /\ A # {}
  BY BeforeOrder
<1>2. PICK a \in A : \A x \in A : a <= x
  BY <1>1, LeastNumber
<1> DEFINE B == {o[2] : o \in {p \in T : p[1] = a}}
<1>3. B \subseteq Nat /\ B # {}
  BY BeforeOrder
<1>4. PICK b \in B : \A x \in B : b <= x
  BY <1>3, LeastNumber
<1>5. PICK o \in T : o[1] = a /\ o[2] = b
  OBVIOUS
<1>6. ASSUME NEW p \in T PROVE o = p \/ Before(o, p)
  <2>1. a <= p[1] /\ (p[1] = a => b <= p[2])
    BY <1>2, <1>4
  <2>2. QED
    BY <1>5, <2>1, BeforeOrder DEF Before
<1>7. QED
  BY <1>6

\* The outputs are in order.
Ascending(s) == \A i, j \in DOMAIN s : i < j => Before(s[i], s[j])

\* There are finitely many outputs.
LEMMA PairsAreFinite ==
  ASSUME NEW outs \in SUBSET Pairs
  PROVE  IsFiniteSet(outs) /\ Cardinality(outs) \in Nat
<1>1. IsFiniteSet(Tags)
  BY SwitchAssumption, FS_AddElement DEF Tags
<1>2. IsFiniteSet(Pairs)
  BY <1>1, SwitchAssumption, FS_Product DEF Pairs
<1>3. QED
  BY <1>2, FS_Subset, FS_CardinalityType

\* Any outputs can be put in order.
LEMMA SortedExists ==
  ASSUME NEW outs \in SUBSET Pairs
  PROVE  \E s \in [1..Cardinality(outs) -> outs] : Ascending(s)
<1> DEFINE G == {T \in SUBSET outs : \E s \in [1..Cardinality(T) -> T] : Ascending(s)}
<1>1. {} \in G
  <2>1. Cardinality({}) = 0 /\ 1..0 = {}
    BY FS_EmptySet
  <2>2. [x \in {} |-> x] \in [{} -> {}] /\ Ascending([x \in {} |-> x])
    BY DEF Ascending
  <2>3. QED
    BY <2>1, <2>2
<1>2. ASSUME NEW T \in SUBSET outs, T # {}, \A x \in T : T \ {x} \in G PROVE T \in G
  <2>1. PICK o \in T : \A p \in T : o = p \/ Before(o, p)
    BY <1>2, LeastPair
  <2> DEFINE n == Cardinality(T)
  <2>2. n \in Nat /\ n # 0 /\ Cardinality(T \ {o}) = n - 1 /\ n - 1 \in Nat
    <3>1. T \in SUBSET Pairs
      OBVIOUS
    <3>2. IsFiniteSet(T) /\ n \in Nat
      BY <3>1, PairsAreFinite
    <3>3. n # 0 /\ Cardinality(T \ {o}) = n - 1
      BY <1>2, <3>2, FS_RemoveElement, FS_EmptySet
    <3>4. QED
      BY <3>2, <3>3
  <2>3. PICK s \in [1..(n - 1) -> T \ {o}] : Ascending(s)
    BY <1>2, <2>2
  <2> DEFINE r == [i \in 1..n |-> IF i = 1 THEN o ELSE s[i - 1]]
  <2>4. \A i \in 1..n : i # 1 => i - 1 \in 1..(n - 1)
    BY <2>2
  <2>5. r \in [1..n -> T]
    BY <2>3, <2>4
  <2>6. ASSUME NEW i \in 1..n, NEW j \in 1..n, i < j PROVE Before(r[i], r[j])
    <3>1. j # 1 /\ j - 1 \in 1..(n - 1) /\ r[j] = s[j - 1]
      BY <2>6, <2>4
    <3>2. CASE i = 1
      <4>1. r[j] \in T /\ r[j] # o /\ r[i] = o
        BY <3>1, <3>2, <2>3
      <4>2. QED
        BY <2>1, <4>1
    <3>3. CASE i # 1
      <4>1. r[i] = s[i - 1] /\ i - 1 \in 1..(n - 1) /\ i - 1 < j - 1
        BY <3>3, <2>4, <2>6
      <4>2. QED
        BY <3>1, <4>1, <2>3 DEF Ascending
    <3>4. QED
      BY <3>2, <3>3
  <2>7. Ascending(r)
    BY <2>6 DEF Ascending
  <2>8. QED
    BY <2>5, <2>7
<1>3. IsFiniteSet(outs)
  BY PairsAreFinite
<1> HIDE DEF G
<1>4. \A T \in SUBSET outs : T \in G
  BY <1>1, <1>2, <1>3, SubsetInduction
<1>5. QED
  BY <1>4 DEF G

\* The sorted outputs are each output once.
LEMMA SortedIs ==
  ASSUME NEW outs \in SUBSET Pairs
  PROVE  /\ Cardinality(outs) \in Nat
         /\ Sorted(outs) \in [1..Cardinality(outs) -> outs]
         /\ \A o \in outs : \E i \in 1..Cardinality(outs) : Sorted(outs)[i] = o
         /\ outs # {} => 1 \in 1..Cardinality(outs)
<1> DEFINE n == Cardinality(outs)
           s == Sorted(outs)
<1>1. IsFiniteSet(outs) /\ n \in Nat
  BY PairsAreFinite
<1>2. s \in [1..n -> outs] /\ Ascending(s)
  <2>1. \E r \in [1..n -> outs] : \A i, j \in DOMAIN r : i < j => Before(r[i], r[j])
    BY SortedExists DEF Ascending
  <2>2. QED
    BY <2>1 DEF Sorted, Ascending
<1> HIDE DEF s
<1>3. \A i, j \in 1..n : s[i] = s[j] => i = j
  <2> SUFFICES ASSUME NEW i \in 1..n, NEW j \in 1..n, i # j PROVE s[i] # s[j]
    OBVIOUS
  <2>1. Before(s[i], s[j]) \/ Before(s[j], s[i])
    BY <1>2 DEF Ascending
  <2>2. QED
    BY <1>2, <2>1, BeforeOrder
<1>4. s \in Injection(1..n, outs)
  BY <1>2, <1>3 DEF Injection, IsInjective
<1>5. IsFiniteSet(1..n) /\ Cardinality(1..n) = n
  BY <1>1, FS_Interval
<1>6. s \in Surjection(1..n, outs)
  BY <1>1, <1>4, <1>5, FS_Injection
<1>7. \A o \in outs : \E i \in 1..n : s[i] = o
  BY <1>6 DEF Surjection
<1>8. outs # {} => 1 \in 1..n
  BY <1>1, FS_EmptySet
<1>9. QED
  BY <1>1, <1>2, <1>7, <1>8 DEF s


\* The actions of a broadcast, one for each output.
LEMMA FinalActionsAre ==
  ASSUME NEW vin \in Tags, NEW outs \in SUBSET Pairs
  PROVE  LET n == Cardinality(outs)
             s == Sorted(outs)
             a == FinalActions(vin, outs)
         IN /\ DOMAIN a = 1..n
            /\ \A i \in 1..n :
                 /\ a[i].out = s[i][2]
                 /\ i = 1 => a[i].set = VlanAction(vin, s[i][1])
                 /\ i # 1 => a[i].set = IF s[i][1] = s[i - 1][1] THEN Unset ELSE s[i][1]
<1> DEFINE n == Cardinality(outs)
           s == Sorted(outs)
           a == FinalActions(vin, outs)
           previous(i) == IF i > 1 THEN s[i - 1][1] ELSE IF vin = None THEN None ELSE SomeVlan
<1>1. n \in Nat /\ s \in [1..n -> outs] /\ \A i \in 1..n : s[i][1] \in Tags
  BY SortedIs, BeforeOrder
<1> HIDE DEF s
<1>2. a = [i \in 1..n |-> [set |-> IF s[i][1] = previous(i) THEN Unset ELSE s[i][1], out |-> s[i][2]]]
  BY <1>1 DEF FinalActions, s
<1>3. ASSUME NEW i \in 1..n
      PROVE  /\ a[i].out = s[i][2]
             /\ i = 1 => a[i].set = VlanAction(vin, s[i][1])
             /\ i # 1 => a[i].set = IF s[i][1] = s[i - 1][1] THEN Unset ELSE s[i][1]
  <2>1. a[i].out = s[i][2] /\ a[i].set = IF s[i][1] = previous(i) THEN Unset ELSE s[i][1]
    BY <1>2
  <2>2. i # 1 => i > 1
    BY <1>1
  <2>3. i = 1 => a[i].set = VlanAction(vin, s[i][1])
    <3> SUFFICES ASSUME i = 1 PROVE a[1].set = VlanAction(vin, s[1][1])
      OBVIOUS
    <3>1. previous(1) = IF vin = None THEN None ELSE SomeVlan
      OBVIOUS
    <3>2. s[1][1] \in Tags /\ s[1][1] # SomeVlan
      BY <1>1, TagsAreNumbers
    <3>3. a[1].set = IF s[1][1] = previous(1) THEN Unset ELSE s[1][1]
      BY <2>1
    <3> HIDE DEF a, previous
    <3>4. QED
      BY <3>1, <3>2, <3>3 DEF VlanAction
  <2>4. QED
    BY <2>1, <2>2, <2>3
<1>4. QED
  BY <1>2, <1>3 DEF s

\* At an output of a broadcast the frame has the tag of that output.
LEMMA TagOfOutput ==
  ASSUME NEW vin \in Tags, NEW outs \in SUBSET Pairs, NEW i \in 1..Cardinality(outs), NEW tag,
         Sorted(outs)[i][1] # None \/ vin # None \/ tag = None
  PROVE  TagAt(FinalActions(vin, outs), i, tag) = Sorted(outs)[i][1]
<1> DEFINE n == Cardinality(outs)
           s == Sorted(outs)
           a == FinalActions(vin, outs)
           sets == {j \in 1..i : a[j].set # Unset}
<1>1. n \in Nat /\ s \in [1..n -> outs] /\ \A j \in 1..n : s[j][1] \in Tags
  BY SortedIs, BeforeOrder
<1>2. \A j \in 1..n :
        /\ j = 1 => a[j].set = VlanAction(vin, s[j][1])
        /\ j # 1 => a[j].set = IF s[j][1] = s[j - 1][1] THEN Unset ELSE s[j][1]
  BY FinalActionsAre
<1>3. TagAt(a, i, tag) = IF sets = {} THEN tag ELSE a[CHOOSE j \in sets : \A k \in sets : k <= j].set
  BY DEF TagAt
<1>4. i \in Nat /\ 1..i \subseteq 1..n
  BY <1>1
<1> HIDE DEF n, s, a
\* Between an output that sets no tag and the one before it nothing changes.
<1>5. ASSUME NEW j \in 1..i, \A k \in 1..i : k > j => k \notin sets
      PROVE  s[i][1] = s[j][1]
  <2> DEFINE bad == {k \in 1..i : k > j /\ s[k][1] # s[j][1]}
  <2>1. SUFFICES ASSUME bad # {} PROVE FALSE
    <3>1. i \in 1..i /\ (i = j \/ i > j)
      BY <1>4
    <3>2. QED
      BY <3>1
  <2>2. bad \subseteq Nat
    BY <1>4
  <2>3. PICK k \in bad : \A m \in bad : k <= m
    <3> HIDE DEF bad
    <3>1. QED
      BY <2>1, <2>2, LeastNumber
  <2>4. k - 1 \in 1..i /\ k - 1 >= j /\ k - 1 \notin bad
    BY <2>3
  <2>5. s[k - 1][1] = s[j][1]
    BY <2>4
  <2>6. k # 1 /\ k \in 1..n /\ s[k][1] # s[k - 1][1]
    BY <1>4, <2>4, <2>5
  <2>7. a[k].set = s[k][1] /\ s[k][1] # Unset
    BY <1>1, <1>2, <2>6, TagsAreNumbers
  <2>8. QED
    BY <1>5, <2>7
<1>6. CASE sets = {}
  <2>1. 1 \in 1..i /\ 1 \in 1..n
    BY <1>4
  <2>2. s[i][1] = s[1][1]
    BY <1>5, <1>6, <2>1
  <2>3. a[1].set = VlanAction(vin, s[1][1]) /\ a[1].set = Unset /\ s[1][1] \in Tags
    BY <1>1, <1>2, <1>6, <2>1
  <2>4. vin = None /\ s[1][1] = None
    BY <2>3, VlanActions
  <2>5. tag = None
    BY <2>2, <2>4 DEF s
  <2>6. QED
    BY <1>3, <1>6, <2>2, <2>4, <2>5 DEF s, a
<1>7. CASE sets # {}
  <2>1. sets \subseteq Nat /\ \A j \in sets : j <= i
    BY <1>4
  <2>2. \E j \in sets : \A k \in sets : k <= j
    <3> HIDE DEF sets
    <3>1. QED
      BY <1>4, <1>7, <2>1, GreatestNumber
  <2> DEFINE last == CHOOSE j \in sets : \A k \in sets : k <= j
  <2>3. last \in sets /\ \A k \in sets : k <= last
    BY <2>2
  <2> HIDE DEF last
  <2>4. last \in 1..i /\ \A k \in 1..i : k > last => k \notin sets
    BY <2>3, <1>4
  <2>5. s[i][1] = s[last][1]
    <3> HIDE DEF sets
    <3>1. QED
      BY <1>5, <2>4
  <2>6. a[last].set # Unset /\ last \in 1..n /\ s[last][1] \in Tags
    BY <1>1, <1>4, <2>3
  <2>7. a[last].set = s[last][1]
    BY <1>2, <2>6, VlanActions
  <2>8. TagAt(a, i, tag) = a[last].set
    BY <1>3, <1>7 DEF last
  <2>9. QED
    BY <2>5, <2>7, <2>8 DEF s, a
<1>8. QED
  BY <1>6, <1>7

\* What a broadcast emits.
LEMMA BroadcastEmits ==
  ASSUME NEW vin \in Tags, NEW outs \in SUBSET Pairs, NEW f,
         f.actions = FinalActions(vin, outs), NEW tag
  PROVE  /\ \A e \in Emitted(f, tag) : \E o \in outs :
              e[1] = o[2] /\ (o[1] # None => e[2] = o[1])
         /\ vin = tag => Emitted(f, tag) = {<<o[2], o[1]>> : o \in outs}
<1> DEFINE n == Cardinality(outs)
           s == Sorted(outs)
           a == FinalActions(vin, outs)
<1>1. /\ n \in Nat /\ s \in [1..n -> outs]
      /\ \A o \in outs : \E i \in 1..n : s[i] = o
  BY SortedIs
<1>2. DOMAIN a = 1..n /\ \A i \in 1..n : a[i].out = s[i][2]
  BY FinalActionsAre
<1>3. \A i \in 1..n : s[i][1] # None \/ vin # None \/ tag = None => TagAt(a, i, tag) = s[i][1]
  BY TagOfOutput
<1>4. Emitted(f, tag) = {<<a[i].out, TagAt(a, i, tag)>> : i \in 1..n}
  BY <1>2 DEF Emitted
<1> HIDE DEF n, s, a
<1>5. ASSUME NEW e \in Emitted(f, tag)
      PROVE  \E o \in outs : e[1] = o[2] /\ (o[1] # None => e[2] = o[1])
  <2>1. PICK i \in 1..n : e = <<a[i].out, TagAt(a, i, tag)>>
    BY <1>4
  <2>2. QED
    BY <1>1, <1>2, <1>3, <2>1
<1>6. ASSUME vin = tag PROVE Emitted(f, tag) = {<<o[2], o[1]>> : o \in outs}
  <2>1. \A i \in 1..n : TagAt(a, i, tag) = s[i][1]
    BY <1>3, <1>6
  <2>2. Emitted(f, tag) = {<<s[i][2], s[i][1]>> : i \in 1..n}
    BY <1>2, <1>4, <2>1
  <2>3. QED
    BY <1>1, <2>2
<1>7. QED
  BY <1>5, <1>6

\* What the flow of a hop emits.
LEMMA HopEmits ==
  ASSUME NEW ns \in Seq(NetRow), NEW t \in HopTurns(ns), NEW f,
         f.actions = << ActionAt(ns, t) >>, NEW tag
  PROVE  /\ \A e \in Emitted(f, tag) :
              e[1] = Q(ns, t).sp /\ (Out(ns, t) # None => e[2] = Out(ns, t))
         /\ In(ns, t) = tag => Emitted(f, tag) = {<<Q(ns, t).sp, Out(ns, t)>>}
<1> DEFINE a == << ActionAt(ns, t) >>
           sets == {j \in 1..1 : a[j].set # Unset}
<1>1. /\ DOMAIN a = {1} /\ a[1].out = Q(ns, t).sp /\ a[1].set = VlanAction(In(ns, t), Out(ns, t))
      /\ 1..1 = {1}
  BY DEF ActionAt
<1>2. Emitted(f, tag) = {<<Q(ns, t).sp, TagAt(a, 1, tag)>>}
  BY <1>1 DEF Emitted
<1>3. In(ns, t) \in Tags /\ Out(ns, t) \in Tags
  BY HopTypes
<1>4. TagAt(a, 1, tag) = IF sets = {} THEN tag ELSE a[CHOOSE j \in sets : \A k \in sets : k <= j].set
  BY DEF TagAt
<1>5. CASE a[1].set = Unset
  <2>1. In(ns, t) = None /\ Out(ns, t) = None
    BY <1>1, <1>3, <1>5, VlanActions
  <2>2. TagAt(a, 1, tag) = tag
    BY <1>1, <1>4, <1>5
  <2>3. QED
    BY <1>2, <2>1, <2>2
<1>6. CASE a[1].set # Unset
  <2>1. sets = {1}
    BY <1>1, <1>6
  <2>2. (CHOOSE j \in {1} : \A k \in {1} : k <= j) = 1
    OBVIOUS
  <2>3. TagAt(a, 1, tag) = Out(ns, t)
    BY <1>1, <1>3, <1>4, <1>6, <2>1, <2>2, VlanActions
  <2>4. QED
    BY <1>2, <2>3
<1>7. QED
  BY <1>5, <1>6


-----------------------------------------------------------------------------
(* The flows computed *)

\* The places of the hops whose flow is not a repeated one.
KeptTurns(ns) ==
  {t \in HopTurns(ns) :
     \A u \in HopTurns(ns) : Earlier(u, t) => ~SameFlow(FlowAt(ns, u), FlowAt(ns, t))}

\* The parts of the hop of a place.
LEMMA TurnOfHop ==
  ASSUME NEW ns \in Seq(NetRow), NEW t \in HopTurns(ns)
  PROVE  /\ HopAt(ns, t).turn = t /\ HopAt(ns, t).flow = FlowAt(ns, t)
         /\ HopAt(ns, t).key = <<P(ns, t).id, In(ns, t)>>
         /\ HopAt(ns, t).out = <<Out(ns, t), Q(ns, t).sp>>
         /\ HopAt(ns, t).out \in Pairs
<1>1. t = <<t[1], t[2], t[3], t[4]>>
  BY HopTypes, SameTurn
<1>2. Out(ns, t) \in Tags /\ Q(ns, t).sp \in SwitchPorts
  BY HopTypes DEF PortRow
<1>3. QED
  BY <1>1, <1>2 DEF HopAt, Pairs

\* The hops kept are those of the places kept.
LEMMA KeptAre ==
  ASSUME NEW ns \in Seq(NetRow)
  PROVE  KeptHops(ns) = {HopAt(ns, t) : t \in KeptTurns(ns)}
<1>1. \A t, u \in HopTurns(ns) :
        (Earlier(HopAt(ns, u).turn, HopAt(ns, t).turn) /\ SameFlow(HopAt(ns, u).flow, HopAt(ns, t).flow))
           <=> Earlier(u, t) /\ SameFlow(FlowAt(ns, u), FlowAt(ns, t))
  BY TurnOfHop
<1>2. KeptHops(ns) = {h \in {HopAt(ns, t) : t \in HopTurns(ns)} :
         ~ \E g \in {HopAt(ns, t) : t \in HopTurns(ns)} : Earlier(g.turn, h.turn) /\ SameFlow(g.flow, h.flow)}
  BY HopsAre DEF KeptHops
<1>3. ASSUME NEW h \in KeptHops(ns) PROVE h \in {HopAt(ns, t) : t \in KeptTurns(ns)}
  <2>1. PICK t \in HopTurns(ns) : h = HopAt(ns, t)
    BY <1>2
  <2>2. \A u \in HopTurns(ns) : ~(Earlier(HopAt(ns, u).turn, h.turn) /\ SameFlow(HopAt(ns, u).flow, h.flow))
    BY <1>2
  <2>3. t \in KeptTurns(ns)
    BY <1>1, <2>1, <2>2 DEF KeptTurns
  <2>4. QED
    BY <2>1, <2>3
<1>4. ASSUME NEW t \in KeptTurns(ns) PROVE HopAt(ns, t) \in KeptHops(ns)
  <2>1. t \in HopTurns(ns) /\ \A u \in HopTurns(ns) : ~(Earlier(u, t) /\ SameFlow(FlowAt(ns, u), FlowAt(ns, t)))
    BY DEF KeptTurns
  <2>2. ~ \E g \in {HopAt(ns, u) : u \in HopTurns(ns)} :
           Earlier(g.turn, HopAt(ns, t).turn) /\ SameFlow(g.flow, HopAt(ns, t).flow)
    BY <1>1, <2>1
  <2>3. HopAt(ns, t) \in {HopAt(ns, u) : u \in HopTurns(ns)}
    BY <2>1
  <2>4. QED
    BY <1>2, <2>2, <2>3
<1>5. QED
  BY <1>3, <1>4

\* Of the hops with a repeated flow the first is kept.
LEMMA SomeIsKept ==
  ASSUME NEW ns \in Seq(NetRow), NEW t \in HopTurns(ns)
  PROVE  \E u \in KeptTurns(ns) : SameFlow(FlowAt(ns, u), FlowAt(ns, t)) /\ (u = t \/ Earlier(u, t))
<1> DEFINE T == {u \in HopTurns(ns) : SameFlow(FlowAt(ns, u), FlowAt(ns, t))}
<1>1. t \in T /\ T \subseteq Turns
  BY DEF SameFlow, HopTurns
<1>2. PICK u \in T : \A x \in T : u = x \/ Earlier(u, x)
  <2> HIDE DEF T
  <2>1. QED
    BY <1>1, FirstOf4
<1>3. ASSUME NEW x \in HopTurns(ns), Earlier(x, u), SameFlow(FlowAt(ns, x), FlowAt(ns, u)) PROVE FALSE
  <2>1. x \in T
    BY <1>3 DEF SameFlow
  <2>2. u \in Turns /\ x \in Turns
    BY <1>1, <2>1
  <2>3. u = x \/ Earlier(u, x)
    BY <1>2, <2>1
  <2>4. ~Earlier(u, u) /\ ~(Earlier(u, x) /\ Earlier(x, u))
    BY <2>2, EarlierOf4, SameTurn
  <2>5. QED
    BY <1>3, <2>3, <2>4
<1>4. QED
  BY <1>1, <1>2, <1>3 DEF KeptTurns

\* The outputs of a broadcast are those of the hops kept with its key.
LEMMA OutsAre ==
  ASSUME NEW ns \in Seq(NetRow), NEW key
  PROVE  /\ Outs(KeptHops(ns), key) =
              {<<Out(ns, t), Q(ns, t).sp>> : t \in {u \in KeptTurns(ns) : <<P(ns, u).id, In(ns, u)>> = key}}
         /\ Outs(KeptHops(ns), key) \in SUBSET Pairs
<1>1. \A t \in KeptTurns(ns) : t \in HopTurns(ns)
  BY DEF KeptTurns
<1>2. Outs(KeptHops(ns), key) = {h.out : h \in {x \in {HopAt(ns, t) : t \in KeptTurns(ns)} : x.key = key}}
  BY KeptAre DEF Outs
<1>3. \A t \in KeptTurns(ns) : HopAt(ns, t).key = <<P(ns, t).id, In(ns, t)>>
        /\ HopAt(ns, t).out = <<Out(ns, t), Q(ns, t).sp>> /\ HopAt(ns, t).out \in Pairs
  BY <1>1, TurnOfHop
<1>4. Outs(KeptHops(ns), key) =
              {<<Out(ns, t), Q(ns, t).sp>> : t \in {u \in KeptTurns(ns) : <<P(ns, u).id, In(ns, u)>> = key}}
  <2>1. ASSUME NEW o \in Outs(KeptHops(ns), key)
        PROVE  \E t \in KeptTurns(ns) : <<P(ns, t).id, In(ns, t)>> = key /\ o = <<Out(ns, t), Q(ns, t).sp>>
    <3>1. PICK t \in KeptTurns(ns) : HopAt(ns, t).key = key /\ o = HopAt(ns, t).out
      BY <1>2
    <3>2. QED
      BY <1>3, <3>1
  <2>2. ASSUME NEW t \in KeptTurns(ns), <<P(ns, t).id, In(ns, t)>> = key
        PROVE  <<Out(ns, t), Q(ns, t).sp>> \in Outs(KeptHops(ns), key)
    <3>1. HopAt(ns, t).key = key /\ HopAt(ns, t).out = <<Out(ns, t), Q(ns, t).sp>>
      BY <1>3, <2>2
    <3>2. HopAt(ns, t).out \in Outs(KeptHops(ns), key)
      BY <1>2, <3>1
    <3>3. QED
      BY <3>1, <3>2
  <2>3. QED
    BY <2>1, <2>2
<1>5. QED
  BY <1>3, <1>4

\* The key of the broadcast of a hop, and its outputs.
KeyAt(ns, t) == <<P(ns, t).id, In(ns, t)>>
OutsAt(ns, t) == Outs(KeptHops(ns), KeyAt(ns, t))

\* The broadcast flow of the port and tag that a hop comes from.
LEMMA BroadcastIs ==
  ASSUME NEW ns, Tables(ns), NEW t \in KeptTurns(ns)
  PROVE  LET f == BroadcastFlow(ns, KeptHops(ns), KeyAt(ns, t))
         IN /\ f.net = S(ns, t).id /\ f.ingress = P(ns, t).sp /\ f.vlan = In(ns, t)
            /\ f.dst = Broadcast /\ f.actions = FinalActions(In(ns, t), OutsAt(ns, t))
            /\ f.priority \in {1000, 1100}
<1> DEFINE key == KeyAt(ns, t)
           of == {v \in Visits(ns) : Key(v) = key}
           T == {u \in Turns3 : IsVisit(ns, u) /\ Key(VisitAt(ns, u)) = key}
           first == CHOOSE x \in of : \A y \in of : x = y \/ Earlier(x.turn, y.turn)
<1>1. ns \in Seq(NetRow) /\ t \in HopTurns(ns)
  BY DEF Tables, KeptTurns
<1>2. \A u \in Turns3 : VisitAt(ns, u).turn = u
  BY SameTurn DEF VisitAt
<1>3. T # {}
  <2> DEFINE u == <<t[1], t[2], t[3]>>
  <2>1. t \in Turns /\ IsVisit(ns, t)
    BY <1>1, HopTypes
  <2>2. u \in Turns3 /\ u[1] = t[1] /\ u[2] = t[2] /\ u[3] = t[3]
    BY <2>1 DEF Turns, Turns3
  <2>3. IsVisit(ns, u) /\ VisitAt(ns, u) = VisitAt(ns, t)
    BY <2>1, <2>2 DEF IsVisit, VisitAt, S, D, P
  <2>4. Key(VisitAt(ns, t)) = key
    BY DEF Key, VisitAt, Vin, KeyAt, In
  <2>5. QED
    BY <2>2, <2>3, <2>4
<1>4. PICK u \in T : \A x \in T : u = x \/ Earlier(u, x)
  <2>1. T \subseteq Turns3
    OBVIOUS
  <2> HIDE DEF T
  <2>2. QED
    BY <1>3, <2>1, FirstOf3
<1>5. VisitAt(ns, u) \in of /\ \A y \in of : VisitAt(ns, u) = y \/ Earlier(VisitAt(ns, u).turn, y.turn)
  <2>1. VisitAt(ns, u) \in of
    BY <1>1, VisitsAre
  <2>2. ASSUME NEW y \in of PROVE VisitAt(ns, u) = y \/ Earlier(VisitAt(ns, u).turn, y.turn)
    <3>1. PICK x \in Turns3 : IsVisit(ns, x) /\ y = VisitAt(ns, x)
      BY <1>1, VisitsAre
    <3>2. x \in T /\ y.turn = x
      BY <1>2, <3>1
    <3>3. QED
      BY <1>2, <1>4, <3>1, <3>2
  <2>3. QED
    BY <2>1, <2>2
<1>6. first \in of
  <2> HIDE DEF of
  <2>1. QED
    BY <1>5
<1>7. PICK x \in Turns3 : IsVisit(ns, x) /\ first = VisitAt(ns, x) /\ Key(first) = key
  <2> HIDE DEF first
  <2>1. QED
    BY <1>1, <1>6, VisitsAre
<1> HIDE DEF first
<1>8. P(ns, x).id = P(ns, t).id
  <2>1. first.src = P(ns, x)
    BY <1>7 DEF VisitAt
  <2>2. <<first.src.id, Vin(first)>> = <<P(ns, t).id, In(ns, t)>>
    BY <1>7 DEF Key, KeyAt
  <2>3. QED
    BY <2>1, <2>2
<1>9. x[1] = t[1] /\ x[3] = t[3]
  <2>1. /\ x[1] \in DOMAIN ns /\ x[3] \in DOMAIN ns[x[1]].ports
        /\ t[1] \in DOMAIN ns /\ t[3] \in DOMAIN ns[t[1]].ports
    BY <1>1, <1>7, HopTypes DEF IsVisit, S
  <2>2. QED
    BY <1>8, <2>1 DEF Tables, OwnNumbers, P
<1>10. first.s = S(ns, t) /\ first.src = P(ns, t)
  <2>1. first.s = S(ns, x) /\ first.src = P(ns, x)
    BY <1>7 DEF VisitAt
  <2>2. S(ns, x) = S(ns, t) /\ P(ns, x) = P(ns, t)
    BY <1>9 DEF S, P
  <2>3. QED
    BY <2>1, <2>2
<1>11. BroadcastFlow(ns, KeptHops(ns), key) =
         [priority |-> Priority(first.s, first.d), net |-> first.s.id, ingress |-> first.src.sp,
          vlan |-> key[2], dst |-> Broadcast,
          actions |-> FinalActions(key[2], Outs(KeptHops(ns), key))]
  BY DEF BroadcastFlow, first
<1>12. key[2] = In(ns, t)
  BY DEF KeyAt
<1>13. Priority(first.s, first.d) \in {1000, 1100}
  BY DEF Priority
<1> HIDE DEF key
<1>14. QED
  BY <1>10, <1>11, <1>12, <1>13 DEF OutsAt, key

\* The broadcast flows are those of the keys of hops kept, with three ports or more.
LEMMA BroadcastFlowsAre ==
  ASSUME NEW ns \in Seq(NetRow)
  PROVE  /\ \A f \in BroadcastFlows(ns, KeptHops(ns)) :
              ~(NbPorts(ns) <= 2) /\ \E t \in KeptTurns(ns) : f = BroadcastFlow(ns, KeptHops(ns), KeyAt(ns, t))
         /\ ~(NbPorts(ns) <= 2) => \A t \in KeptTurns(ns) :
              BroadcastFlow(ns, KeptHops(ns), KeyAt(ns, t)) \in BroadcastFlows(ns, KeptHops(ns))
<1>1. BroadcastKeys(ns, KeptHops(ns)) = IF NbPorts(ns) <= 2 THEN {} ELSE {KeyAt(ns, t) : t \in KeptTurns(ns)}
  <2>1. \A t \in KeptTurns(ns) : HopAt(ns, t).key = KeyAt(ns, t)
    BY TurnOfHop DEF KeptTurns, KeyAt
  <2>2. {h.key : h \in KeptHops(ns)} = {HopAt(ns, t).key : t \in KeptTurns(ns)}
    BY KeptAre
  <2>3. {HopAt(ns, t).key : t \in KeptTurns(ns)} = {KeyAt(ns, t) : t \in KeptTurns(ns)}
    BY <2>1
  <2>4. QED
    BY <2>2, <2>3 DEF BroadcastKeys
<1>2. QED
  BY <1>1 DEF BroadcastFlows


\* The flows of hops, the first of each group, and the broadcast flows that may be kept.
KeptFlows(ns) == {FlowAt(ns, t) : t \in KeptTurns(ns)}
LeaderTurns(ns) ==
  {t \in KeptTurns(ns) :
     \A y \in KeptTurns(ns) : FlowAt(ns, y) \in Group(KeptFlows(ns), FlowAt(ns, t)) => t = y \/ Earlier(t, y)}
Kinds(ns) == Representatives(BroadcastFlows(ns, KeptHops(ns)))

\* The flows and the leaders, by the places.
LEMMA KeptFacts ==
  ASSUME NEW ns \in Seq(NetRow)
  PROVE  /\ {h.flow : h \in KeptHops(ns)} = KeptFlows(ns)
         /\ Leaders(KeptHops(ns)) = {FlowAt(ns, t) : t \in LeaderTurns(ns)}
<1>1. \A t \in KeptTurns(ns) : HopAt(ns, t).flow = FlowAt(ns, t) /\ HopAt(ns, t).turn = t
  BY TurnOfHop DEF KeptTurns
<1>2. {h.flow : h \in KeptHops(ns)} = KeptFlows(ns)
  <2>1. {h.flow : h \in KeptHops(ns)} = {HopAt(ns, t).flow : t \in KeptTurns(ns)}
    BY KeptAre
  <2>2. QED
    BY <1>1, <2>1 DEF KeptFlows
<1> DEFINE leads(x) == \A y \in KeptHops(ns) :
             y.flow \in Group(KeptFlows(ns), x.flow) => x = y \/ Earlier(x.turn, y.turn)
<1>3. Leaders(KeptHops(ns)) = {h.flow : h \in {x \in KeptHops(ns) : leads(x)}}
  BY <1>2 DEF Leaders
<1>4. ASSUME NEW t \in KeptTurns(ns) PROVE leads(HopAt(ns, t)) <=> t \in LeaderTurns(ns)
  <2>1. leads(HopAt(ns, t)) <=> \A u \in KeptTurns(ns) :
          HopAt(ns, u).flow \in Group(KeptFlows(ns), HopAt(ns, t).flow) =>
             HopAt(ns, t) = HopAt(ns, u) \/ Earlier(HopAt(ns, t).turn, HopAt(ns, u).turn)
    BY KeptAre
  <2>2. \A u \in KeptTurns(ns) : HopAt(ns, t) = HopAt(ns, u) <=> t = u
    BY <1>1
  <2>3. QED
    BY <1>1, <2>1, <2>2 DEF LeaderTurns
<1> HIDE DEF leads
<1>5. ASSUME NEW f \in Leaders(KeptHops(ns)) PROVE f \in {FlowAt(ns, t) : t \in LeaderTurns(ns)}
  <2>1. PICK x \in KeptHops(ns) : leads(x) /\ f = x.flow
    BY <1>3
  <2>2. PICK t \in KeptTurns(ns) : x = HopAt(ns, t)
    BY KeptAre
  <2>3. QED
    BY <1>1, <1>4, <2>1, <2>2
<1>6. ASSUME NEW t \in LeaderTurns(ns) PROVE FlowAt(ns, t) \in Leaders(KeptHops(ns))
  <2>1. t \in KeptTurns(ns)
    BY DEF LeaderTurns
  <2>2. HopAt(ns, t) \in KeptHops(ns) /\ leads(HopAt(ns, t)) /\ HopAt(ns, t).flow = FlowAt(ns, t)
    BY <1>1, <1>4, <2>1, KeptAre
  <2>3. HopAt(ns, t).flow \in Leaders(KeptHops(ns))
    BY <1>3, <2>2
  <2>4. QED
    BY <2>2, <2>3
<1>7. QED
  BY <1>2, <1>5, <1>6

\* The flows before the unification.
LEMMA FlowsAre ==
  ASSUME NEW ns \in Seq(NetRow), NEW kinds \in Kinds(ns), NEW f \in KeptFlows(ns) \cup kinds
  PROVE  \/ \E t \in KeptTurns(ns) : f = FlowAt(ns, t)
         \/ /\ ~(NbPorts(ns) <= 2)
            /\ \E t \in KeptTurns(ns) : f = BroadcastFlow(ns, KeptHops(ns), KeyAt(ns, t))
<1>1. kinds \subseteq BroadcastFlows(ns, KeptHops(ns))
  BY DEF Kinds, Representatives
<1>2. QED
  BY <1>1, BroadcastFlowsAre DEF KeptFlows

\* Of the broadcast flows repeated one is kept.
LEMMA SomeRepresentative ==
  ASSUME NEW ns \in Seq(NetRow), NEW kinds \in Kinds(ns), NEW f \in BroadcastFlows(ns, KeptHops(ns))
  PROVE  \E g \in kinds : SameFlow(f, g)
<1>1. Cardinality({g \in kinds : SameFlow(f, g)}) = 1
  BY DEF Kinds, Representatives
<1>2. {g \in kinds : SameFlow(f, g)} # {}
  <2> DEFINE alike == {g \in kinds : SameFlow(f, g)}
  <2>1. Cardinality(alike) = 1
    BY <1>1
  <2> HIDE DEF alike
  <2>2. Cardinality({}) = 0
    BY FS_EmptySet
  <2>3. alike # {}
    <3>1. alike = {} => Cardinality(alike) = Cardinality({})
      OBVIOUS
    <3>2. QED
      BY <2>1, <2>2, <3>1
  <2>4. QED
    BY <2>3 DEF alike
<1>3. QED
  BY <1>2

\* A flow g after the unification, made of the flow f.
MadeOf(flows, f, g) ==
  /\ g.ingress = f.ingress /\ g.vlan = f.vlan /\ g.actions = f.actions
  /\ g.priority \in 990..1100
  /\ \/ g = f /\ ~Converted(Group(flows, f))
     \/ g.dst = None /\ Converted(Group(flows, f))

\* A flow is unified or as it was, and none is lost but those unified with another.
LEMMA UnifiedAre ==
  ASSUME NEW ns, Tables(ns), NEW kinds \in Kinds(ns)
  PROVE  LET flows == KeptFlows(ns) \cup kinds
             unified == Unified(flows, Leaders(KeptHops(ns)))
         IN /\ \A g \in unified : \E f \in flows : MadeOf(flows, f, g)
            /\ \A f \in flows : ~Converted(Group(flows, f)) => f \in unified
            /\ \A t \in KeptTurns(ns) : Converted(Group(flows, FlowAt(ns, t))) =>
                 \E g \in unified :
                   /\ g.ingress = P(ns, t).sp /\ g.vlan = In(ns, t)
                   /\ g.actions = FlowAt(ns, t).actions /\ g.dst = None
<1> DEFINE flows == KeptFlows(ns) \cup kinds
           unified == Unified(flows, Leaders(KeptHops(ns)))
           plain == {f \in flows : ~Converted(Group(flows, f))}
           without(f) == [f EXCEPT !.dst = None, !.priority = @ - 5]
           leaders == {f \in Leaders(KeptHops(ns)) : Converted(Group(flows, f))}
<1>1. ns \in Seq(NetRow)
  BY DEF Tables
<1>2. unified = plain \cup {without(f) : f \in leaders}
  BY DEF Unified
<1>3. ASSUME NEW f \in leaders
      PROVE  /\ f \in KeptFlows(ns)
             /\ without(f).ingress = f.ingress /\ without(f).vlan = f.vlan
             /\ without(f).actions = f.actions /\ without(f).dst = None
             /\ without(f).priority = f.priority - 5 /\ f.priority \in 995..1100
  <2>1. PICK t \in LeaderTurns(ns) : f = FlowAt(ns, t)
    BY <1>1, KeptFacts
  <2>2. FlowAt(ns, t).priority \in 995..1100
    BY DEF FlowAt, Priority
  <2>3. QED
    BY <2>1, <2>2 DEF FlowAt, LeaderTurns, KeptFlows
<1>4. ASSUME NEW f \in flows PROVE f.priority \in 995..1100
  <2>1. ASSUME NEW t \in KeptTurns(ns), f = FlowAt(ns, t) PROVE f.priority \in 995..1100
    BY <2>1 DEF FlowAt, Priority
  <2>2. ASSUME NEW t \in KeptTurns(ns), f = BroadcastFlow(ns, KeptHops(ns), KeyAt(ns, t))
        PROVE  f.priority \in 995..1100
    BY <2>2, BroadcastIs
  <2>3. QED
    BY <1>1, <2>1, <2>2, FlowsAre
<1>5. ASSUME NEW g \in unified
      PROVE  \E f \in flows : MadeOf(flows, f, g)
  <2>1. CASE g \in plain
    <3>1. g \in flows /\ ~Converted(Group(flows, g)) /\ g.priority \in 990..1100
      BY <1>4, <2>1
    <3> HIDE DEF flows
    <3>2. QED
      BY <3>1 DEF MadeOf
  <2>2. CASE g \in {without(f) : f \in leaders}
    <3>1. PICK f \in leaders : g = without(f)
      BY <2>2
    <3>2. f \in flows /\ Converted(Group(flows, f))
      BY <1>3
    <3> HIDE DEF without, leaders, flows
    <3>3. QED
      BY <1>3, <3>1, <3>2 DEF MadeOf
  <2>3. QED
    BY <1>2, <2>1, <2>2
<1>6. \A f \in flows : ~Converted(Group(flows, f)) => f \in unified
  BY <1>2
<1>7. ASSUME NEW t \in KeptTurns(ns), Converted(Group(flows, FlowAt(ns, t)))
      PROVE  \E g \in unified :
               /\ g.ingress = P(ns, t).sp /\ g.vlan = In(ns, t)
               /\ g.actions = FlowAt(ns, t).actions /\ g.dst = None
  <2> DEFINE T == {y \in KeptTurns(ns) : FlowAt(ns, y).vlan = FlowAt(ns, t).vlan
                                       /\ FlowAt(ns, y).ingress = FlowAt(ns, t).ingress}
  <2>1. t \in T /\ T \subseteq Turns
    BY DEF KeptTurns, HopTurns
  <2>2. PICK u \in T : \A y \in T : u = y \/ Earlier(u, y)
    <3> HIDE DEF T
    <3>1. QED
      BY <2>1, FirstOf4
  <2>3. u \in LeaderTurns(ns)
    BY <2>2 DEF LeaderTurns, Group, KeptFlows
  <2>4. Group(flows, FlowAt(ns, u)) = Group(flows, FlowAt(ns, t))
    BY <2>2 DEF Group
  <2>5. FlowAt(ns, u) \in leaders
    BY <1>7, <1>1, <2>3, <2>4, KeptFacts
  <2>6. FlowAt(ns, u).actions = FlowAt(ns, t).actions
    <3>1. FlowAt(ns, u) \in Group(flows, FlowAt(ns, t)) /\ FlowAt(ns, t) \in Group(flows, FlowAt(ns, t))
      BY <2>2 DEF Group, KeptFlows
    <3>2. QED
      BY <1>7, <3>1 DEF Converted
  <2>7. without(FlowAt(ns, u)) \in unified
    <3> HIDE DEF without, leaders
    <3>1. QED
      BY <1>2, <2>5
  <2>8. FlowAt(ns, u).ingress = P(ns, t).sp /\ FlowAt(ns, u).vlan = In(ns, t)
    BY <2>2 DEF FlowAt
  <2> HIDE DEF without, leaders, flows
  <2>9. QED
    BY <1>3, <2>5, <2>6, <2>7, <2>8
<1>8. QED
  BY <1>5, <1>6, <1>7


-----------------------------------------------------------------------------
(* The tables stay tables, and the result is computed from them *)

\* The hypothesis of the theorems: no two networks are bound to each other.
NoMutualBinding == \A ns \in Topologies : OneWay(ns)

\* Ports are numbered in the order they come.
Numbered(ns) == IsFiniteSet(PortsOf(ns)) /\ \A p \in PortsOf(ns) : p.id <= NbPorts(ns)

\* The invariant: sound tables, and a result that was computed from them.
FlowsInv ==
  /\ Tables(nets) /\ Numbered(nets)
  /\ \/ result = Pending
     \/ \E kinds \in Kinds(nets), w \in BOOLEAN : result = compute_net_flows(nets, kinds, w)

\* The ports are those of the networks.
LEMMA PortsAre ==
  ASSUME NEW ns
  PROVE  \A p : p \in PortsOf(ns) <=> \E i \in DOMAIN ns : \E k \in DOMAIN ns[i].ports : p = ns[i].ports[k]
BY DEF PortsOf, Range

\* Networks without ports are sound.
LEMMA InitFlows == NoMutualBinding /\ Init => FlowsInv
<1> SUFFICES ASSUME NoMutualBinding, Init PROVE FlowsInv
  OBVIOUS
<1>1. /\ nets \in Seq(NetRow) /\ \A i \in DOMAIN nets : nets[i].ports = << >>
      /\ \A i, j \in DOMAIN nets : nets[i].id = nets[j].id => i = j
  BY TopologiesAreRows DEF Init
<1>2. \A i \in DOMAIN nets : DOMAIN nets[i].ports = {}
  BY <1>1
<1>3. PortsOf(nets) = {}
  BY <1>2, PortsAre
<1>4. Numbered(nets)
  BY <1>3, FS_EmptySet DEF Numbered
<1>5. OneWay(nets) /\ OwnNumbers(nets) /\ SharedByVlan(nets)
  BY <1>1, <1>2 DEF NoMutualBinding, Init, OwnNumbers, SharedByVlan
<1>6. QED
  BY <1>1, <1>4, <1>5 DEF Init, FlowsInv, Tables

\* A port is added where its switch port is free for its VLAN.
LEMMA AddPortFlows ==
  ASSUME FlowsInv, NEW i \in DOMAIN nets, NEW sp \in SwitchPorts, NEW vlan \in Tags,
         NEW mac \in BOOLEAN, AddPort(i, sp, vlan, mac),
         \A p \in PortsOf(nets) : p.sp = sp =>
           /\ vlan # None /\ p.vlan # None
           /\ p.vlan = vlan => p \in Range(nets[i].ports)
  PROVE  FlowsInv'
<1> DEFINE nb == NbPorts(nets)
           new == [id |-> nb + 1, sp |-> sp, vlan |-> vlan, mac |-> mac]
           last == Len(nets[i].ports) + 1
<1>1. nets \in Seq(NetRow) /\ OneWay(nets) /\ OwnNumbers(nets) /\ SharedByVlan(nets)
  BY DEF FlowsInv, Tables
<1>2. IsFiniteSet(PortsOf(nets)) /\ nb \in Nat /\ \A p \in PortsOf(nets) : p.id <= nb
  BY FS_CardinalityType DEF FlowsInv, Numbered, NbPorts
<1>3. nets' = [nets EXCEPT ![i].ports = Append(@, new)] /\ result' = Pending
  BY DEF AddPort
<1>4. new \in PortRow
  BY <1>2 DEF PortRow, None
<1>5. nets[i] \in NetRow /\ nets[i].ports \in Seq(PortRow)
  BY <1>1, RowTypes DEF NetRow
<1>6. /\ DOMAIN nets' = DOMAIN nets
      /\ \A j \in DOMAIN nets : j # i => nets'[j] = nets[j]
      /\ nets'[i] = [nets[i] EXCEPT !.ports = Append(@, new)]
  BY <1>1, <1>3
<1>7. nets'[i].ports = Append(nets[i].ports, new) /\ nets'[i] \in NetRow
  <2>1. Append(nets[i].ports, new) \in Seq(PortRow)
    BY <1>4, <1>5
  <2> HIDE DEF new
  <2>2. QED
    BY <1>5, <1>6, <2>1 DEF NetRow
<1>8. \A j \in DOMAIN nets : /\ nets'[j].id = nets[j].id /\ nets'[j].bind = nets[j].bind
                             /\ nets'[j].vlan = nets[j].vlan /\ nets'[j].bindVlan = nets[j].bindVlan
  <2> HIDE DEF new
  <2>1. QED
    BY <1>5, <1>6 DEF NetRow
<1>9. /\ last \in Nat /\ last \notin DOMAIN nets[i].ports
      /\ DOMAIN nets'[i].ports = DOMAIN nets[i].ports \cup {last}
      /\ nets'[i].ports[last] = new
      /\ \A k \in DOMAIN nets[i].ports : nets'[i].ports[k] = nets[i].ports[k]
  <2> HIDE DEF new
  <2>1. QED
    BY <1>5, <1>7
<1> HIDE DEF last
\* Every place but the new one is as it was.
<1>10. \A j \in DOMAIN nets' : \A k \in DOMAIN nets'[j].ports :
         \/ j = i /\ k = last /\ nets'[j].ports[k] = new
         \/ k \in DOMAIN nets[j].ports /\ nets'[j].ports[k] = nets[j].ports[k] /\ nets[j].ports[k] \in PortsOf(nets)
  <2> HIDE DEF new
  <2>1. QED
    BY <1>6, <1>9, PortsAre
<1>11. nets' \in Seq(NetRow)
  <2>1. DOMAIN nets = 1..Len(nets) /\ Len(nets) \in Nat
    BY <1>1
  <2>2. nets' = [j \in 1..Len(nets) |-> nets'[j]] /\ \A j \in 1..Len(nets) : nets'[j] \in NetRow
    BY <1>1, <1>3, <1>6, <1>7, <2>1, RowTypes
  <2>3. QED
    BY <2>1, <2>2
<1>12. OneWay(nets')
  <2>1. \A j, k \in DOMAIN nets : j # k => ~(Binds(nets'[j], nets'[k]) /\ Binds(nets'[k], nets'[j]))
    BY <1>1, <1>8 DEF OneWay, Binds
  <2>2. QED
    BY <1>6, <2>1 DEF OneWay
<1>13. OwnNumbers(nets')
  <2>1. \A j, k \in DOMAIN nets' : nets'[j].id = nets'[k].id => j = k
    BY <1>1, <1>6, <1>8 DEF OwnNumbers
  <2>2. ASSUME NEW j \in DOMAIN nets', NEW k \in DOMAIN nets',
               NEW x \in DOMAIN nets'[j].ports, NEW y \in DOMAIN nets'[k].ports,
               nets'[j].ports[x].id = nets'[k].ports[y].id
        PROVE  j = k /\ x = y
    <3>1. new.id = nb + 1
      OBVIOUS
    <3>2. j \in DOMAIN nets /\ k \in DOMAIN nets
      BY <1>6
    <3>3. \A p \in PortsOf(nets) : p.id # nb + 1
      <4>1. \A p \in PortsOf(nets) : p.id \in Nat
        BY <1>1, PortsAre, RowTypes DEF PortRow
      <4>2. QED
        BY <1>2, <4>1
    <3> HIDE DEF new
    <3>4. QED
      BY <1>1, <1>10, <2>2, <3>1, <3>2, <3>3 DEF OwnNumbers
  <2>3. QED
    BY <2>1, <2>2 DEF OwnNumbers
<1>14. SharedByVlan(nets')
  <2>1. ASSUME NEW j \in DOMAIN nets', NEW k \in DOMAIN nets',
               NEW x \in DOMAIN nets'[j].ports, NEW y \in DOMAIN nets'[k].ports,
               nets'[j].ports[x].sp = nets'[k].ports[y].sp
        PROVE  \/ j = k /\ x = y
               \/ /\ nets'[j].ports[x].vlan # None /\ nets'[k].ports[y].vlan # None
                  /\ nets'[j].ports[x].vlan = nets'[k].ports[y].vlan => j = k
    <3>1. new.sp = sp /\ new.vlan = vlan
      OBVIOUS
    <3>2. j \in DOMAIN nets /\ k \in DOMAIN nets
      BY <1>6
    \* A neighbour of the new port with its VLAN is in its network.
    <3>3. \A m \in DOMAIN nets : \A z \in DOMAIN nets[m].ports : nets[m].ports[z].sp = sp =>
            /\ vlan # None /\ nets[m].ports[z].vlan # None
            /\ nets[m].ports[z].vlan = vlan => m = i
      <4>1. SUFFICES ASSUME NEW m \in DOMAIN nets, NEW z \in DOMAIN nets[m].ports, nets[m].ports[z].sp = sp
                     PROVE  /\ vlan # None /\ nets[m].ports[z].vlan # None
                            /\ nets[m].ports[z].vlan = vlan => m = i
        OBVIOUS
      <4>2. /\ vlan # None /\ nets[m].ports[z].vlan # None
            /\ nets[m].ports[z].vlan = vlan => nets[m].ports[z] \in Range(nets[i].ports)
        BY <4>1, PortsAre
      <4>3. nets[m].ports[z] \in Range(nets[i].ports) => \E y2 \in DOMAIN nets[i].ports : nets[m].ports[z] = nets[i].ports[y2]
        BY DEF Range
      <4>4. QED
        BY <1>1, <4>2, <4>3 DEF OwnNumbers
    <3> HIDE DEF new
    <3>4. CASE j = i /\ x = last /\ nets'[j].ports[x] = new
      BY <1>10, <2>1, <3>1, <3>2, <3>3, <3>4
    <3>5. CASE k = i /\ y = last /\ nets'[k].ports[y] = new
      BY <1>10, <2>1, <3>1, <3>2, <3>3, <3>5
    <3>6. CASE /\ x \in DOMAIN nets[j].ports /\ nets'[j].ports[x] = nets[j].ports[x]
               /\ y \in DOMAIN nets[k].ports /\ nets'[k].ports[y] = nets[k].ports[y]
      BY <1>1, <2>1, <3>2, <3>6 DEF SharedByVlan
    <3>7. QED
      BY <1>10, <3>4, <3>5, <3>6
  <2>2. QED
    BY <2>1 DEF SharedByVlan
<1>15. Numbered(nets')
  <2>1. PortsOf(nets') = PortsOf(nets) \cup {new}
    <3> HIDE DEF new
    <3>1. ASSUME NEW p \in PortsOf(nets') PROVE p \in PortsOf(nets) \cup {new}
      BY <1>6, <1>10, PortsAre
    <3>2. ASSUME NEW p \in PortsOf(nets) PROVE p \in PortsOf(nets')
      <4>1. PICK j \in DOMAIN nets : \E k \in DOMAIN nets[j].ports : p = nets[j].ports[k]
        BY PortsAre
      <4>2. PICK k \in DOMAIN nets[j].ports : p = nets[j].ports[k]
        BY <4>1
      <4>3. k \in DOMAIN nets'[j].ports /\ nets'[j].ports[k] = p
        BY <1>6, <1>9, <4>2
      <4>4. QED
        BY <1>6, <4>3, PortsAre
    <3>3. new \in PortsOf(nets')
      BY <1>6, <1>9, PortsAre
    <3>4. QED
      BY <3>1, <3>2, <3>3
  <2>2. new \notin PortsOf(nets) /\ new.id = nb + 1
    BY <1>2
  <2> HIDE DEF new
  <2>3. IsFiniteSet(PortsOf(nets) \cup {new}) /\ Cardinality(PortsOf(nets) \cup {new}) = nb + 1
    BY <1>2, <2>2, FS_AddElement DEF NbPorts
  <2>4. \A p \in PortsOf(nets) : p.id <= nb + 1
    <3>1. \A p \in PortsOf(nets) : p.id \in Nat
      BY <1>1, PortsAre, RowTypes DEF PortRow
    <3>2. QED
      BY <1>2, <3>1
  <2>5. IsFiniteSet(PortsOf(nets')) /\ NbPorts(nets') = nb + 1
    BY <2>1, <2>3 DEF NbPorts
  <2>6. \A p \in PortsOf(nets') : p.id <= nb + 1
    BY <1>2, <2>1, <2>2, <2>4
  <2> HIDE DEF nb
  <2>7. QED
    BY <2>5, <2>6 DEF Numbered
<1>16. Tables(nets')
  BY <1>11, <1>12, <1>13, <1>14 DEF Tables
<1>17. QED
  BY <1>3, <1>15, <1>16 DEF FlowsInv, Pending, Result


\* A new port keeps the tables sound; the result is of the tables there are.
LEMMA NextFlows == FlowsInv /\ [Next]_vars => FlowsInv'
<1> SUFFICES ASSUME FlowsInv, [Next]_vars PROVE FlowsInv'
  OBVIOUS
<1>1. nets \in Seq(NetRow)
  BY DEF FlowsInv, Tables
<1>2. ASSUME NEW i \in DOMAIN nets, NEW sp \in SwitchPorts, NewPFPort(i, sp) PROVE FlowsInv'
  BY <1>2, TagsAreNumbers, AddPortFlows DEF NewPFPort, FreeFor
<1>3. ASSUME NEW i \in DOMAIN nets, NEW sp \in SwitchPorts, NewVFPort(i, sp) PROVE FlowsInv'
  <2>1. nets[i].vlan \in Tags /\ nets[i].vlan # None
    BY <1>1, RowTypes, SwitchAssumption DEF NetRow, Tags
  <2>2. PICK vlan \in Tags : vlan = nets[i].vlan
    BY <2>1
  <2>3. PICK mac \in BOOLEAN : mac = TRUE
    OBVIOUS
  <2>4. AddPort(i, sp, vlan, mac)
    BY <1>3, <2>2, <2>3 DEF NewVFPort, AddPort
  <2>5. \A p \in PortsOf(nets) : p.sp = sp =>
          /\ vlan # None /\ p.vlan # None
          /\ p.vlan = vlan => p \in Range(nets[i].ports)
    BY <1>3, <2>1, <2>2 DEF NewVFPort
  <2>6. QED
    BY <2>4, <2>5, AddPortFlows
<1>4. ASSUME NEW i \in DOMAIN nets, NEW sp \in SwitchPorts, NEW vlan \in Vlans \cup {None},
             NEW mac \in BOOLEAN, NewExternalPort(i, sp, vlan, mac)
      PROVE  FlowsInv'
  BY <1>4, AddPortFlows DEF NewExternalPort, FreeFor, Tags
<1>5. ASSUME NEW kinds \in Kinds(nets), NEW w \in BOOLEAN, Compute(kinds, w) PROVE FlowsInv'
  BY <1>5 DEF Compute, FlowsInv
<1>6. CASE UNCHANGED vars
  BY <1>6 DEF vars, FlowsInv
<1>7. QED
  BY <1>2, <1>3, <1>4, <1>5, <1>6 DEF Next, Kinds

\* What a result that is "ok" or a "KeyError" says.
LEMMA ResultIs ==
  ASSUME FlowsInv
  PROVE  /\ Computed => \E kinds \in Kinds(nets) :
              result.flows = Unified(KeptFlows(nets) \cup kinds, Leaders(KeptHops(nets)))
         /\ result.status = "KeyError" => \E kinds \in Kinds(nets) : \E f \in Leaders(KeptHops(nets)) :
              PopFails(KeptFlows(nets) \cup kinds, f)
<1>1. nets \in Seq(NetRow)
  BY DEF FlowsInv, Tables
<1>2. CASE result = Pending
  BY <1>2 DEF Pending, Result, Computed
<1>3. CASE \E kinds \in Kinds(nets), w \in BOOLEAN : result = compute_net_flows(nets, kinds, w)
  <2>1. PICK kinds \in Kinds(nets), w \in BOOLEAN : result = compute_net_flows(nets, kinds, w)
    BY <1>3
  <2> DEFINE flows == KeptFlows(nets) \cup kinds
             leaders == Leaders(KeptHops(nets))
  <2>2. \/ result = Result("error", {})
        \/ result = Result("KeyError", {}) /\ \E f \in leaders : PopFails(flows, f)
        \/ result = Result("ok", Unified(flows, leaders))
    BY <1>1, <2>1, KeptFacts DEF compute_net_flows
  <2> HIDE DEF flows, leaders
  <2>3. /\ Computed => result.flows = Unified(flows, leaders)
        /\ result.status = "KeyError" => \E f \in leaders : PopFails(flows, f)
    BY <2>2 DEF Result, Computed
  <2>4. QED
    BY <2>3 DEF flows, leaders
<1>4. QED
  BY <1>2, <1>3 DEF FlowsInv

-----------------------------------------------------------------------------
\* Whatever the networks, their bindings, their ports and the order in which
\* they are read, no flow carries a frame to a port that the sender's switch
\* port is not linked to.
THEOREM NetworksStayApart == NoMutualBinding /\ Spec => []Isolated
<1>1. FlowsInv => Isolated
  <2> SUFFICES ASSUME FlowsInv, Computed, NEW l \in Links, NEW frame,
                      frame.sp = l.src.sp, NEW f \in Taken(frame), NEW e \in Emitted(f, l.tag)
               PROVE  \E k \in Links : /\ k.src.sp = l.src.sp /\ k.dst.sp = e[1]
                                       /\ k.dst.vlan \in {None, e[2]}
    <3>1. \A l, dst : Frame(l, dst).sp = l.src.sp
      BY DEF Frame
    <3>2. QED
      BY <3>1 DEF Isolated
  <2>1. Tables(nets) /\ nets \in Seq(NetRow)
    BY DEF FlowsInv, Tables
  <2>2. PICK kinds \in Kinds(nets) :
          result.flows = Unified(KeptFlows(nets) \cup kinds, Leaders(KeptHops(nets)))
    BY ResultIs
  <2>3. f \in result.flows /\ f.ingress = l.src.sp
    BY DEF Taken, Matching
  <2>4. PICK g \in KeptFlows(nets) \cup kinds : f.ingress = g.ingress /\ f.actions = g.actions
    <3> DEFINE flows == KeptFlows(nets) \cup kinds
    <3>1. PICK g \in flows : MadeOf(flows, g, f)
      BY <2>1, <2>2, <2>3, UnifiedAre
    <3>2. QED
      BY <3>1 DEF MadeOf
  \* A hop to the place the frame is sent to.
  <2> DEFINE Reached == \E t \in HopTurns(nets) :
               /\ P(nets, t).sp = l.src.sp
               /\ e[1] = Q(nets, t).sp /\ (Out(nets, t) # None => e[2] = Out(nets, t))
  <2>5. Reached
    <3>1. ASSUME NEW t \in KeptTurns(nets), g = FlowAt(nets, t) PROVE Reached
      <4>1. t \in HopTurns(nets) /\ f.actions = << ActionAt(nets, t) >> /\ P(nets, t).sp = l.src.sp
        BY <2>3, <2>4, <3>1 DEF KeptTurns, FlowAt
      <4>2. QED
        BY <2>1, <4>1, HopEmits
    <3>2. ASSUME NEW t \in KeptTurns(nets), g = BroadcastFlow(nets, KeptHops(nets), KeyAt(nets, t))
          PROVE  Reached
      <4>1. /\ f.actions = FinalActions(In(nets, t), OutsAt(nets, t))
            /\ P(nets, t).sp = l.src.sp
        BY <2>1, <2>3, <2>4, <3>2, BroadcastIs
      <4>2. OutsAt(nets, t) \in SUBSET Pairs /\ In(nets, t) \in Tags
        BY <2>1, OutsAre, HopTypes DEF OutsAt, KeptTurns
      <4>3. PICK o \in OutsAt(nets, t) : e[1] = o[2] /\ (o[1] # None => e[2] = o[1])
        BY <4>1, <4>2, BroadcastEmits
      <4>4. PICK u \in KeptTurns(nets) : /\ <<P(nets, u).id, In(nets, u)>> = KeyAt(nets, t)
                                         /\ o = <<Out(nets, u), Q(nets, u).sp>>
        BY <2>1, OutsAre DEF OutsAt
      <4>5. P(nets, u).id = P(nets, t).id
        BY <4>4 DEF KeyAt
      <4>6. P(nets, u) = P(nets, t) /\ u \in HopTurns(nets)
        BY <2>1, <4>5, SameNumber DEF KeptTurns
      <4>7. QED
        BY <4>1, <4>3, <4>4, <4>6
    <3>3. QED
      BY <2>1, <3>1, <3>2, FlowsAre
  <2>6. PICK t \in HopTurns(nets) : /\ P(nets, t).sp = l.src.sp
                                    /\ e[1] = Q(nets, t).sp /\ (Out(nets, t) # None => e[2] = Out(nets, t))
    BY <2>5
  <2>7. LinkAt(nets, t) \in Links
    BY <2>1, LinksAre
  <2>8. Q(nets, t).vlan \in {None, e[2]}
    BY <2>6, OwnTag
  <2>9. QED
    BY <2>6, <2>7, <2>8 DEF LinkAt
<1>2. NoMutualBinding /\ Spec => []Isolated
  BY InitFlows, NextFlows, <1>1, PTL DEF Spec
<1>3. QED
  BY <1>2


-----------------------------------------------------------------------------
(* The hops that a frame of one sender may take *)

\* The sender of hop t is no twin, and sends no untagged frames too.
Clear(ns, t) ==
  /\ \A u \in HopTurns(ns) : u[1] = t[1] /\ P(ns, u).sp = P(ns, t).sp => P(ns, u).vlan = P(ns, t).vlan
  /\ In(ns, t) # None => \A u \in HopTurns(ns) : P(ns, u) = P(ns, t) => In(ns, u) # None

\* The hops of the frames that enter where those of hop t do.
Fellows(ns, t) == {u \in HopTurns(ns) : P(ns, u).sp = P(ns, t).sp /\ In(ns, u) = In(ns, t)}

\* A link that is distinct is that of a clear hop.
LEMMA DistinctIsClear ==
  ASSUME Tables(nets), NEW t \in HopTurns(nets), Distinct(LinkAt(nets, t))
  PROVE  Clear(nets, t)
<1>1. LinkAt(nets, t).src = P(nets, t) /\ LinkAt(nets, t).tag = In(nets, t)
  BY DEF LinkAt
<1>2. nets \in Seq(NetRow)
  BY DEF Tables
<1>3. ASSUME NEW u \in HopTurns(nets), u[1] = t[1], P(nets, u).sp = P(nets, t).sp
      PROVE  P(nets, u).vlan = P(nets, t).vlan
  <2>1. /\ S(nets, t) \in Range(nets) /\ P(nets, u) \in PortsOf(nets)
        /\ P(nets, t) \in Range(S(nets, t).ports) /\ P(nets, u) \in Range(S(nets, t).ports)
    BY <1>2, <1>3, HopTypes, PortsAre DEF S, P, Range
  <2>2. ~Twins(P(nets, t))
    BY <1>1 DEF Distinct
  <2>3. QED
    BY <1>3, <2>1, <2>2 DEF Twins
<1>4. ASSUME In(nets, t) # None, NEW u \in HopTurns(nets), P(nets, u) = P(nets, t) PROVE In(nets, u) # None
  <2>1. LinkAt(nets, u) \in Links /\ LinkAt(nets, u).src = P(nets, t) /\ LinkAt(nets, u).tag = In(nets, u)
    BY <1>4, LinksAre DEF LinkAt
  <2>2. ~AlsoUntagged(LinkAt(nets, t))
    BY DEF Distinct
  <2>3. QED
    BY <1>1, <1>4, <2>1, <2>2 DEF AlsoUntagged
<1>5. QED
  BY <1>3, <1>4 DEF Clear

\* A flow that an entering frame matches is of a fellow.
LEMMA MatchedAreFellows ==
  ASSUME NEW ns, Tables(ns), NEW t \in HopTurns(ns), Clear(ns, t), NEW u \in HopTurns(ns),
         P(ns, u).sp = P(ns, t).sp, In(ns, u) \in {None, In(ns, t)}
  PROVE  u \in Fellows(ns, t)
<1>1. SUFFICES ASSUME In(ns, u) = None, In(ns, t) # None PROVE FALSE
  BY DEF Fellows
<1>2. P(ns, u).vlan = None
  BY <1>1, OwnTag
<1>3. u[1] = t[1] /\ u[3] = t[3]
  BY <1>2, HopTypes DEF Tables, SharedByVlan, P
<1>4. P(ns, u) = P(ns, t)
  BY <1>3 DEF P
<1>5. QED
  BY <1>1, <1>4 DEF Clear

\* Fellows come from one network and one VLAN.
LEMMA FellowsAre ==
  ASSUME NEW ns, Tables(ns), NEW t \in HopTurns(ns), NEW u \in Fellows(ns, t)
  PROVE  /\ u \in HopTurns(ns) /\ u[1] = t[1] /\ S(ns, u) = S(ns, t)
         /\ P(ns, u).vlan = P(ns, t).vlan /\ P(ns, u).sp = P(ns, t).sp /\ In(ns, u) = In(ns, t)
BY SameOrigin DEF Fellows

\* The fellows of a clear hop have no twin either.
LEMMA FellowsAreClear ==
  ASSUME NEW ns, Tables(ns), NEW t \in HopTurns(ns), Clear(ns, t), NEW u \in Fellows(ns, t)
  PROVE  \A v \in HopTurns(ns) : v[1] = u[1] /\ P(ns, v).sp = P(ns, u).sp =>
           P(ns, v).vlan = P(ns, u).vlan
BY FellowsAre DEF Clear

\* The flow of a hop of a clear sender is kept, if only as another hop's.
LEMMA FlowIsKept ==
  ASSUME NEW ns, Tables(ns), NEW t \in HopTurns(ns),
         \A u \in HopTurns(ns) : u[1] = t[1] /\ P(ns, u).sp = P(ns, t).sp => P(ns, u).vlan = P(ns, t).vlan
  PROVE  \E u \in KeptTurns(ns) :
           /\ FlowAt(ns, u) = FlowAt(ns, t) /\ u[2] = t[2]
           /\ u \in Fellows(ns, t) /\ Q(ns, u).sp = Q(ns, t).sp /\ Out(ns, u) = Out(ns, t)
<1>1. ns \in Seq(NetRow)
  BY DEF Tables
<1>2. PICK u \in KeptTurns(ns) : SameFlow(FlowAt(ns, u), FlowAt(ns, t))
  BY <1>1, SomeIsKept
<1>3. u \in HopTurns(ns)
  BY DEF KeptTurns
<1>4. /\ t[1] = u[1] /\ P(ns, t).sp = P(ns, u).sp /\ t[2] = u[2]
      /\ Q(ns, t).sp = Q(ns, u).sp /\ Out(ns, t) = Out(ns, u)
      /\ P(ns, t).vlan = P(ns, u).vlan => In(ns, t) = In(ns, u) /\ FlowAt(ns, t) = FlowAt(ns, u)
  BY <1>2, <1>3, Repeated DEF SameFlow
<1>5. QED
  BY <1>3, <1>4 DEF Fellows

\* With two ports in all, there is one way.
LEMMA TwoPorts ==
  ASSUME NEW ns, Tables(ns), Numbered(ns), NbPorts(ns) <= 2, NEW t \in HopTurns(ns), NEW u \in HopTurns(ns),
         u[1] = t[1], P(ns, u).sp = P(ns, t).sp, P(ns, u).vlan = P(ns, t).vlan
  PROVE  /\ NbPorts(ns) = 2
         /\ u[2] = t[2] /\ Q(ns, u) = Q(ns, t) /\ D(ns, u) = D(ns, t) /\ S(ns, u) = S(ns, t)
         /\ P(ns, u) = P(ns, t) /\ In(ns, u) = In(ns, t) /\ Out(ns, u) = Out(ns, t)
<1>1. ns \in Seq(NetRow) /\ IsFiniteSet(PortsOf(ns)) /\ NbPorts(ns) = Cardinality(PortsOf(ns))
  BY DEF Tables, Numbered, NbPorts
<1>2. \A v \in HopTurns(ns) : P(ns, v) \in PortsOf(ns) /\ Q(ns, v) \in PortsOf(ns)
  BY <1>1, HopTypes, PortsAre DEF P, Q
<1>3. \A v \in HopTurns(ns) : S(ns, v) = D(ns, v) => In(ns, v) = P(ns, v).vlan /\ Out(ns, v) = Q(ns, v).vlan
  BY DEF In, Out, NetIn, NetOut, TagOf
<1>4. \A v \in HopTurns(ns) : P(ns, v) # Q(ns, v)
  <2> SUFFICES ASSUME NEW v \in HopTurns(ns), P(ns, v) = Q(ns, v) PROVE FALSE
    OBVIOUS
  <2>1. S(ns, v) = D(ns, v)
    BY SameNumber
  <2>2. QED
    BY <1>3, <2>1 DEF HopTurns, IsHop
<1>5. PortsOf(ns) = {P(ns, t), Q(ns, t)} /\ NbPorts(ns) = 2
  <2>1. {P(ns, t), Q(ns, t)} \in SUBSET PortsOf(ns)
    BY <1>2
  <2>2. Cardinality({P(ns, t)} \cup {Q(ns, t)}) = 2
    <3>1. IsFiniteSet({P(ns, t)}) /\ Cardinality({P(ns, t)}) = 1
      BY FS_Singleton
    <3>2. Q(ns, t) \notin {P(ns, t)}
      BY <1>4
    <3>3. Cardinality({P(ns, t)} \cup {Q(ns, t)}) = Cardinality({P(ns, t)}) + 1
      BY <3>1, <3>2, FS_AddElement
    <3>4. QED
      BY <3>1, <3>3
  <2>3. {P(ns, t), Q(ns, t)} = {P(ns, t)} \cup {Q(ns, t)}
    OBVIOUS
  <2>4. Cardinality({P(ns, t), Q(ns, t)}) = 2
    BY <2>2, <2>3
  <2>5. Cardinality(PortsOf(ns)) \in Nat /\ 2 <= Cardinality(PortsOf(ns))
    BY <1>1, <2>1, <2>4, FS_Subset, FS_CardinalityType
  <2>6. Cardinality(PortsOf(ns)) = 2
    BY <1>1, <2>5
  <2>7. QED
    BY <1>1, <2>1, <2>4, <2>6, FS_Subset
<1>6. P(ns, u) = P(ns, t)
  <2> SUFFICES ASSUME P(ns, u) = Q(ns, t) PROVE FALSE
    BY <1>2, <1>5
  <2>1. S(ns, u) = D(ns, t) /\ S(ns, u) = S(ns, t)
    BY SameNumber DEF S
  <2>2. QED
    BY <1>3, <2>1 DEF HopTurns, IsHop
<1>7. Q(ns, u) = Q(ns, t)
  BY <1>2, <1>4, <1>5, <1>6
<1>8. u[2] = t[2] /\ D(ns, u) = D(ns, t) /\ S(ns, u) = S(ns, t)
  BY <1>7, SameNumber DEF S
<1>9. QED
  BY <1>5, <1>6, <1>7, <1>8 DEF In, Out


-----------------------------------------------------------------------------
(* The flows that a frame matches *)

\* Of the flows that a frame matches one has the highest priority.
LEMMA SomeIsTaken ==
  ASSUME NEW frame, \A f \in Matching(frame) : f.priority \in 990..1100,
         Matching(frame) # {}
  PROVE  Taken(frame) # {}
<1> DEFINE A == {f.priority : f \in Matching(frame)}
<1>1. A \subseteq Nat /\ A # {} /\ \A a \in A : a <= 1100
  OBVIOUS
<1>2. \E a \in A : \A b \in A : b <= a
  <2>1. PICK B : B = A
    OBVIOUS
  <2>2. PICK top \in Nat : top = 1100
    OBVIOUS
  <2>3. B \subseteq Nat /\ B # {}
    BY <1>1, <2>1
  <2>4. \A a \in B : a <= top
    BY <1>1, <2>1, <2>2
  <2> HIDE DEF A
  <2>5. \E a \in B : \A b \in B : b <= a
    BY <2>3, <2>4, GreatestNumber
  <2>6. QED
    BY <2>1, <2>5
<1>3. PICK f \in Matching(frame) : \A b \in A : b <= f.priority
  BY <1>2
<1>4. f \in Taken(frame)
  BY <1>3 DEF Taken
<1>5. QED
  BY <1>4

\* Flow f, of a frame to dst that enters where those of hop t do, is flow g: one
\* of a hop or a broadcast flow from there.
StemsFrom(ns, kinds, t, dst, f, g) ==
  /\ MadeOf(KeptFlows(ns) \cup kinds, g, f)
  /\ g.ingress = P(ns, t).sp /\ g.vlan = In(ns, t)
  /\ f.dst \in {None, dst}
  /\ \E u \in KeptTurns(ns) :
       /\ u \in Fellows(ns, t)
       /\ \/ g = FlowAt(ns, u)
          \/ /\ ~(NbPorts(ns) <= 2) /\ g \in kinds
             /\ g = BroadcastFlow(ns, KeptHops(ns), KeyAt(ns, u))

\* The flows that a frame of a clear sender matches, and what they are made of.
LEMMA MatchingAre ==
  ASSUME FlowsInv, NEW kinds \in Kinds(nets),
         result.flows = Unified(KeptFlows(nets) \cup kinds, Leaders(KeptHops(nets))),
         NEW t \in HopTurns(nets), Clear(nets, t),
         NEW dst, NEW f \in Matching(Frame(LinkAt(nets, t), dst))
  PROVE  \E g \in KeptFlows(nets) \cup kinds : StemsFrom(nets, kinds, t, dst, f, g)
<1> USE DEF StemsFrom
<1> DEFINE flows == KeptFlows(nets) \cup kinds
<1>1. Tables(nets) /\ nets \in Seq(NetRow)
  BY DEF FlowsInv, Tables
<1>2. f \in result.flows /\ f.ingress = P(nets, t).sp /\ f.vlan \in {None, In(nets, t)} /\ f.dst \in {None, dst}
  BY DEF Matching, Frame, LinkAt
<1>3. PICK g \in flows : MadeOf(flows, g, f)
  BY <1>1, <1>2, UnifiedAre
<1>4. g.ingress = P(nets, t).sp /\ g.vlan \in {None, In(nets, t)}
  BY <1>2, <1>3 DEF MadeOf
<1>5. ASSUME NEW u \in KeptTurns(nets), g.ingress = P(nets, u).sp, g.vlan = In(nets, u)
      PROVE  u \in Fellows(nets, t) /\ g.vlan = In(nets, t)
  <2>1. u \in Fellows(nets, t)
    BY <1>1, <1>4, <1>5, MatchedAreFellows DEF KeptTurns
  <2>2. QED
    BY <1>5, <2>1 DEF Fellows
<1>6. \A u \in KeptTurns(nets) : FlowAt(nets, u).ingress = P(nets, u).sp /\ FlowAt(nets, u).vlan = In(nets, u)
  BY DEF FlowAt
<1>7. CASE \E u \in KeptTurns(nets) : g = FlowAt(nets, u)
  BY <1>2, <1>3, <1>4, <1>5, <1>6, <1>7
<1>8. CASE /\ ~(NbPorts(nets) <= 2) /\ g \in kinds
           /\ \E u \in KeptTurns(nets) : g = BroadcastFlow(nets, KeptHops(nets), KeyAt(nets, u))
  <2>1. PICK u \in KeptTurns(nets) : g = BroadcastFlow(nets, KeptHops(nets), KeyAt(nets, u))
    BY <1>8
  <2>2. g.ingress = P(nets, u).sp /\ g.vlan = In(nets, u)
    BY <1>1, <2>1, BroadcastIs
  <2>3. QED
    BY <1>2, <1>3, <1>4, <1>5, <1>8, <2>1, <2>2
<1>9. QED
  BY <1>1, <1>7, <1>8, FlowsAre DEF KeptFlows

\* A flow is there for every hop of a clear sender, whether it was unified or not.
LEMMA SomeMatches ==
  ASSUME FlowsInv, NEW kinds \in Kinds(nets),
         result.flows = Unified(KeptFlows(nets) \cup kinds, Leaders(KeptHops(nets))),
         NEW t \in HopTurns(nets), Clear(nets, t), NEW dst
  PROVE  LET flows == KeptFlows(nets) \cup kinds
             matching == Matching(Frame(LinkAt(nets, t), dst))
         IN /\ FlowAt(nets, t) \in flows
            /\ Converted(Group(flows, FlowAt(nets, t))) => matching # {}
            /\ \A g \in flows : /\ ~Converted(Group(flows, g))
                                /\ g.ingress = P(nets, t).sp /\ g.vlan = In(nets, t)
                                /\ g.dst \in {None, dst}
                                => g \in matching
            /\ matching # {} => Taken(Frame(LinkAt(nets, t), dst)) # {}
<1> DEFINE flows == KeptFlows(nets) \cup kinds
           frame == Frame(LinkAt(nets, t), dst)
<1>1. Tables(nets) /\ nets \in Seq(NetRow)
  BY DEF FlowsInv, Tables
<1>2. frame.sp = P(nets, t).sp /\ frame.tag = In(nets, t) /\ frame.dst = dst
  BY DEF Frame, LinkAt
<1> HIDE DEF frame
<1>3. /\ \A g \in result.flows : \E f \in flows : MadeOf(flows, f, g)
      /\ \A f \in flows : ~Converted(Group(flows, f)) => f \in result.flows
      /\ \A u \in KeptTurns(nets) : Converted(Group(flows, FlowAt(nets, u))) =>
           \E g \in result.flows :
             /\ g.ingress = P(nets, u).sp /\ g.vlan = In(nets, u)
             /\ g.actions = FlowAt(nets, u).actions /\ g.dst = None
  <2> DEFINE unified == Unified(flows, Leaders(KeptHops(nets)))
  <2>1. /\ \A g \in unified : \E f \in flows : MadeOf(flows, f, g)
        /\ \A f \in flows : ~Converted(Group(flows, f)) => f \in unified
        /\ \A u \in KeptTurns(nets) : Converted(Group(flows, FlowAt(nets, u))) =>
             \E g \in unified :
               /\ g.ingress = P(nets, u).sp /\ g.vlan = In(nets, u)
               /\ g.actions = FlowAt(nets, u).actions /\ g.dst = None
    BY <1>1, UnifiedAre
  <2>2. result.flows = unified
    OBVIOUS
  <2> HIDE DEF unified, flows
  <2>3. QED
    BY <2>1, <2>2
<1>4. PICK c \in KeptTurns(nets) : FlowAt(nets, c) = FlowAt(nets, t) /\ c \in Fellows(nets, t)
  BY <1>1, FlowIsKept DEF Clear
<1>5. FlowAt(nets, t) \in flows
  BY <1>4 DEF KeptFlows
<1>6. ASSUME Converted(Group(flows, FlowAt(nets, t))) PROVE Matching(frame) # {}
  <2>1. PICK g \in result.flows : g.ingress = P(nets, c).sp /\ g.vlan = In(nets, c) /\ g.dst = None
    BY <1>4, <1>6, <1>3
  <2>2. g \in Matching(frame)
    BY <1>2, <1>4, <2>1 DEF Matching, Fellows
  <2>3. QED
    BY <2>2
<1>7. ASSUME NEW g \in flows, ~Converted(Group(flows, g)), g.ingress = P(nets, t).sp,
             g.vlan = In(nets, t), g.dst \in {None, dst}
      PROVE  g \in Matching(frame)
  <2>1. g \in result.flows
    BY <1>7, <1>3
  <2>2. QED
    BY <1>2, <1>7, <2>1 DEF Matching
<1>8. Matching(frame) # {} => Taken(frame) # {}
  <2>1. \A f \in Matching(frame) : f.priority \in 990..1100
    <3>1. \A f \in Matching(frame) : \E g \in flows : MadeOf(flows, g, f)
      BY <1>3 DEF Matching
    <3>2. QED
      BY <3>1 DEF MadeOf
  <2>2. QED
    BY <2>1, SomeIsTaken
<1>9. QED
  BY <1>5, <1>6, <1>7, <1>8 DEF frame


\* The flow that a frame to the number of a clear sender's hop takes does what
\* the flow of the hop does.
LEMMA UnicastTakes ==
  ASSUME FlowsInv, NEW kinds \in Kinds(nets),
         result.flows = Unified(KeptFlows(nets) \cup kinds, Leaders(KeptHops(nets))),
         NEW t \in HopTurns(nets), Clear(nets, t), Q(nets, t).mac,
         S(nets, t) = D(nets, t) => ~Overridden(LinkAt(nets, t)),
         NEW f \in Taken(Frame(LinkAt(nets, t), Q(nets, t).id))
  PROVE  f.actions = << ActionAt(nets, t) >>
<1> DEFINE flows == KeptFlows(nets) \cup kinds
           frame == Frame(LinkAt(nets, t), Q(nets, t).id)
           nb == NbPorts(nets)
<1>1. Tables(nets) /\ nets \in Seq(NetRow) /\ Numbered(nets) /\ nb \in Nat
  BY FS_CardinalityType DEF FlowsInv, Tables, Numbered, NbPorts
<1>2. f \in Matching(frame) /\ \A g \in Matching(frame) : g.priority <= f.priority
  BY DEF Taken
<1>3. f \in Matching(Frame(LinkAt(nets, t), Q(nets, t).id))
  BY <1>2
<1>4. PICK g \in KeptFlows(nets) \cup kinds : StemsFrom(nets, kinds, t, Q(nets, t).id, f, g)
  BY <1>3, MatchingAre
<1>5. /\ g \in flows /\ MadeOf(flows, g, f)
      /\ g.ingress = P(nets, t).sp /\ g.vlan = In(nets, t)
      /\ f.dst \in {None, Q(nets, t).id}
      /\ \E u \in KeptTurns(nets) :
           /\ u \in Fellows(nets, t)
           /\ \/ g = FlowAt(nets, u)
              \/ g = BroadcastFlow(nets, KeptHops(nets), KeyAt(nets, u))
  BY <1>4 DEF StemsFrom
<1>6. FlowAt(nets, t) \in flows /\ FlowAt(nets, t).ingress = P(nets, t).sp /\ FlowAt(nets, t).vlan = In(nets, t)
  BY SomeMatches DEF FlowAt
<1>7. Group(flows, g) = Group(flows, FlowAt(nets, t)) /\ g \in Group(flows, g) /\ FlowAt(nets, t) \in Group(flows, g)
  BY <1>5, <1>6 DEF Group
<1>8. FlowAt(nets, t).actions = << ActionAt(nets, t) >> /\ f.actions = g.actions
  BY <1>5 DEF FlowAt, MadeOf
<1>9. CASE Converted(Group(flows, g))
  <2>1. \A a, b \in Group(flows, g) : a.actions = b.actions
    BY <1>9 DEF Converted
  <2> HIDE DEF flows
  <2>2. FlowAt(nets, t) \in Group(flows, g)
    BY <1>7
  <2>3. g.actions = FlowAt(nets, t).actions
    BY <1>7, <2>1, <2>2
  <2>4. QED
    BY <1>8, <2>3
<1>10. CASE ~Converted(Group(flows, g))
  <2>1. f = g
    BY <1>5, <1>10 DEF MadeOf
  <2>2. PICK u \in KeptTurns(nets) :
          /\ u \in Fellows(nets, t)
          /\ \/ g = FlowAt(nets, u)
             \/ g = BroadcastFlow(nets, KeptHops(nets), KeyAt(nets, u))
    BY <1>5
  <2>3. /\ u \in HopTurns(nets) /\ u[1] = t[1] /\ S(nets, u) = S(nets, t)
        /\ P(nets, u).vlan = P(nets, t).vlan /\ P(nets, u).sp = P(nets, t).sp /\ In(nets, u) = In(nets, t)
    BY <1>1, <2>2, FellowsAre
  <2>4. Q(nets, t).id \in Nat /\ Q(nets, t).id # None /\ Q(nets, t).id # Broadcast
    BY <1>1, HopTypes DEF PortRow, Broadcast
  <2>5. g = FlowAt(nets, u)
    <3> SUFFICES ASSUME g = BroadcastFlow(nets, KeptHops(nets), KeyAt(nets, u)) PROVE FALSE
      BY <2>2
    <3>1. g.dst = Broadcast
      BY <1>1, BroadcastIs
    <3>2. QED
      BY <1>5, <2>1, <2>4, <3>1 DEF Broadcast, None
  <2>6. FlowAt(nets, t).priority <= g.priority
    <3>1. FlowAt(nets, t).dst \in {None, Q(nets, t).id}
      BY DEF FlowAt
    <3>2. FlowAt(nets, t) \in Matching(frame)
      BY <1>6, <1>7, <1>10, <3>1, SomeMatches
    <3>3. QED
      BY <1>2, <2>1, <3>2
  <2>7. Q(nets, u) = Q(nets, t) /\ D(nets, u) = D(nets, t)
    <3>1. CASE nb <= 2
      BY <1>1, <2>3, <3>1, TwoPorts
    <3>2. CASE ~(nb <= 2) /\ Q(nets, u).mac
      <4>1. g.dst = Q(nets, u).id
        BY <2>5, <3>2 DEF FlowAt, AnyAt, AnyMac
      <4>2. Q(nets, u).id # None
        BY <1>1, <2>3, HopTypes DEF PortRow
      <4>3. Q(nets, u).id = Q(nets, t).id
        BY <1>5, <2>1, <4>1, <4>2
      <4>4. QED
        BY <1>1, <2>3, <4>3, SameNumber
    <3>3. CASE ~(nb <= 2) /\ ~Q(nets, u).mac
      <4>1. FlowAt(nets, t).priority = Priority(S(nets, t), D(nets, t))
        <5> HIDE DEF nb
        <5>1. nb # 2
          BY <1>1, <3>3
        <5>2. ~AnyMac(nb, Q(nets, t))
          BY <5>1 DEF AnyMac
        <5>3. ~AnyAt(nets, t)
          BY <5>2 DEF AnyAt, nb
        <5>4. Priority(S(nets, t), D(nets, t)) \in Nat
          BY DEF Priority
        <5>5. QED
          BY <5>3, <5>4 DEF FlowAt
      <4>2. g.priority = Priority(S(nets, u), D(nets, u)) - 5
        BY <2>5, <3>3 DEF FlowAt, AnyAt, AnyMac
      <4>3. S(nets, t) = D(nets, t) /\ S(nets, u) # D(nets, u)
        BY <2>6, <4>1, <4>2 DEF Priority
      <4>4. /\ LinkAt(nets, u) \in Links /\ LinkAt(nets, u).bound /\ ~LinkAt(nets, u).dst.mac
            /\ LinkAt(nets, u).src.sp = LinkAt(nets, t).src.sp /\ LinkAt(nets, u).tag = LinkAt(nets, t).tag
        BY <1>1, <2>3, <3>3, <4>3, LinksAre DEF LinkAt
      <4>5. Overridden(LinkAt(nets, t))
        BY <4>4 DEF Overridden, Alike
      <4>6. QED
        BY <4>3, <4>5
    <3>4. QED
      BY <3>1, <3>2, <3>3
  <2>8. ActionAt(nets, u) = ActionAt(nets, t)
    BY <2>3, <2>7 DEF ActionAt, Out
  <2>9. QED
    BY <1>8, <2>5, <2>8 DEF FlowAt
<1>11. QED
  BY <1>9, <1>10

\* Whatever the tables, a frame to the number of a linked port arrives there, with
\* the port's tag, and nowhere else: the flow of its hop is not shadowed, dropped as
\* repeated or unified away, from a sender that is no twin and not overridden.
THEOREM UnicastAlwaysArrives == NoMutualBinding /\ Spec => []UnicastArrives
<1>1. FlowsInv => UnicastArrives
  <2> SUFFICES ASSUME FlowsInv, Computed, NEW l \in Links, Distinct(l), l.dst.mac,
                      l.bound \/ ~Overridden(l)
               PROVE  Reaches(l, l.dst.id, {<<l.dst.sp, l.out>>})
    BY DEF UnicastArrives
  <2>1. Tables(nets) /\ nets \in Seq(NetRow)
    BY DEF FlowsInv, Tables
  <2>2. PICK kinds \in Kinds(nets) :
          result.flows = Unified(KeptFlows(nets) \cup kinds, Leaders(KeptHops(nets)))
    BY ResultIs
  <2>3. PICK t \in HopTurns(nets) : l = LinkAt(nets, t)
    BY <2>1, LinksAre
  <2>4. Clear(nets, t)
    BY <2>1, <2>3, DistinctIsClear
  <2>5. /\ l.dst = Q(nets, t) /\ l.out = Out(nets, t) /\ l.tag = In(nets, t)
        /\ l.bound <=> S(nets, t) # D(nets, t)
    BY <2>3 DEF LinkAt
  <2> DEFINE frame == Frame(LinkAt(nets, t), Q(nets, t).id)
             flows == KeptFlows(nets) \cup kinds
  <2>6. Taken(frame) # {}
    <3>1. FlowAt(nets, t) \in flows
      BY <2>2, <2>4, SomeMatches
    <3>2. /\ FlowAt(nets, t).ingress = P(nets, t).sp /\ FlowAt(nets, t).vlan = In(nets, t)
          /\ FlowAt(nets, t).dst \in {None, Q(nets, t).id}
      BY DEF FlowAt
    <3>3. Matching(frame) # {}
      BY <2>2, <2>4, <3>1, <3>2, SomeMatches
    <3>4. QED
      BY <2>2, <2>4, <3>3, SomeMatches
  <2>7. ASSUME NEW f \in Taken(frame) PROVE Emitted(f, l.tag) = {<<l.dst.sp, l.out>>}
    <3>1. f.actions = << ActionAt(nets, t) >>
      BY <2>2, <2>3, <2>4, <2>5, UnicastTakes
    <3>2. QED
      BY <2>1, <2>5, <3>1, HopEmits
  <2>8. QED
    BY <2>3, <2>5, <2>6, <2>7 DEF Reaches
<1>2. QED
  BY InitFlows, NextFlows, <1>1, PTL DEF Spec

-----------------------------------------------------------------------------
(* The broadcast flow of a clear sender *)

\* The places that the links of a frame go to are those of the fellows.
LEMMA PlacesAre ==
  ASSUME Tables(nets), NEW t \in HopTurns(nets)
  PROVE  {<<k.dst.sp, k.out>> : k \in Alike(LinkAt(nets, t))} =
           {<<Q(nets, u).sp, Out(nets, u)>> : u \in Fellows(nets, t)}
<1>1. \A u \in HopTurns(nets) : LinkAt(nets, u) \in Alike(LinkAt(nets, t)) <=> u \in Fellows(nets, t)
  BY LinksAre DEF Alike, Fellows, LinkAt
<1>2. \A k \in Alike(LinkAt(nets, t)) : \E u \in HopTurns(nets) : k = LinkAt(nets, u)
  BY LinksAre DEF Alike
<1>3. \A u \in HopTurns(nets) : LinkAt(nets, u).dst.sp = Q(nets, u).sp /\ LinkAt(nets, u).out = Out(nets, u)
  BY DEF LinkAt
<1>4. \A u \in Fellows(nets, t) : u \in HopTurns(nets)
  BY DEF Fellows
<1>5. ASSUME NEW k \in Alike(LinkAt(nets, t))
      PROVE  \E u \in Fellows(nets, t) : <<k.dst.sp, k.out>> = <<Q(nets, u).sp, Out(nets, u)>>
  BY <1>1, <1>2, <1>3
<1>6. ASSUME NEW u \in Fellows(nets, t)
      PROVE  \E k \in Alike(LinkAt(nets, t)) : <<k.dst.sp, k.out>> = <<Q(nets, u).sp, Out(nets, u)>>
  BY <1>1, <1>3, <1>4
<1>7. QED
  BY <1>5, <1>6

\* Hops with the same way from the network on, and with ports that the code
\* does not tell apart.
LEMMA SameWay ==
  ASSUME NEW ns, Tables(ns), NEW u \in HopTurns(ns), NEW w \in HopTurns(ns),
         u[1] = w[1], P(ns, u).sp = P(ns, w).sp, P(ns, u).vlan = P(ns, w).vlan
  PROVE  LET x == <<w[1], w[2], u[3], w[4]>>
         IN x \in HopTurns(ns) /\ FlowAt(ns, x) = FlowAt(ns, w)
<1> DEFINE x == <<w[1], w[2], u[3], w[4]>>
<1>1. ns \in Seq(NetRow)
  BY DEF Tables
<1>2. /\ x[1] = w[1] /\ x[2] = w[2] /\ x[3] = u[3] /\ x[4] = w[4]
      /\ S(ns, x) = S(ns, w) /\ D(ns, x) = D(ns, w) /\ P(ns, x) = P(ns, u) /\ Q(ns, x) = Q(ns, w)
  BY DEF S, D, P, Q
<1>3. x \in Turns
  BY <1>1, HopTypes, SameTurn DEF Turns
<1> HIDE DEF x
<1>4. In(ns, x) = In(ns, w) /\ Out(ns, x) = Out(ns, w)
  BY <1>2 DEF In, Out, TagOf
<1>5. IsVisit(ns, x)
  <2>1. IsVisit(ns, w) /\ u[3] \in DOMAIN S(ns, u).ports /\ S(ns, u) = S(ns, w)
    BY <1>1, HopTypes DEF IsVisit, S
  <2>2. QED
    BY <1>2, <2>1 DEF IsVisit, DoubleVlan
<1>6. IsHop(ns, x)
  <2>1. IsHop(ns, w)
    BY <1>1, HopTypes
  <2>2. QED
    BY <1>2, <1>4, <1>5, <2>1 DEF IsHop
<1>7. FlowAt(ns, x) = FlowAt(ns, w)
  BY <1>2, <1>4 DEF FlowAt, ActionAt, AnyAt
<1>8. QED
  BY <1>3, <1>6, <1>7 DEF HopTurns, x

\* All the kept hops of a clear sender come from one port, the first.
LEMMA FirstSource ==
  ASSUME NEW ns, Tables(ns), NEW u \in KeptTurns(ns), NEW w \in KeptTurns(ns),
         u[1] = w[1], P(ns, u).sp = P(ns, w).sp, P(ns, u).vlan = P(ns, w).vlan
  PROVE  P(ns, u) = P(ns, w)
<1>1. /\ ns \in Seq(NetRow) /\ u \in HopTurns(ns) /\ w \in HopTurns(ns)
      /\ u \in Turns /\ w \in Turns /\ u[3] \in Nat /\ w[3] \in Nat
  BY HopTypes, SameTurn DEF Tables, KeptTurns
<1>2. ~(u[3] < w[3])
  <2> SUFFICES ASSUME u[3] < w[3] PROVE FALSE
    OBVIOUS
  <2>1. PICK x : x = <<w[1], w[2], u[3], w[4]>>
    OBVIOUS
  <2>2. x \in HopTurns(ns) /\ FlowAt(ns, x) = FlowAt(ns, w)
    BY <1>1, <2>1, SameWay
  <2>3. x \in Turns /\ x[1] = w[1] /\ x[2] = w[2] /\ x[3] = u[3]
    BY <2>1, <2>2 DEF HopTurns
  <2>4. Earlier(x, w)
    BY <1>1, <2>3, EarlierOf4
  <2>5. QED
    BY <2>2, <2>4 DEF KeptTurns, SameFlow
<1>3. ~(w[3] < u[3])
  <2> SUFFICES ASSUME w[3] < u[3] PROVE FALSE
    OBVIOUS
  <2>1. PICK x : x = <<u[1], u[2], w[3], u[4]>>
    OBVIOUS
  <2>2. x \in HopTurns(ns) /\ FlowAt(ns, x) = FlowAt(ns, u)
    BY <1>1, <2>1, SameWay
  <2>3. x \in Turns /\ x[1] = u[1] /\ x[2] = u[2] /\ x[3] = w[3]
    BY <2>1, <2>2 DEF HopTurns
  <2>4. Earlier(x, u)
    BY <1>1, <2>3, EarlierOf4
  <2>5. QED
    BY <2>2, <2>4 DEF KeptTurns, SameFlow
<1>4. u[3] = w[3]
  BY <1>1, <1>2, <1>3
<1>5. QED
  BY <1>4 DEF P

\* No other port of the network is on the switch port of hop t with another VLAN.
Untwinned(ns, t) ==
  \A u \in HopTurns(ns) : u[1] = t[1] /\ P(ns, u).sp = P(ns, t).sp => P(ns, u).vlan = P(ns, t).vlan

\* The broadcast of a clear sender has the outputs of all the hops of its frames.
LEMMA OutsOfFellows ==
  ASSUME NEW ns, Tables(ns), NEW t \in HopTurns(ns), Untwinned(ns, t),
         NEW c \in KeptTurns(ns), c \in Fellows(ns, t)
  PROVE  OutsAt(ns, c) = {<<Out(ns, u), Q(ns, u).sp>> : u \in Fellows(ns, t)}
<1>1. ns \in Seq(NetRow) /\ c \in HopTurns(ns)
  BY DEF Tables, KeptTurns
<1>2. OutsAt(ns, c) = {<<Out(ns, u), Q(ns, u).sp>> : u \in {w \in KeptTurns(ns) : <<P(ns, w).id, In(ns, w)>> = KeyAt(ns, c)}}
  BY <1>1, OutsAre DEF OutsAt
<1>3. ASSUME NEW u \in KeptTurns(ns), <<P(ns, u).id, In(ns, u)>> = KeyAt(ns, c)
      PROVE  u \in Fellows(ns, t)
  <2>1. P(ns, u).id = P(ns, c).id /\ In(ns, u) = In(ns, c) /\ u \in HopTurns(ns)
    BY <1>3 DEF KeyAt, KeptTurns
  <2>2. P(ns, u) = P(ns, c)
    BY <1>1, <2>1, SameNumber
  <2>3. QED
    BY <2>1, <2>2 DEF Fellows
<1>4. ASSUME NEW u \in Fellows(ns, t)
      PROVE  \E w \in KeptTurns(ns) : /\ <<P(ns, w).id, In(ns, w)>> = KeyAt(ns, c)
                                      /\ Out(ns, w) = Out(ns, u) /\ Q(ns, w).sp = Q(ns, u).sp
  <2>1. u \in HopTurns(ns) /\ u[1] = t[1] /\ P(ns, u).sp = P(ns, t).sp /\ P(ns, u).vlan = P(ns, t).vlan /\ In(ns, u) = In(ns, t)
    BY FellowsAre
  <2>2. \A v \in HopTurns(ns) : v[1] = u[1] /\ P(ns, v).sp = P(ns, u).sp => P(ns, v).vlan = P(ns, u).vlan
    BY <2>1 DEF Untwinned
  <2>3. PICK w \in KeptTurns(ns) : w \in Fellows(ns, u) /\ Q(ns, w).sp = Q(ns, u).sp /\ Out(ns, w) = Out(ns, u)
    BY <2>1, <2>2, FlowIsKept
  <2>4. /\ w[1] = u[1] /\ P(ns, w).sp = P(ns, u).sp /\ P(ns, w).vlan = P(ns, u).vlan /\ In(ns, w) = In(ns, u)
        /\ c[1] = t[1] /\ P(ns, c).sp = P(ns, t).sp /\ P(ns, c).vlan = P(ns, t).vlan /\ In(ns, c) = In(ns, t)
    BY <2>1, <2>3, FellowsAre
  <2>5. P(ns, w) = P(ns, c)
    BY <2>1, <2>4, FirstSource
  <2>6. QED
    BY <2>1, <2>3, <2>4, <2>5 DEF KeyAt
<1>5. ASSUME NEW o \in OutsAt(ns, c) PROVE \E u \in Fellows(ns, t) : o = <<Out(ns, u), Q(ns, u).sp>>
  BY <1>2, <1>3
<1>6. ASSUME NEW u \in Fellows(ns, t) PROVE <<Out(ns, u), Q(ns, u).sp>> \in OutsAt(ns, c)
  BY <1>2, <1>4
<1>7. QED
  BY <1>5, <1>6

\* Of the broadcast flows that count as repeated, that of a clear sender is the
\* only one: it is always among those kept.
LEMMA BroadcastKept ==
  ASSUME NEW ns, Tables(ns), NEW kinds \in Kinds(ns), ~(NbPorts(ns) <= 2),
         NEW t \in HopTurns(ns), Untwinned(ns, t),
         NEW c \in KeptTurns(ns), c \in Fellows(ns, t)
  PROVE  BroadcastFlow(ns, KeptHops(ns), KeyAt(ns, c)) \in kinds
<1> DEFINE B == BroadcastFlow(ns, KeptHops(ns), KeyAt(ns, c))
<1>1. ns \in Seq(NetRow) /\ c \in HopTurns(ns) /\ In(ns, c) \in Tags
  BY HopTypes DEF Tables, KeptTurns
<1>2. B \in BroadcastFlows(ns, KeptHops(ns)) /\ kinds \subseteq BroadcastFlows(ns, KeptHops(ns))
  BY <1>1, BroadcastFlowsAre DEF Kinds, Representatives
<1> HIDE DEF B
<1>3. PICK g \in kinds : SameFlow(B, g)
  BY <1>1, <1>2, SomeRepresentative
<1>4. PICK w \in KeptTurns(ns) : g = BroadcastFlow(ns, KeptHops(ns), KeyAt(ns, w))
  BY <1>1, <1>2, BroadcastFlowsAre
<1>5. w \in HopTurns(ns) /\ In(ns, w) \in Tags
  BY <1>1, HopTypes DEF KeptTurns
<1>6. /\ B.net = S(ns, c).id /\ B.ingress = P(ns, c).sp /\ B.actions = FinalActions(In(ns, c), OutsAt(ns, c))
      /\ g.net = S(ns, w).id /\ g.ingress = P(ns, w).sp /\ g.actions = FinalActions(In(ns, w), OutsAt(ns, w))
  BY <1>4, BroadcastIs DEF B
<1>7. /\ S(ns, c).id = S(ns, w).id /\ P(ns, c).sp = P(ns, w).sp
      /\ FinalActions(In(ns, c), OutsAt(ns, c)) = FinalActions(In(ns, w), OutsAt(ns, w))
  BY <1>3, <1>6 DEF SameFlow
<1>8. /\ c[1] = w[1] /\ c[1] = t[1] /\ S(ns, c) = S(ns, w)
      /\ P(ns, c).sp = P(ns, t).sp /\ P(ns, c).vlan = P(ns, t).vlan /\ In(ns, c) = In(ns, t)
  BY <1>1, <1>5, <1>7, SameNumber, FellowsAre
<1>9. P(ns, w).vlan = P(ns, c).vlan
  BY <1>5, <1>7, <1>8 DEF Untwinned
<1>10. P(ns, c) = P(ns, w)
  BY <1>7, <1>8, <1>9, FirstSource
\* The first output of each, as the hop it comes from.
<1>11. ASSUME NEW v \in KeptTurns(ns)
       PROVE  /\ Cardinality(OutsAt(ns, v)) \in Nat /\ 1 \in 1..Cardinality(OutsAt(ns, v))
              /\ FinalActions(In(ns, v), OutsAt(ns, v))[1].set = VlanAction(In(ns, v), Sorted(OutsAt(ns, v))[1][1])
              /\ FinalActions(In(ns, v), OutsAt(ns, v))[1].out = Sorted(OutsAt(ns, v))[1][2]
              /\ \E x \in KeptTurns(ns) : /\ P(ns, x) = P(ns, v) /\ In(ns, x) = In(ns, v)
                                          /\ x \in HopTurns(ns) /\ S(ns, x) = S(ns, v) /\ x[1] = v[1]
                                          /\ Sorted(OutsAt(ns, v))[1] = <<Out(ns, x), Q(ns, x).sp>>
  <2> DEFINE outs == OutsAt(ns, v)
  <2>1. v \in HopTurns(ns) /\ In(ns, v) \in Tags
    BY <1>1, HopTypes DEF KeptTurns
  <2>2. /\ outs = {<<Out(ns, u), Q(ns, u).sp>> : u \in {x \in KeptTurns(ns) : <<P(ns, x).id, In(ns, x)>> = KeyAt(ns, v)}}
        /\ outs \in SUBSET Pairs
    BY <1>1, OutsAre DEF OutsAt
  <2>3. <<Out(ns, v), Q(ns, v).sp>> \in outs
    BY <2>2 DEF KeyAt
  <2> HIDE DEF outs
  <2>4. /\ Cardinality(outs) \in Nat /\ Sorted(outs) \in [1..Cardinality(outs) -> outs]
        /\ 1 \in 1..Cardinality(outs)
    BY <2>2, <2>3, SortedIs
  <2>5. /\ FinalActions(In(ns, v), outs)[1].set = VlanAction(In(ns, v), Sorted(outs)[1][1])
        /\ FinalActions(In(ns, v), outs)[1].out = Sorted(outs)[1][2]
    BY <2>1, <2>2, <2>4, FinalActionsAre
  <2>6. Sorted(outs)[1] \in outs
    BY <2>4
  <2>7. PICK x \in KeptTurns(ns) : /\ <<P(ns, x).id, In(ns, x)>> = KeyAt(ns, v)
                                   /\ Sorted(outs)[1] = <<Out(ns, x), Q(ns, x).sp>>
    BY <2>2, <2>6
  <2>8. P(ns, x).id = P(ns, v).id /\ In(ns, x) = In(ns, v) /\ x \in HopTurns(ns)
    BY <2>7 DEF KeyAt, KeptTurns
  <2>9. P(ns, x) = P(ns, v) /\ S(ns, x) = S(ns, v) /\ x[1] = v[1]
    BY <2>1, <2>8, SameNumber
  <2>10. QED
    BY <2>4, <2>5, <2>7, <2>8, <2>9 DEF outs
<1>12. PICK x \in KeptTurns(ns) : /\ P(ns, x) = P(ns, c) /\ In(ns, x) = In(ns, c)
                                  /\ x \in HopTurns(ns) /\ S(ns, x) = S(ns, c) /\ x[1] = c[1]
                                  /\ Sorted(OutsAt(ns, c))[1] = <<Out(ns, x), Q(ns, x).sp>>
  BY <1>11
<1>13. PICK y \in KeptTurns(ns) : /\ P(ns, y) = P(ns, w) /\ In(ns, y) = In(ns, w)
                                  /\ y \in HopTurns(ns) /\ S(ns, y) = S(ns, w) /\ y[1] = w[1]
                                  /\ Sorted(OutsAt(ns, w))[1] = <<Out(ns, y), Q(ns, y).sp>>
  BY <1>11
<1>14. VlanAction(In(ns, c), Out(ns, x)) = VlanAction(In(ns, w), Out(ns, y)) /\ Q(ns, x).sp = Q(ns, y).sp
  BY <1>7, <1>11, <1>12, <1>13
<1>15. Out(ns, x) = Out(ns, y)
  BY <1>1, <1>5, <1>12, <1>13, <1>14, VlanActions, HopTypes
<1>16. D(ns, x) = D(ns, y)
  BY <1>12, <1>13, <1>14, <1>15, SameGoal
<1>17. In(ns, x) = In(ns, y)
  BY <1>8, <1>10, <1>12, <1>13, <1>16 DEF In
<1>18. KeyAt(ns, w) = KeyAt(ns, c)
  BY <1>10, <1>12, <1>13, <1>17 DEF KeyAt
<1>19. QED
  BY <1>3, <1>4, <1>18

\* All the broadcast flows that a frame of a clear sender matches are one.
LEMMA OneBroadcast ==
  ASSUME NEW ns, Tables(ns), NEW t \in HopTurns(ns),
         NEW u \in KeptTurns(ns), u \in Fellows(ns, t), NEW c \in KeptTurns(ns), c \in Fellows(ns, t)
  PROVE  KeyAt(ns, u) = KeyAt(ns, c)
<1>1. /\ u[1] = c[1] /\ P(ns, u).sp = P(ns, c).sp /\ P(ns, u).vlan = P(ns, c).vlan
      /\ In(ns, u) = In(ns, c)
  BY FellowsAre
<1>2. P(ns, u) = P(ns, c)
  BY <1>1, FirstSource
<1>3. QED
  BY <1>1, <1>2 DEF KeyAt

\* A flow that a broadcast of a clear sender takes goes where the sender is
\* linked to.
LEMMA BroadcastTakes ==
  ASSUME FlowsInv, NEW kinds \in Kinds(nets),
         result.flows = Unified(KeptFlows(nets) \cup kinds, Leaders(KeptHops(nets))),
         NEW t \in HopTurns(nets), Clear(nets, t), ~Overridden(LinkAt(nets, t)),
         NEW f \in Taken(Frame(LinkAt(nets, t), Broadcast))
  PROVE  Emitted(f, In(nets, t)) = {<<Q(nets, u).sp, Out(nets, u)>> : u \in Fellows(nets, t)}
<1> DEFINE flows == KeptFlows(nets) \cup kinds
           frame == Frame(LinkAt(nets, t), Broadcast)
           nb == NbPorts(nets)
           places == {<<Q(nets, u).sp, Out(nets, u)>> : u \in Fellows(nets, t)}
<1>1. Tables(nets) /\ nets \in Seq(NetRow) /\ Numbered(nets) /\ nb \in Nat /\ Untwinned(nets, t)
  BY FS_CardinalityType DEF FlowsInv, Tables, Numbered, NbPorts, Clear, Untwinned
<1>2. f \in Matching(Frame(LinkAt(nets, t), Broadcast)) /\ \A g \in Matching(frame) : g.priority <= f.priority
  BY DEF Taken
<1>3. PICK g \in KeptFlows(nets) \cup kinds : StemsFrom(nets, kinds, t, Broadcast, f, g)
  BY <1>2, MatchingAre
<1>4. /\ g \in flows /\ MadeOf(flows, g, f)
      /\ g.ingress = P(nets, t).sp /\ g.vlan = In(nets, t)
      /\ f.dst \in {None, Broadcast}
  BY <1>3 DEF StemsFrom
<1>5. PICK u \in KeptTurns(nets) :
        /\ u \in Fellows(nets, t)
        /\ \/ g = FlowAt(nets, u)
           \/ ~(nb <= 2) /\ g = BroadcastFlow(nets, KeptHops(nets), KeyAt(nets, u))
  BY <1>3 DEF StemsFrom
<1>6. /\ u \in HopTurns(nets) /\ u[1] = t[1] /\ S(nets, u) = S(nets, t)
      /\ P(nets, u).vlan = P(nets, t).vlan /\ P(nets, u).sp = P(nets, t).sp /\ In(nets, u) = In(nets, t)
  BY <1>1, <1>5, FellowsAre
<1>7. f.actions = g.actions
  BY <1>4 DEF MadeOf
<1>8. CASE nb <= 2
  <2>1. f.actions = << ActionAt(nets, u) >>
    BY <1>5, <1>7, <1>8 DEF FlowAt
  <2>2. Emitted(f, In(nets, t)) = {<<Q(nets, u).sp, Out(nets, u)>>}
    BY <1>1, <1>6, <2>1, HopEmits
  <2>3. ASSUME NEW w \in Fellows(nets, t)
        PROVE  Q(nets, w) = Q(nets, u) /\ Out(nets, w) = Out(nets, u)
    <3>1. w \in HopTurns(nets) /\ w[1] = t[1] /\ P(nets, w).vlan = P(nets, t).vlan /\ P(nets, w).sp = P(nets, t).sp
      BY <1>1, FellowsAre
    <3>2. QED
      BY <1>1, <1>6, <1>8, <3>1, TwoPorts
  <2>4. QED
    BY <1>5, <2>2, <2>3
<1>9. CASE ~(nb <= 2)
  <2>1. PICK c \in KeptTurns(nets) : c \in Fellows(nets, t)
    BY <1>1, FlowIsKept DEF Untwinned
  <2>2. In(nets, c) = In(nets, t) /\ P(nets, c).sp = P(nets, t).sp /\ c \in HopTurns(nets)
    BY <1>1, <2>1, FellowsAre
  <2>3. PICK B : B = BroadcastFlow(nets, KeptHops(nets), KeyAt(nets, c))
    OBVIOUS
  <2>4. B \in flows
    BY <1>1, <1>9, <2>1, <2>3, BroadcastKept
  <2>5. /\ B.ingress = P(nets, t).sp /\ B.vlan = In(nets, t) /\ B.dst = Broadcast
        /\ B.actions = FinalActions(In(nets, t), OutsAt(nets, c)) /\ 1000 <= B.priority /\ B.priority \in Nat
    BY <1>1, <2>1, <2>2, <2>3, BroadcastIs
  <2>6. f.actions = B.actions
    <3>1. Group(flows, B) = Group(flows, g) /\ B \in Group(flows, g) /\ g \in Group(flows, g)
      BY <1>4, <2>4, <2>5 DEF Group
    <3>2. CASE Converted(Group(flows, g))
      <4>1. \A a, b \in Group(flows, g) : a.actions = b.actions
        BY <3>2 DEF Converted
      <4> HIDE DEF flows
      <4>2. QED
        BY <1>7, <3>1, <4>1
    <3>3. CASE ~Converted(Group(flows, g))
      <4>1. f = g
        BY <1>4, <3>3 DEF MadeOf
      <4>2. B \in Matching(frame)
        BY <2>4, <2>5, <3>1, <3>3, SomeMatches
      <4>3. B.priority <= g.priority
        BY <1>2, <4>1, <4>2
      <4>4. g # FlowAt(nets, u)
        <5> SUFFICES ASSUME g = FlowAt(nets, u) PROVE FALSE
          OBVIOUS
        <5>1. Q(nets, u).id \in Nat /\ Q(nets, u).id # None /\ Q(nets, u).id # Broadcast
          BY <1>1, <1>6, HopTypes DEF PortRow, Broadcast
        <5>2. AnyAt(nets, u)
          BY <1>4, <4>1, <5>1 DEF FlowAt
        <5>3. ~Q(nets, u).mac
          <6> HIDE DEF nb
          <6>1. nb # 2
            BY <1>1, <1>9
          <6>2. AnyMac(nb, Q(nets, u))
            BY <5>2 DEF AnyAt, nb
          <6>3. QED
            BY <6>1, <6>2 DEF AnyMac
        <5>4. g.priority = Priority(S(nets, u), D(nets, u)) - 5
          BY <5>2 DEF FlowAt
        <5>5. S(nets, u) # D(nets, u)
          BY <2>5, <4>3, <5>4 DEF Priority
        <5>6. /\ LinkAt(nets, u) \in Links /\ LinkAt(nets, u).bound /\ ~LinkAt(nets, u).dst.mac
              /\ LinkAt(nets, u).src.sp = LinkAt(nets, t).src.sp /\ LinkAt(nets, u).tag = LinkAt(nets, t).tag
          BY <1>1, <1>6, <5>3, <5>5, LinksAre DEF LinkAt
        <5>7. QED
          BY <5>6 DEF Overridden, Alike
      <4>5. g = BroadcastFlow(nets, KeptHops(nets), KeyAt(nets, u))
        BY <1>5, <4>4
      <4>6. KeyAt(nets, u) = KeyAt(nets, c)
        BY <1>1, <1>5, <2>1, OneBroadcast
      <4>7. QED
        BY <2>3, <4>1, <4>5, <4>6
    <3>4. QED
      BY <3>2, <3>3
  <2>7. OutsAt(nets, c) \in SUBSET Pairs /\ In(nets, t) \in Tags
    BY <1>1, <2>2, OutsAre, HopTypes DEF OutsAt
  <2>8. Emitted(f, In(nets, t)) = {<<o[2], o[1]>> : o \in OutsAt(nets, c)}
    BY <2>5, <2>6, <2>7, BroadcastEmits
  <2>9. OutsAt(nets, c) = {<<Out(nets, w), Q(nets, w).sp>> : w \in Fellows(nets, t)}
    BY <1>1, <2>1, OutsOfFellows
  <2>10. \A e : e \in Emitted(f, In(nets, t)) <=> e \in places
    <3>1. ASSUME NEW e \in Emitted(f, In(nets, t)) PROVE e \in places
      <4>1. PICK o \in OutsAt(nets, c) : e = <<o[2], o[1]>>
        BY <2>8
      <4>2. PICK w \in Fellows(nets, t) : o = <<Out(nets, w), Q(nets, w).sp>>
        BY <2>9, <4>1
      <4>3. QED
        BY <4>1, <4>2
    <3>2. ASSUME NEW w \in Fellows(nets, t) PROVE <<Q(nets, w).sp, Out(nets, w)>> \in Emitted(f, In(nets, t))
      <4>1. PICK o \in OutsAt(nets, c) : o = <<Out(nets, w), Q(nets, w).sp>>
        BY <2>9
      <4>2. <<o[2], o[1]>> = <<Q(nets, w).sp, Out(nets, w)>>
        BY <4>1
      <4>3. <<o[2], o[1]>> \in Emitted(f, In(nets, t))
        BY <2>8
      <4>4. QED
        BY <4>2, <4>3
    <3>3. QED
      BY <3>1, <3>2
  <2>11. QED
    BY <2>10
<1>10. QED
  BY <1>8, <1>9

\* Whatever the tables, a broadcast of a port that is no twin and not overridden
\* goes to every port that it is linked to, each with its own tag, and to no other:
\* a broadcast flow that counts as repeated is never this port's, and no flow for
\* any address comes before it.
THEOREM BroadcastAlwaysArrives == NoMutualBinding /\ Spec => []BroadcastArrives
<1>1. FlowsInv => BroadcastArrives
  <2> SUFFICES ASSUME FlowsInv, Computed, NEW l \in Links, Distinct(l), ~Overridden(l)
               PROVE  Reaches(l, Broadcast, {<<k.dst.sp, k.out>> : k \in Alike(l)})
    BY DEF BroadcastArrives
  <2>1. Tables(nets) /\ nets \in Seq(NetRow) /\ Numbered(nets)
    BY DEF FlowsInv, Tables
  <2>2. PICK kinds \in Kinds(nets) :
          result.flows = Unified(KeptFlows(nets) \cup kinds, Leaders(KeptHops(nets)))
    BY ResultIs
  <2>3. PICK t \in HopTurns(nets) : l = LinkAt(nets, t)
    BY <2>1, LinksAre
  <2>4. Clear(nets, t)
    BY <2>1, <2>3, DistinctIsClear
  <2>5. l.tag = In(nets, t) /\ Untwinned(nets, t)
    BY <2>3, <2>4 DEF LinkAt, Clear, Untwinned
  <2> DEFINE frame == Frame(LinkAt(nets, t), Broadcast)
             flows == KeptFlows(nets) \cup kinds
             g == FlowAt(nets, t)
  <2>6. Matching(frame) # {}
    <3>1. g \in flows /\ g.ingress = P(nets, t).sp /\ g.vlan = In(nets, t)
      BY <2>2, <2>4, SomeMatches DEF FlowAt
    <3>2. CASE Converted(Group(flows, g))
      BY <2>2, <2>4, <3>2, SomeMatches
    <3>3. CASE ~Converted(Group(flows, g)) /\ NbPorts(nets) <= 2
      <4>1. NbPorts(nets) = 2
        BY <2>1, <3>3, TwoPorts
      <4>2. g.dst = None
        BY <4>1 DEF FlowAt, AnyAt, AnyMac
      <4>3. QED
        BY <2>2, <2>4, <3>1, <3>3, <4>2, SomeMatches
    <3>4. CASE ~Converted(Group(flows, g)) /\ ~(NbPorts(nets) <= 2)
      <4>1. PICK c \in KeptTurns(nets) : c \in Fellows(nets, t)
        BY <2>1, <2>5, FlowIsKept DEF Untwinned
      <4>2. In(nets, c) = In(nets, t) /\ P(nets, c).sp = P(nets, t).sp
        BY <2>1, <4>1, FellowsAre
      <4>3. PICK B : B = BroadcastFlow(nets, KeptHops(nets), KeyAt(nets, c))
        OBVIOUS
      <4>4. B \in flows
        BY <2>1, <2>5, <3>4, <4>1, <4>3, BroadcastKept
      <4>5. B.ingress = P(nets, t).sp /\ B.vlan = In(nets, t) /\ B.dst = Broadcast
        BY <2>1, <4>1, <4>2, <4>3, BroadcastIs
      <4>6. Group(flows, B) = Group(flows, g)
        BY <3>1, <4>5 DEF Group
      <4>7. QED
        BY <2>2, <2>4, <3>4, <4>4, <4>5, <4>6, SomeMatches
    <3>5. QED
      BY <3>2, <3>3, <3>4
  <2>7. Taken(frame) # {}
    BY <2>2, <2>4, <2>6, SomeMatches
  <2>8. ASSUME NEW f \in Taken(frame)
        PROVE  Emitted(f, l.tag) = {<<k.dst.sp, k.out>> : k \in Alike(l)}
    <3>1. Emitted(f, In(nets, t)) = {<<Q(nets, u).sp, Out(nets, u)>> : u \in Fellows(nets, t)}
      BY <2>2, <2>3, <2>4, BroadcastTakes
    <3>2. QED
      BY <2>1, <2>3, <2>5, <3>1, PlacesAre
  <2>9. QED
    BY <2>3, <2>7, <2>8 DEF Reaches
<1>2. QED
  BY InitFlows, NextFlows, <1>1, PTL DEF Spec

-----------------------------------------------------------------------------
(* The unification of flows for any address *)

\* Hop x of the frames of hop h, whose flow is kept as that of a hop y with
\* another tag: then the port of h has the goal of h for a twin.
LEMMA TwinAtTheGoal ==
  ASSUME Tables(nets), NEW h \in KeptTurns(nets), NEW x \in Fellows(nets, h), NEW y \in KeptTurns(nets),
         SameFlow(FlowAt(nets, y), FlowAt(nets, x)), In(nets, y) # In(nets, h)
  PROVE  Twins(Q(nets, h))
<1>1. /\ nets \in Seq(NetRow) /\ h \in HopTurns(nets) /\ y \in HopTurns(nets) /\ x \in HopTurns(nets)
      /\ h \in Turns /\ y \in Turns /\ x \in Turns
      /\ h[3] \in Nat /\ y[3] \in Nat
  BY HopTypes, SameTurn DEF Tables, KeptTurns, Fellows
<1>2. /\ x[1] = h[1] /\ P(nets, x).sp = P(nets, h).sp /\ P(nets, x).vlan = P(nets, h).vlan
      /\ In(nets, x) = In(nets, h)
  BY <1>1, FellowsAre
<1>3. /\ y[1] = x[1] /\ P(nets, y).sp = P(nets, x).sp /\ y[2] = x[2]
      /\ P(nets, y).vlan # P(nets, x).vlan
  BY <1>1, <1>2, Repeated
<1>4. /\ P(nets, y).vlan # P(nets, h).vlan /\ P(nets, y).sp = P(nets, h).sp /\ y[1] = h[1]
      /\ y[3] # h[3]
  BY <1>2, <1>3 DEF P
<1>5. /\ y[1] \in DOMAIN nets /\ y[3] \in DOMAIN nets[y[1]].ports
       /\ h[1] \in DOMAIN nets /\ h[3] \in DOMAIN nets[h[1]].ports
       /\ h[2] \in DOMAIN nets /\ h[4] \in DOMAIN nets[h[2]].ports
  BY <1>1, HopTypes
<1>6. P(nets, y).vlan # None /\ P(nets, h).vlan # None
  <2>1. nets[y[1]].ports[y[3]].sp = nets[h[1]].ports[h[3]].sp /\ y[3] # h[3]
    BY <1>4 DEF P
  <2>2. nets[y[1]].ports[y[3]].vlan # None /\ nets[h[1]].ports[h[3]].vlan # None
    BY <1>5, <2>1 DEF Tables, SharedByVlan
  <2>3. QED
    BY <2>2 DEF P
<1>7. /\ In(nets, h) = P(nets, h).vlan /\ NetIn(S(nets, h), D(nets, h)) = None
      /\ In(nets, y) = P(nets, y).vlan
  BY <1>6, <1>1, OwnTag
\* The port of y comes before that of h.
<1>8. y[3] < h[3]
  <2> SUFFICES ASSUME h[3] < y[3] PROVE FALSE
    BY <1>1, <1>4
  <2>1. PICK z : z = <<x[1], x[2], h[3], x[4]>>
    OBVIOUS
  <2>2. z \in HopTurns(nets) /\ FlowAt(nets, z) = FlowAt(nets, x)
    BY <1>1, <1>2, <2>1, SameWay
  <2>3. z \in Turns /\ z[1] = x[1] /\ z[2] = x[2] /\ z[3] = h[3]
    BY <2>1, <2>2 DEF HopTurns
  <2>4. Earlier(z, y)
    BY <1>1, <1>3, <2>3, EarlierOf4
  <2>5. SameFlow(FlowAt(nets, z), FlowAt(nets, y))
    BY <2>2 DEF SameFlow
  <2>6. QED
    BY <2>2, <2>4, <2>5 DEF KeptTurns
<1>9. PICK w : w = <<h[1], h[2], y[3], h[4]>>
  OBVIOUS
<1>10. /\ w \in Turns /\ w[1] = h[1] /\ w[2] = h[2] /\ w[3] = y[3] /\ w[4] = h[4]
      /\ S(nets, w) = S(nets, h) /\ D(nets, w) = D(nets, h) /\ P(nets, w) = P(nets, y) /\ Q(nets, w) = Q(nets, h)
  BY <1>1, <1>4, <1>9, SameTurn DEF S, D, P, Q, Turns
<1>11. /\ In(nets, w) = P(nets, y).vlan /\ Out(nets, w) = Out(nets, h)
       /\ NetIn(S(nets, w), D(nets, w)) = None
  BY <1>7, <1>10 DEF In, Out, TagOf
<1>12. IsVisit(nets, w)
  <2>1. IsVisit(nets, h) /\ y[3] \in DOMAIN S(nets, h).ports
    BY <1>1, <1>4, HopTypes DEF S
  <2>2. QED
    BY <1>10, <1>11, <2>1 DEF IsVisit, DoubleVlan
<1>13. P(nets, y).sp = Q(nets, h).sp /\ P(nets, y).vlan = Out(nets, h)
  <2> SUFFICES ASSUME ~(P(nets, y).sp = Q(nets, h).sp /\ P(nets, y).vlan = Out(nets, h)) PROVE FALSE
    OBVIOUS
  <2>1. IsHop(nets, h)
    BY <1>1, HopTypes
  <2>2. w \in HopTurns(nets)
    BY <1>10, <1>11, <1>12, <2>1 DEF HopTurns, IsHop
  <2>3. ActionAt(nets, w) = ActionAt(nets, h)
    BY <1>6, <1>7, <1>10, <1>11 DEF ActionAt, VlanAction
  <2>4. SameFlow(FlowAt(nets, w), FlowAt(nets, h))
    BY <1>4, <1>10, <2>3 DEF SameFlow, FlowAt, AnyAt
  <2>5. Earlier(w, h)
    BY <1>1, <1>8, <1>10, EarlierOf4
  <2>6. QED
    BY <2>2, <2>4, <2>5 DEF KeptTurns
<1>14. h[1] = h[2] /\ P(nets, y).vlan = Q(nets, h).vlan
  <2>1. \/ h[1] = h[2] /\ y[3] = h[4]
        \/ /\ Q(nets, h).vlan # None
           /\ P(nets, y).vlan = Q(nets, h).vlan => h[1] = h[2]
    <3>1. nets[y[1]].ports[y[3]].sp = nets[h[2]].ports[h[4]].sp
      BY <1>13 DEF P, Q
    <3>2. \/ y[1] = h[2] /\ y[3] = h[4]
          \/ /\ nets[h[2]].ports[h[4]].vlan # None
             /\ nets[y[1]].ports[y[3]].vlan = nets[h[2]].ports[h[4]].vlan => y[1] = h[2]
      BY <1>5, <3>1 DEF Tables, SharedByVlan
    <3>3. QED
      BY <1>4, <3>2 DEF P, Q
  <2>2. Q(nets, h).vlan # None => Out(nets, h) = Q(nets, h).vlan
    BY <1>1, OwnTag
  <2>3. h[1] = h[2] /\ y[3] = h[4] => P(nets, y) = Q(nets, h)
    BY <1>4 DEF P, Q
  <2>4. QED
    BY <1>13, <2>1, <2>2, <2>3
<1>15. /\ S(nets, h) \in Range(nets) /\ P(nets, h) \in PortsOf(nets)
       /\ P(nets, h) \in Range(S(nets, h).ports) /\ Q(nets, h) \in Range(S(nets, h).ports)
  BY <1>1, <1>14, HopTypes, PortsAre DEF S, P, Q, Range
<1>16. P(nets, h).sp = Q(nets, h).sp /\ P(nets, h).vlan # Q(nets, h).vlan
  BY <1>4, <1>13, <1>14
<1>17. QED
  BY <1>15, <1>16 DEF Twins

\* Whatever the tables, the KeyError needs a port without MAC that is the only
\* place to go to from some port and tag, or has a twin.
THEOREM KeyErrorsAreOneWay == NoMutualBinding /\ Spec => []KeyErrorNeedsOneWay
<1>1. FlowsInv => KeyErrorNeedsOneWay
  <2> SUFFICES ASSUME FlowsInv, result.status = "KeyError"
               PROVE  \E l \in Links :
                        /\ ~l.dst.mac
                        /\ \A k \in Alike(l) : (k.dst.sp = l.dst.sp /\ k.out = l.out) \/ Twins(l.dst)
    BY DEF KeyErrorNeedsOneWay
  <2>1. Tables(nets) /\ nets \in Seq(NetRow) /\ Numbered(nets)
    BY DEF FlowsInv, Tables
  <2>2. PICK kinds \in Kinds(nets) : \E f \in Leaders(KeptHops(nets)) : PopFails(KeptFlows(nets) \cup kinds, f)
    BY ResultIs
  <2>3. PICK f \in Leaders(KeptHops(nets)) : PopFails(KeptFlows(nets) \cup kinds, f)
    BY <2>2
  <2>4. PICK h \in KeptTurns(nets) : f = FlowAt(nets, h)
    BY <2>1, KeptFacts DEF LeaderTurns
  <2> DEFINE flows == KeptFlows(nets) \cup kinds
             l == LinkAt(nets, h)
  <2>5. /\ \E g1, g2 \in Group(flows, f) : g1 # g2
        /\ \A g1, g2 \in Group(flows, f) : g1.actions = g2.actions
        /\ f.dst = None
    BY <2>3 DEF PopFails, Converted
  <2>6. h \in HopTurns(nets) /\ f.ingress = P(nets, h).sp /\ f.vlan = In(nets, h)
    BY <2>4 DEF KeptTurns, FlowAt
  <2>7. ~(NbPorts(nets) <= 2)
    <3> SUFFICES ASSUME NbPorts(nets) <= 2 PROVE FALSE
      OBVIOUS
    <3>1. ASSUME NEW g \in Group(flows, f)
          PROVE  \E t \in KeptTurns(nets) : g = FlowAt(nets, t) /\ t \in HopTurns(nets)
                                            /\ P(nets, t).sp = P(nets, h).sp /\ In(nets, t) = In(nets, h)
      <4>1. g \in flows /\ g.vlan = f.vlan /\ g.ingress = f.ingress
        BY DEF Group
      <4>2. PICK t \in KeptTurns(nets) : g = FlowAt(nets, t)
        BY <2>1, <4>1, FlowsAre
      <4>3. QED
        BY <2>6, <4>1, <4>2 DEF KeptTurns, FlowAt
    <3>2. PICK g1 \in Group(flows, f), g2 \in Group(flows, f) : g1 # g2
      BY <2>5
    <3>3. PICK t1 \in HopTurns(nets) : /\ g1 = FlowAt(nets, t1)
                                       /\ P(nets, t1).sp = P(nets, h).sp /\ In(nets, t1) = In(nets, h)
      BY <3>1
    <3>4. PICK t2 \in HopTurns(nets) : /\ g2 = FlowAt(nets, t2)
                                       /\ P(nets, t2).sp = P(nets, h).sp /\ In(nets, t2) = In(nets, h)
      BY <3>1
    <3>5. t1[1] = t2[1] /\ P(nets, t1).vlan = P(nets, t2).vlan
      BY <2>1, <3>3, <3>4, SameOrigin
    <3>6. /\ Q(nets, t1) = Q(nets, t2) /\ D(nets, t1) = D(nets, t2) /\ S(nets, t1) = S(nets, t2)
          /\ Out(nets, t1) = Out(nets, t2)
      BY <2>1, <3>3, <3>4, <3>5, TwoPorts
    <3>7. FlowAt(nets, t1) = FlowAt(nets, t2)
      BY <3>3, <3>4, <3>6 DEF FlowAt, ActionAt, AnyAt
    <3>8. QED
      BY <3>2, <3>3, <3>4, <3>7
  <2>8. ~Q(nets, h).mac
    <3>1. Q(nets, h).id # None
      BY <2>1, <2>6, HopTypes DEF PortRow
    <3>2. AnyAt(nets, h)
      BY <2>4, <2>5, <3>1 DEF FlowAt
    <3>3. PICK nb : nb = NbPorts(nets)
      OBVIOUS
    <3>4. nb # 2
      BY <2>7, <3>3
    <3>5. AnyMac(nb, Q(nets, h))
      BY <3>2, <3>3 DEF AnyAt
    <3>6. QED
      BY <3>4, <3>5 DEF AnyMac
  <2>9. l \in Links /\ l.dst = Q(nets, h) /\ l.out = Out(nets, h)
    BY <2>1, <2>6, LinksAre DEF LinkAt
  <2>10. ASSUME NEW k \in Alike(l) PROVE (k.dst.sp = l.dst.sp /\ k.out = l.out) \/ Twins(l.dst)
    <3>1. PICK x \in HopTurns(nets) : k = LinkAt(nets, x)
      BY <2>1, LinksAre DEF Alike
    <3>2. /\ x \in Fellows(nets, h) /\ k.dst = Q(nets, x) /\ k.out = Out(nets, x)
          /\ P(nets, x).sp = P(nets, h).sp
      BY <3>1 DEF Alike, LinkAt, Fellows
    <3>3. PICK y \in KeptTurns(nets) : SameFlow(FlowAt(nets, y), FlowAt(nets, x))
      BY <2>1, SomeIsKept
    <3>4. CASE In(nets, y) # In(nets, h)
      BY <2>1, <2>9, <3>2, <3>3, <3>4, TwinAtTheGoal
    <3>5. CASE In(nets, y) = In(nets, h)
      <4>1. y \in HopTurns(nets) /\ FlowAt(nets, y) \in flows
        BY DEF KeptTurns, KeptFlows
      <4>2. P(nets, y).sp = P(nets, x).sp /\ Q(nets, y).sp = Q(nets, x).sp /\ Out(nets, y) = Out(nets, x)
        BY <2>1, <3>3, <4>1, Repeated
      <4>3. FlowAt(nets, y) \in Group(flows, f)
        BY <2>6, <3>2, <3>5, <4>1, <4>2 DEF Group, FlowAt
      <4>4. f \in Group(flows, f)
        BY <2>4 DEF Group, KeptFlows
      <4>5. FlowAt(nets, y).actions = FlowAt(nets, h).actions
        BY <2>4, <2>5, <4>3, <4>4
      <4>6. ActionAt(nets, y) = ActionAt(nets, h)
        BY <4>5 DEF FlowAt
      <4>7. Q(nets, y).sp = Q(nets, h).sp /\ VlanAction(In(nets, y), Out(nets, y)) = VlanAction(In(nets, h), Out(nets, h))
        BY <4>6 DEF ActionAt
      <4>8. Out(nets, y) = Out(nets, h)
        BY <2>1, <2>6, <4>1, <4>7, VlanActions, HopTypes
      <4>9. QED
        BY <2>9, <3>2, <4>2, <4>7, <4>8
    <3>6. QED
      BY <3>4, <3>5
  <2>11. QED
    BY <2>8, <2>9, <2>10
<1>2. QED
  BY InitFlows, NextFlows, <1>1, PTL DEF Spec

=============================================================================
