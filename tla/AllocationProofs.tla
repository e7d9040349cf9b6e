-------------------------- MODULE AllocationProofs --------------------------
(***************************************************************************)
(* Theorems about Allocation, for any compute nodes, cards, flavors and    *)
(* any number of http threads and servers.                                 *)
(***************************************************************************)
EXTENDS Allocation, FiniteSetTheorems, WellFoundedInduction, TLAPS

Active == {h \in HttpThreads : plan[h] # NoPlan}

\* What is chosen has one card for each interface, in any phase.
PlansAreShaped ==
  \A h \in Active :
    /\ DOMAIN plan[h].nics = DOMAIN plan[h].flavor.interfaces
    /\ plan[h].at = "pin" => plan[h].picked = 0 /\ plan[h].threads = {}
    /\ plan[h].at = "insert" => plan[h].nics = << >> /\ plan[h].threads = {}
                                /\ plan[h].flavor.proc_req_nb = 0

TInv == TypeOK /\ PlansAreShaped

\* The fields of a flavor.
LEMMA FlavorTypes ==
  ASSUME NEW f \in Flavors
  PROVE  /\ f.interfaces \in Seq(Iface)
         /\ f.memory \in Nat /\ f.ram \in Nat /\ f.vcpus \in Nat
         /\ f.proc_req_nb \in Nat /\ f.proc_req_type \in ProcTypes
         /\ Ram(f) \in Nat /\ Vcpus(f) \in Nat
<1>1. f \in Flavor
  BY FlavorsAreTyped
<1>2. QED
  BY <1>1 DEF Flavor, Ram, Vcpus

\* A sequence with an element replaced, or built on the same domain.
LEMMA SameDomain ==
  ASSUME NEW S, NEW T, NEW s \in Seq(S), NEW r \in [DOMAIN s -> T]
  PROVE  r \in Seq(T) /\ Len(r) = Len(s)
<1>1. DOMAIN s = 1..Len(s) /\ Len(s) \in Nat
  OBVIOUS
<1>2. r \in [1..Len(s) -> T]
  BY <1>1
<1>3. QED
  BY <1>1, <1>2

LEMMA Replaced ==
  ASSUME NEW S, NEW s \in Seq(S), NEW i, NEW v \in S
  PROVE  [s EXCEPT ![i] = v] \in Seq(S) /\ DOMAIN [s EXCEPT ![i] = v] = DOMAIN s
<1> DEFINE r == [s EXCEPT ![i] = v]
<1>1. \A j \in DOMAIN s : s[j] \in S
  OBVIOUS
<1>2. r \in [DOMAIN s -> S]
  BY <1>1
<1>3. r \in Seq(S)
  BY <1>2, SameDomain
<1>4. QED
  BY <1>2, <1>3

LEMMA EmptySeq ==
  ASSUME NEW S, NEW s \in Seq(S), NEW r, r = << >>, DOMAIN s = DOMAIN r
  PROVE  s = << >>
<1>1. DOMAIN s = 1..Len(s) /\ Len(s) \in Nat
  OBVIOUS
<1>2. DOMAIN r = {}
  OBVIOUS
<1>3. Len(s) = 0
  <2>1. 1 \notin 1..Len(s)
    BY <1>1, <1>2
  <2>2. QED
    BY <1>1, <2>1
<1>4. QED
  BY <1>3

LEMMA NicsAndRoots ==
  /\ \A pf \in Pfs : Root(pf) = pf
  /\ \A vf \in Vfs : vf \notin Pfs /\ Root(vf) = RootOf[vf]
  /\ \A nic \in Nics : Root(nic) \in Pfs /\ Speed[Root(nic)] \in Nat
BY NodesAreTyped DEF Root, Nics

\* What begins is typed and shaped.
LEMMA BegunPlan ==
  ASSUME NEW f \in Flavors, NEW n \in Numas, NEW roots \in [DOMAIN f.interfaces -> Pfs],
         NEW b \in BOOLEAN
  PROVE  [at |-> "pin", flavor |-> f, numa |-> n, nics |-> roots,
          threads |-> {}, picked |-> 0, alone |-> b] \in Plan
<1>1. roots \in Seq(Pfs)
  BY FlavorTypes, SameDomain
<1>2. roots \in Seq(Nics)
  BY <1>1 DEF Nics
<1>3. QED
  BY <1>2 DEF Plan

\* What the choice of a NUMA node does: one plan begins, and the others are
\* not alone any more.
Started(h, f, p) ==
  /\ p.at = "pin" /\ p.flavor = f /\ p.threads = {} /\ p.picked = 0
  /\ p.nics \in [DOMAIN f.interfaces -> Pfs]
  /\ NumaFits(p.numa, f, p.nics)
  /\ p.alone => \A g \in HttpThreads \ {h} : plan[g] = NoPlan
  /\ \A g \in HttpThreads :
       /\ g = h => plan'[g] = p
       /\ g # h /\ plan[g] # NoPlan =>
            plan[g] \in Plan /\ plan'[g] = [plan[g] EXCEPT !.alone = FALSE]
       /\ g # h /\ plan[g] = NoPlan => plan'[g] = NoPlan

LEMMA ChooseNumaFacts ==
  ASSUME TInv, NEW h \in HttpThreads, NEW f \in Flavors, ChooseNuma(h, f)
  PROVE  /\ UNCHANGED tables /\ plan[h] = NoPlan
         /\ plan' \in [HttpThreads -> Plan \cup {NoPlan}]
         /\ \E p \in Plan : Started(h, f, p)
<1>1. PICK n \in Numas, roots \in [DOMAIN f.interfaces -> Pfs], b \in BOOLEAN :
        /\ NumaFits(n, f, roots)
        /\ b => \A g \in HttpThreads \ {h} : plan[g] = NoPlan
        /\ plan' = Begun(h, [at |-> "pin", flavor |-> f, numa |-> n, nics |-> roots,
                             threads |-> {}, picked |-> 0, alone |-> b])
  BY Zenon DEF ChooseNuma
<1> DEFINE p == [at |-> "pin", flavor |-> f, numa |-> n, nics |-> roots,
                 threads |-> {}, picked |-> 0, alone |-> b]
<1>2. p \in Plan
  BY BegunPlan
<1>3. /\ p.nics = roots /\ p.flavor = f /\ p.at = "pin" /\ p.numa = n
      /\ p.picked = 0 /\ p.threads = {} /\ p.alone = b
  OBVIOUS
<1>4. plan' = Begun(h, p)
  BY <1>1
<1> HIDE DEF p
<1>5. \A g \in HttpThreads :
        /\ g = h => plan'[g] = p
        /\ g # h /\ plan[g] # NoPlan => plan'[g] = [plan[g] EXCEPT !.alone = FALSE]
        /\ g # h /\ plan[g] = NoPlan => plan'[g] = NoPlan
  BY <1>4 DEF Begun
<1>6. \A g \in HttpThreads : plan[g] # NoPlan => plan[g] \in Plan
  BY DEF TInv, TypeOK
<1>7. \A g \in HttpThreads : plan'[g] \in Plan \cup {NoPlan}
  <2> SUFFICES ASSUME NEW g \in HttpThreads PROVE plan'[g] \in Plan \cup {NoPlan}
    OBVIOUS
  <2>1. CASE g # h /\ plan[g] # NoPlan
    <3>1. [plan[g] EXCEPT !.alone = FALSE] \in Plan
      BY <2>1, <1>6 DEF Plan
    <3>2. QED
      BY <2>1, <3>1, <1>5
  <2>2. QED
    BY <2>1, <1>2, <1>5
<1>8. plan' \in [HttpThreads -> Plan \cup {NoPlan}]
  BY <1>4, <1>7 DEF Begun
<1>9. UNCHANGED tables /\ plan[h] = NoPlan
  BY DEF ChooseNuma
<1>10. QED
  <2>1. /\ NumaFits(p.numa, f, p.nics) /\ p.nics \in [DOMAIN f.interfaces -> Pfs]
        /\ p.alone => \A g \in HttpThreads \ {h} : plan[g] = NoPlan
    BY <1>1, <1>3
  <2>2. QED
    BY <1>2, <1>3, <1>5, <1>6, <1>8, <1>9, <2>1 DEF Started

LEMMA ChooseNumaTInv ==
  ASSUME TInv, NEW h \in HttpThreads, NEW f \in Flavors, ChooseNuma(h, f)
  PROVE  TInv'
<1>1. /\ UNCHANGED tables
      /\ plan' \in [HttpThreads -> Plan \cup {NoPlan}]
  BY ChooseNumaFacts
<1>2. TypeOK'
  BY <1>1 DEF TInv, TypeOK, tables, Placed
<1>3. PICK p \in Plan : Started(h, f, p)
  BY ChooseNumaFacts
<1>4. ASSUME NEW g \in HttpThreads, plan'[g] # NoPlan
      PROVE  /\ DOMAIN plan'[g].nics = DOMAIN plan'[g].flavor.interfaces
             /\ plan'[g].at = "pin" => plan'[g].picked = 0 /\ plan'[g].threads = {}
             /\ plan'[g].at = "insert" => plan'[g].nics = << >> /\ plan'[g].threads = {}
                                          /\ plan'[g].flavor.proc_req_nb = 0
  <2>1. CASE g = h
    BY <2>1, <1>3 DEF Started
  <2>2. CASE g # h
    <3>1. plan[g] # NoPlan /\ plan[g] \in Plan /\ plan'[g] = [plan[g] EXCEPT !.alone = FALSE]
      BY <2>2, <1>3, <1>4 DEF Started
    <3>2. QED
      BY <3>1 DEF Plan, TInv, PlansAreShaped, Active
  <2>3. QED
    BY <2>1, <2>2
<1>5. QED
  BY <1>2, <1>4 DEF TInv, PlansAreShaped, Active

\* The three steps of a creation that only change its own plan.
LEMMA OwnPlanTInv ==
  ASSUME TInv, UNCHANGED tables, NEW h \in HttpThreads, NEW q,
         plan' = [plan EXCEPT ![h] = q],
         \/ q = NoPlan
         \/ /\ q \in Plan
            /\ DOMAIN q.nics = DOMAIN q.flavor.interfaces
            /\ q.at = "pin" => q.picked = 0 /\ q.threads = {}
            /\ q.at = "insert" => q.nics = << >> /\ q.threads = {}
                                  /\ q.flavor.proc_req_nb = 0
  PROVE  TInv'
<1>1. plan' \in [HttpThreads -> Plan \cup {NoPlan}]
  BY DEF TInv, TypeOK
<1>2. TypeOK'
  BY <1>1 DEF TInv, TypeOK, tables, Placed
<1>3. \A g \in HttpThreads : g # h => plan'[g] = plan[g]
  BY DEF TInv, TypeOK
<1>4. plan'[h] = q
  BY DEF TInv, TypeOK
<1>5. PlansAreShaped'
  BY <1>3, <1>4 DEF TInv, PlansAreShaped, Active
<1>6. QED
  BY <1>2, <1>5 DEF TInv

\* What the choice of the threads does.
LEMMA PinFacts ==
  ASSUME TInv, NEW h \in HttpThreads, Pin(h)
  PROVE  /\ UNCHANGED tables /\ plan[h] \in Plan /\ plan[h] # NoPlan /\ plan[h].at = "pin"
         /\ \E q \in Plan :
              /\ plan' = [plan EXCEPT ![h] = q]
              /\ q.nics = plan[h].nics /\ q.flavor = plan[h].flavor /\ q.numa = plan[h].numa
              /\ q.picked = plan[h].picked /\ q.alone = plan[h].alone
              /\ \/ /\ q.at = "insert" /\ q.flavor.proc_req_nb = 0
                    /\ q.nics = << >> /\ q.threads = {}
                 \/ /\ q.at = "nics" /\ q.threads \subseteq FreeThreads(q.numa)
                    /\ Pinned(q.flavor, q.numa, q.threads)
<1> DEFINE p == plan[h]
<1>1. p \in Plan /\ p # NoPlan /\ p.at = "pin" /\ DOMAIN p.nics = DOMAIN p.flavor.interfaces
      /\ p.threads = {}
  BY DEF TInv, TypeOK, PlansAreShaped, Active, Pin
<1>2. UNCHANGED tables
  BY DEF Pin
<1>3. CASE p.flavor.proc_req_nb = 0
  <2> DEFINE q == [p EXCEPT !.at = "insert"]
  <2>1. p.flavor.interfaces = << >> /\ plan' = [plan EXCEPT ![h] = q]
    BY <1>3, Zenon DEF Pin
  <2>2. q \in Plan /\ q.nics = p.nics /\ q.flavor = p.flavor /\ q.threads = {}
        /\ q.at = "insert" /\ q.numa = p.numa /\ q.picked = p.picked /\ q.alone = p.alone
    BY <1>1 DEF Plan
  <2>3. p.nics = << >>
    BY <1>1, <2>1, EmptySeq DEF Plan
  <2> HIDE DEF q
  <2>4. QED
    BY <1>1, <1>2, <1>3, <2>1, <2>2, <2>3
<1>4. CASE p.flavor.proc_req_nb # 0
  <2>1. PICK ts \in SUBSET FreeThreads(p.numa) :
          /\ Pinned(p.flavor, p.numa, ts)
          /\ plan' = [plan EXCEPT ![h].threads = ts, ![h].at = "nics"]
    BY <1>4, Zenon DEF Pin
  <2> DEFINE q == [[p EXCEPT !.threads = ts] EXCEPT !.at = "nics"]
  <2>2. plan' = [plan EXCEPT ![h] = q]
    BY <2>1 DEF TInv, TypeOK
  <2>3. ts \in SUBSET Threads
    BY DEF FreeThreads
  <2>4. q \in Plan /\ q.nics = p.nics /\ q.flavor = p.flavor /\ q.at = "nics"
        /\ q.threads = ts /\ q.numa = p.numa /\ q.picked = p.picked /\ q.alone = p.alone
    BY <1>1, <2>3 DEF Plan
  <2> HIDE DEF q
  <2>5. Pinned(q.flavor, q.numa, q.threads) /\ q.threads \subseteq FreeThreads(q.numa)
    BY <2>1, <2>4
  <2>6. QED
    BY <1>1, <1>2, <2>2, <2>4, <2>5
<1>5. QED
  BY <1>3, <1>4

LEMMA PinTInv ==
  ASSUME TInv, NEW h \in HttpThreads, Pin(h)
  PROVE  TInv'
<1>1. UNCHANGED tables /\ plan[h] # NoPlan
  BY PinFacts
<1>2. PICK q \in Plan :
        /\ plan' = [plan EXCEPT ![h] = q]
        /\ q.nics = plan[h].nics /\ q.flavor = plan[h].flavor
        /\ \/ q.at = "insert" /\ q.flavor.proc_req_nb = 0 /\ q.nics = << >> /\ q.threads = {}
           \/ q.at = "nics"
  BY PinFacts
<1>3. DOMAIN q.nics = DOMAIN q.flavor.interfaces
  BY <1>1, <1>2 DEF TInv, PlansAreShaped, Active
<1>4. QED
  BY <1>1, <1>2, <1>3, OwnPlanTInv

\* What the choice of a card does.
LEMMA PickNicFacts ==
  ASSUME TInv, NEW h \in HttpThreads, PickNic(h)
  PROVE  /\ UNCHANGED tables /\ plan[h] \in Plan /\ plan[h] # NoPlan /\ plan[h].at = "nics"
         /\ DOMAIN plan[h].nics = DOMAIN plan[h].flavor.interfaces
         /\ plan[h].picked + 1 \in DOMAIN plan[h].nics
         /\ \E q \in Plan :
              /\ plan' = [plan EXCEPT ![h] = q]
              /\ q.flavor = plan[h].flavor /\ q.numa = plan[h].numa /\ q.at = "nics"
              /\ q.threads = plan[h].threads /\ q.alone = plan[h].alone
              /\ q.picked = plan[h].picked + 1
              /\ \/ /\ plan[h].flavor.interfaces[plan[h].picked + 1].dedicated = "yes"
                    /\ q.nics = plan[h].nics
                 \/ \E vf \in Candidates(h) :
                      q.nics = [plan[h].nics EXCEPT ![plan[h].picked + 1] = vf]
<1> DEFINE p == plan[h]
           i == p.picked + 1
<1>1. p \in Plan /\ DOMAIN p.nics = DOMAIN p.flavor.interfaces /\ p.at = "nics" /\ p # NoPlan
  BY DEF TInv, TypeOK, PlansAreShaped, Active, PickNic
<1>2. UNCHANGED tables
  BY DEF PickNic
<1>3. i \in DOMAIN p.nics /\ i \in Nat
  <2>1. p.flavor.interfaces \in Seq(Iface) /\ p.picked \in Nat
    BY <1>1, FlavorTypes DEF Plan
  <2>2. i <= Len(p.flavor.interfaces)
    BY DEF PickNic
  <2>3. DOMAIN p.flavor.interfaces = 1..Len(p.flavor.interfaces)
    BY <2>1
  <2>4. QED
    BY <1>1, <2>1, <2>2, <2>3
<1>4. CASE p.flavor.interfaces[i].dedicated = "yes"
  <2> DEFINE q == [p EXCEPT !.picked = i]
  <2>1. plan' = [plan EXCEPT ![h] = q]
    BY <1>4, Zenon DEF PickNic
  <2>2. q \in Plan /\ q.nics = p.nics /\ q.flavor = p.flavor /\ q.at = "nics"
        /\ q.threads = p.threads /\ q.numa = p.numa /\ q.picked = i /\ q.alone = p.alone
    BY <1>1, <1>3 DEF Plan
  <2> HIDE DEF q
  <2>3. QED
    BY <1>1, <1>2, <1>3, <1>4, <2>1, <2>2
<1>5. CASE p.flavor.interfaces[i].dedicated # "yes"
  <2>1. PICK vf \in Candidates(h) : plan' = [plan EXCEPT ![h].nics[i] = vf, ![h].picked = i]
    BY <1>5, Zenon DEF PickNic
  <2> DEFINE nics == [p.nics EXCEPT ![i] = vf]
             q == [[p EXCEPT !.nics = nics] EXCEPT !.picked = i]
  <2>2. plan' = [plan EXCEPT ![h] = q]
    BY <2>1 DEF TInv, TypeOK
  <2>3. vf \in Nics
    BY DEF Candidates, VfsOf, Nics
  <2>4. nics \in Seq(Nics) /\ DOMAIN nics = DOMAIN p.nics
    <3>1. p.nics \in Seq(Nics)
      BY <1>1 DEF Plan
    <3>2. QED
      BY <3>1, <2>3, Replaced
  <2>5. q.nics = [p.nics EXCEPT ![i] = vf]
    BY <1>1 DEF Plan
  <2> HIDE DEF nics
  <2>6. q \in Plan /\ q.flavor = p.flavor /\ q.at = "nics" /\ q.alone = p.alone
        /\ q.threads = p.threads /\ q.numa = p.numa /\ q.picked = i
    <3>1. [p EXCEPT !.nics = nics] \in Plan
      BY <1>1, <2>4 DEF Plan
    <3>2. q \in Plan
      BY <1>3, <3>1 DEF Plan
    <3>3. QED
      BY <1>1, <3>2 DEF Plan
  <2> HIDE DEF q
  <2>7. QED
    BY <1>1, <1>2, <1>3, <2>1, <2>2, <2>5, <2>6
<1>6. QED
  BY <1>4, <1>5

LEMMA PickNicTInv ==
  ASSUME TInv, NEW h \in HttpThreads, PickNic(h)
  PROVE  TInv'
<1>1. /\ UNCHANGED tables /\ plan[h] \in Plan
      /\ DOMAIN plan[h].nics = DOMAIN plan[h].flavor.interfaces
  BY PickNicFacts
<1>2. PICK q \in Plan :
        /\ plan' = [plan EXCEPT ![h] = q]
        /\ q.flavor = plan[h].flavor /\ q.numa = plan[h].numa /\ q.at = "nics"
        /\ q.threads = plan[h].threads /\ q.alone = plan[h].alone
        /\ q.picked = plan[h].picked + 1
        /\ \/ /\ plan[h].flavor.interfaces[plan[h].picked + 1].dedicated = "yes"
              /\ q.nics = plan[h].nics
           \/ \E vf \in Candidates(h) :
                q.nics = [plan[h].nics EXCEPT ![plan[h].picked + 1] = vf]
  BY PickNicFacts
<1>3. DOMAIN q.nics = DOMAIN plan[h].nics
  BY <1>2
<1>4. QED
  BY <1>1, <1>2, <1>3, OwnPlanTInv

LEMMA AbortTInv ==
  ASSUME TInv, NEW h \in HttpThreads, Abort(h)
  PROVE  TInv'
<1>1. UNCHANGED tables /\ plan' = [plan EXCEPT ![h] = NoPlan]
  BY DEF Abort
<1>2. QED
  BY <1>1, OwnPlanTInv

\* The row that new_instance writes.
Written(p) ==
  [host |-> HostOf[p.numa], numa |-> p.numa, flavor |-> p.flavor,
   memory |-> p.flavor.memory, ram |-> Ram(p.flavor), vcpus |-> Vcpus(p.flavor),
   nics |-> p.nics, alone |-> p.alone]

\* What new_instance does to the tables, one fact for each.
LEMMA NewInstanceFacts ==
  ASSUME TInv, NEW h \in HttpThreads, NEW s \in Servers, NewInstance(h, s)
  PROVE  /\ plan[h] \in Plan /\ Ready(h) /\ plan' = [plan EXCEPT ![h] = NoPlan]
         /\ Written(plan[h]) \in Row
         /\ s \notin Placed
         /\ \A r \in Servers : server'[r] = IF r = s THEN Written(plan[h]) ELSE server[r]
         /\ server' \in [Servers -> Row \cup {NoServer}]
         /\ Placed' = Placed \cup {s}
         /\ \A t \in Threads : threadOf'[t] = IF t \in plan[h].threads THEN s ELSE threadOf[t]
         /\ \A nic \in Nics : nicOf'[nic] = IF nic \in ChosenNics(plan[h]) THEN s ELSE nicOf[nic]
<1> DEFINE p == plan[h]
<1>1. p \in Plan
  BY DEF NewInstance, Ready, TInv, TypeOK
<1>2. Written(p) \in Row
  <2>1. p.flavor \in Flavors /\ p.numa \in Numas /\ p.nics \in Seq(Nics) /\ p.alone \in BOOLEAN
    BY <1>1 DEF Plan
  <2>2. HostOf[p.numa] \in Hosts
    BY <2>1, NodesAreTyped
  <2>3. /\ p.flavor.memory \in Nat
        /\ Ram(p.flavor) \in Nat
        /\ Vcpus(p.flavor) \in Nat
    BY <2>1, FlavorTypes
  <2>4. QED
    BY <2>1, <2>2, <2>3 DEF Written, Row
<1>3. server' = [server EXCEPT ![s] = Written(p)]
  BY DEF NewInstance, Written
<1>4. server \in [Servers -> Row \cup {NoServer}] /\ server[s] = NoServer
  BY DEF NewInstance, TInv, TypeOK
<1>5. \A r \in Servers : server'[r] = IF r = s THEN Written(p) ELSE server[r]
  BY <1>3, <1>4
<1>6. server' \in [Servers -> Row \cup {NoServer}]
  BY <1>2, <1>3, <1>4
<1>7. Written(p) # NoServer
  BY <1>2, NullsAreDistinct
<1>8. Placed' = Placed \cup {s}
  BY <1>5, <1>7 DEF Placed
<1>9. /\ Ready(h) /\ plan' = [plan EXCEPT ![h] = NoPlan]
      /\ threadOf' = [t \in Threads |-> IF t \in p.threads THEN s ELSE threadOf[t]]
      /\ nicOf' = [nic \in Nics |-> IF nic \in ChosenNics(p) THEN s ELSE nicOf[nic]]
  BY DEF NewInstance
<1>10. QED
  BY <1>1, <1>2, <1>4, <1>5, <1>6, <1>8, <1>9 DEF Placed

\* An interface is charged with a number.
LEMMA ChargeType ==
  ASSUME NEW p \in Plan, DOMAIN p.nics = DOMAIN p.flavor.interfaces,
         NEW i \in DOMAIN p.nics
  PROVE  /\ p.nics[i] \in Nics
         /\ p.flavor.interfaces[i] \in Iface
         /\ Charge(p.flavor, p.nics, i) \in Nat
<1>1. p.nics \in Seq(Nics) /\ p.flavor \in Flavors
  BY DEF Plan
<1>2. p.nics[i] \in Nics
  BY <1>1
<1>3. p.flavor.interfaces \in Seq(Iface)
  BY <1>1, FlavorTypes
<1>4. p.flavor.interfaces[i] \in Iface
  BY <1>3
<1>5. p.flavor.interfaces[i].bandwidth \in Nat
  BY <1>4 DEF Iface
<1>6. Speed[Root(p.nics[i])] \in Nat
  BY <1>2, NicsAndRoots
<1>7. QED
  BY <1>2, <1>4, <1>5, <1>6 DEF Charge

LEMMA NewInstanceTInv ==
  ASSUME TInv, NEW h \in HttpThreads, NEW s \in Servers, NewInstance(h, s)
  PROVE  TInv'
<1> DEFINE p == plan[h]
<1>1. /\ p \in Plan /\ plan' = [plan EXCEPT ![h] = NoPlan]
      /\ server' \in [Servers -> Row \cup {NoServer}]
      /\ Placed' = Placed \cup {s}
  BY NewInstanceFacts
<1>2. threadOf' \in [Threads -> Placed' \cup {NoServer}]
  BY <1>1 DEF NewInstance, TInv, TypeOK
<1>3. nicOf' \in [Nics -> Placed' \cup {NoServer}]
  BY <1>1 DEF NewInstance, TInv, TypeOK
<1>4. nicUsed' \in [Nics -> Nat]
  <2>1. DOMAIN p.nics = DOMAIN p.flavor.interfaces
    BY DEF NewInstance, Ready, TInv, PlansAreShaped, Active
  <2>2. ASSUME NEW nic \in Nics, nic \in ChosenNics(p)
        PROVE  Charge(p.flavor, p.nics, CHOOSE i \in DOMAIN p.nics : p.nics[i] = nic) \in Nat
    <3>1. (CHOOSE i \in DOMAIN p.nics : p.nics[i] = nic) \in DOMAIN p.nics
      BY <2>2 DEF ChosenNics
    <3>2. QED
      BY <1>1, <2>1, <3>1, ChargeType
  <2>3. \A nic \in Nics : nicUsed[nic] \in Nat
    BY DEF TInv, TypeOK
  <2>4. QED
    BY <2>2, <2>3 DEF NewInstance
<1>5. plan' \in [HttpThreads -> Plan \cup {NoPlan}]
  BY <1>1 DEF TInv, TypeOK
<1>6. TypeOK'
  BY <1>1, <1>2, <1>3, <1>4, <1>5 DEF TypeOK
<1>7. \A g \in HttpThreads : plan'[g] # NoPlan => plan'[g] = plan[g]
  BY <1>1 DEF TInv, TypeOK
<1>8. PlansAreShaped'
  BY <1>7 DEF TInv, PlansAreShaped, Active
<1>9. QED
  BY <1>6, <1>8 DEF TInv

LEMMA DeleteTInv ==
  ASSUME TInv, NEW s \in Servers, DeleteInstance(s)
  PROVE  TInv' /\ Placed' = Placed \ {s}
<1>1. Placed' = Placed \ {s}
  BY DEF DeleteInstance, Placed, TInv, TypeOK
<1>2. threadOf' \in [Threads -> Placed' \cup {NoServer}]
  BY <1>1 DEF DeleteInstance, TInv, TypeOK
<1>3. nicOf' \in [Nics -> Placed' \cup {NoServer}]
  BY <1>1 DEF DeleteInstance, TInv, TypeOK
<1>4. nicUsed' \in [Nics -> Nat]
  BY DEF DeleteInstance, TInv, TypeOK
<1>5. server' \in [Servers -> Row \cup {NoServer}]
  BY DEF DeleteInstance, TInv, TypeOK
<1>6. plan' = plan
  BY DEF DeleteInstance
<1>7. TypeOK'
  BY <1>2, <1>3, <1>4, <1>5, <1>6 DEF TInv, TypeOK
<1>8. PlansAreShaped'
  BY <1>6 DEF TInv, PlansAreShaped, Active
<1>9. QED
  BY <1>1, <1>7, <1>8 DEF TInv

LEMMA InitTInv == Init => TInv
<1> SUFFICES ASSUME Init PROVE TInv
  OBVIOUS
<1>1. TypeOK
  BY DEF Init, TypeOK
<1>2. Active = {}
  BY DEF Init, Active
<1>3. QED
  BY <1>1, <1>2 DEF TInv, PlansAreShaped

LEMMA StutterTInv ==
  ASSUME TInv, UNCHANGED vars
  PROVE  TInv'
BY DEF TInv, TypeOK, PlansAreShaped, Active, Placed, vars, tables

LEMMA NextTInv == TInv /\ [Next]_vars => TInv'
BY ChooseNumaTInv, PinTInv, PickNicTInv, AbortTInv, NewInstanceTInv, DeleteTInv,
   StutterTInv DEF Next

\* The types, and the foreign keys: no thread or card belongs to a server that
\* does not exist.
THEOREM TypeCorrect == Spec => []TypeOK
<1>1. TInv => TypeOK
  BY DEF TInv
<1>2. QED
  BY InitTInv, NextTInv, <1>1, PTL DEF Spec

-----------------------------------------------------------------------------
(* No card is given twice *)

LEMMA CardsSteps ==
  ASSUME TInv, CardsAreOwn, [Next]_vars
  PROVE  CardsAreOwn'
<1>1. ASSUME NEW h \in HttpThreads, NEW s \in Servers, NewInstance(h, s)
      PROVE  CardsAreOwn'
  <2> DEFINE p == plan[h]
             In(nic, row) == \E i \in DOMAIN row.nics : row.nics[i] = nic
  <2>1. /\ s \notin Placed /\ Placed' = Placed \cup {s}
        /\ \A r \in Servers : server'[r] = IF r = s THEN Written(p) ELSE server[r]
        /\ \A nic \in Nics : nicOf'[nic] = IF nic \in ChosenNics(p) THEN s ELSE nicOf[nic]
    BY <1>1, NewInstanceFacts
  <2>2. \A nic : In(nic, Written(p)) <=> nic \in ChosenNics(p)
    BY DEF Written, ChosenNics
  <2>3. \A nic \in ChosenNics(p) : nicOf[nic] = NoServer
    BY <1>1 DEF NewInstance, MacsAreNew
  <2>4. \A nic \in Nics, r \in Servers : nicOf[nic] = r <=> r \in Placed /\ In(nic, server[r])
    BY DEF CardsAreOwn
  <2> HIDE DEF In
  <2>5. ASSUME NEW nic \in Nics, NEW r \in Servers
        PROVE  nicOf'[nic] = r <=> r \in Placed' /\ In(nic, server'[r])
    <3>1. CASE r = s
      BY <3>1, <2>1, <2>2, <2>4
    <3>2. CASE r # s
      BY <3>2, <2>1, <2>3, <2>4, NullsAreDistinct
    <3>3. QED
      BY <3>1, <3>2
  <2>6. QED
    BY <2>5 DEF CardsAreOwn, In
<1>2. ASSUME NEW s \in Servers, DeleteInstance(s)
      PROVE  CardsAreOwn'
  <2>1. /\ Placed' = Placed \ {s}
        /\ server' = [server EXCEPT ![s] = NoServer]
        /\ nicOf' = [nic \in Nics |-> IF nicOf[nic] = s THEN NoServer ELSE nicOf[nic]]
    BY <1>2, DeleteTInv DEF DeleteInstance
  <2>2. \A r \in Servers : r # s => server'[r] = server[r]
    BY <2>1 DEF TInv, TypeOK
  <2>3. ASSUME NEW nic \in Nics, NEW r \in Servers
        PROVE  nicOf'[nic] = r <=>
                 r \in Placed' /\ \E i \in DOMAIN server'[r].nics : server'[r].nics[i] = nic
    <3>1. CASE r = s
      BY <3>1, <2>1, NullsAreDistinct
    <3>2. CASE r # s
      BY <3>2, <2>1, <2>2, NullsAreDistinct DEF CardsAreOwn
    <3>3. QED
      BY <3>1, <3>2
  <2>4. QED
    BY <2>3 DEF CardsAreOwn
<1>3. CASE UNCHANGED tables
  BY <1>3 DEF CardsAreOwn, tables, Placed
<1>4. QED
  BY <1>1, <1>2, <1>3 DEF Next, vars, ChooseNuma, Pin, PickNic, Abort

\* However the creations overlap, a card is held by the server in whose ports it
\* is, and by no other: the unique key of ports.mac is enough.
THEOREM CardsStayOwn == Spec => []CardsAreOwn
<1>1. Init => CardsAreOwn
  BY NullsAreDistinct DEF Init, CardsAreOwn, Placed
<1>2. TInv /\ CardsAreOwn /\ [Next]_vars => CardsAreOwn'
  BY CardsSteps
<1>3. QED
  BY InitTInv, NextTInv, <1>1, <1>2, PTL DEF Spec

-----------------------------------------------------------------------------
(* A server created alone keeps its threads *)

FreeOf(f, n) == IF f.proc_req_type = "threads" THEN FreeThreads(n) ELSE FreeCores(n)

\* The shape of the threads that are chosen and held.
GoodThreads(f, n, ts) ==
  /\ \A t \in ts : NumaOfCore[t[1]] = n
  /\ IF f.proc_req_type = "threads"
       THEN Cardinality(ts) = f.proc_req_nb
       ELSE \E ks \in SUBSET Cores : Cardinality(ks) = f.proc_req_nb /\ ts = ks \X {1, 2}

Held(s) == {t \in Threads : threadOf[t] = s}

OnlyOne == \A h, g \in Active : plan[h].alone => g = h

NotTaken == \A h \in Active : \A t \in plan[h].threads : threadOf[t] \notin Undisputed

StillEnough ==
  \A h \in Active :
    plan[h].alone /\ plan[h].at = "pin" =>
      plan[h].flavor.proc_req_nb <= Cardinality(FreeOf(plan[h].flavor, plan[h].numa))

ChosenAreGood ==
  \A h \in Active :
    plan[h].alone /\ plan[h].at # "pin" =>
      GoodThreads(plan[h].flavor, plan[h].numa, plan[h].threads)

HeldAreGood ==
  \A s \in Undisputed : GoodThreads(server[s].flavor, server[s].numa, Held(s))

ThreadsInv == OnlyOne /\ NotTaken /\ StillEnough /\ ChosenAreGood /\ HeldAreGood

\* What is free is finite, and grows with the free threads.
LEMMA ThreadsAreFinite == IsFiniteSet(Threads)
<1> DEFINE S == {1}
<1>1. IsFiniteSet(S) /\ {1, 2} = S \cup {2}
  BY FS_Singleton
<1> HIDE DEF S
<1>2. IsFiniteSet({1, 2})
  <2>1. IsFiniteSet(S \cup {2})
    BY <1>1, FS_AddElement
  <2>2. QED
    BY <1>1, <2>1
<1>3. QED
  BY <1>2, NodesAreTyped, FS_Product DEF Threads

LEMMA FreeIsFinite ==
  ASSUME NEW f, NEW n
  PROVE  /\ IsFiniteSet(FreeOf(f, n)) /\ IsFiniteSet(FreeThreads(n)) /\ IsFiniteSet(FreeCores(n))
         /\ Cardinality(FreeOf(f, n)) \in Nat
<1>1. IsFiniteSet(Threads)
  BY ThreadsAreFinite
<1>2. FreeThreads(n) \in SUBSET Threads /\ FreeCores(n) \in SUBSET Cores
  BY DEF FreeThreads, FreeCores
<1>3. IsFiniteSet(FreeThreads(n)) /\ IsFiniteSet(FreeCores(n))
  BY <1>1, <1>2, NodesAreTyped, FS_Subset
<1>4. QED
  BY <1>3, FS_CardinalityType DEF FreeOf

LEMMA NextThreads ==
  ASSUME TInv, ThreadsInv, [Next]_vars
  PROVE  ThreadsInv'
<1> USE DEF ThreadsInv
<1>1. ASSUME NEW h \in HttpThreads, NEW f \in Flavors, ChooseNuma(h, f)
      PROVE  ThreadsInv'
  <2>1. UNCHANGED tables /\ plan[h] = NoPlan
    BY <1>1, ChooseNumaFacts
  <2>2. PICK p \in Plan : Started(h, f, p)
    BY <1>1, ChooseNumaFacts
  <2>3. /\ Undisputed' = Undisputed /\ threadOf' = threadOf /\ server' = server
        /\ \A n : FreeThreads(n)' = FreeThreads(n) /\ FreeCores(n)' = FreeCores(n)
        /\ \A s : Held(s)' = Held(s)
    BY <2>1 DEF tables, Undisputed, Placed, FreeThreads, FreeCores, Held
  <2>4. ASSUME NEW g \in HttpThreads, plan'[g] # NoPlan, g # h
        PROVE  g \in Active /\ ~plan'[g].alone /\ plan'[g].threads = plan[g].threads
    <3>1. plan[g] # NoPlan /\ plan[g] \in Plan /\ plan'[g] = [plan[g] EXCEPT !.alone = FALSE]
      BY <2>2, <2>4 DEF Started
    <3>2. QED
      BY <3>1 DEF Active, Plan
  <2>5. plan'[h] = p /\ p.threads = {} /\ p.at = "pin" /\ p.flavor = f
    BY <2>2 DEF Started
  <2>6. OnlyOne'
    <3>1. p.alone => \A g \in HttpThreads \ {h} : plan'[g] = NoPlan
      BY <2>2 DEF Started
    <3>2. QED
      BY <2>4, <2>5, <3>1 DEF OnlyOne, Active
  <2>7. NotTaken'
    BY <2>3, <2>4, <2>5 DEF NotTaken, Active
  <2>8. StillEnough'
    <3>1. f.proc_req_nb <= Cardinality(FreeOf(f, p.numa))
      BY <2>2, <2>5 DEF Started, NumaFits, NumaHasThreads, FreeOf
    <3>2. FreeOf(f, p.numa)' = FreeOf(f, p.numa)
      BY <2>3 DEF FreeOf
    <3>3. QED
      BY <2>4, <2>5, <3>1, <3>2 DEF StillEnough, Active
  <2>9. ChosenAreGood'
    BY <2>4, <2>5 DEF ChosenAreGood, Active
  <2>10. HeldAreGood'
    BY <2>3 DEF HeldAreGood, GoodThreads
  <2>11. QED
    BY <2>6, <2>7, <2>8, <2>9, <2>10
<1>2. ASSUME NEW h \in HttpThreads, Pin(h)
      PROVE  ThreadsInv'
  <2>1. UNCHANGED tables /\ h \in Active /\ plan[h].at = "pin"
    BY <1>2, PinFacts DEF Active
  <2>2. PICK q \in Plan :
          /\ plan' = [plan EXCEPT ![h] = q]
          /\ q.flavor = plan[h].flavor /\ q.numa = plan[h].numa /\ q.alone = plan[h].alone
          /\ \/ q.at = "insert" /\ q.flavor.proc_req_nb = 0 /\ q.threads = {}
             \/ /\ q.at = "nics" /\ q.threads \subseteq FreeThreads(q.numa)
                /\ Pinned(q.flavor, q.numa, q.threads)
    BY <1>2, PinFacts
  <2>3. /\ Undisputed' = Undisputed /\ threadOf' = threadOf /\ server' = server
        /\ \A n : FreeThreads(n)' = FreeThreads(n) /\ FreeCores(n)' = FreeCores(n)
        /\ \A s : Held(s)' = Held(s)
    BY <2>1 DEF tables, Undisputed, Placed, FreeThreads, FreeCores, Held
  <2>4. /\ plan'[h] = q
        /\ \A g \in HttpThreads : g # h => plan'[g] = plan[g]
        /\ Active' \subseteq Active
    BY <2>1, <2>2 DEF Active, TInv, TypeOK
  <2>5. OnlyOne'
    BY <2>1, <2>2, <2>4 DEF OnlyOne
  <2>6. NotTaken'
    <3>1. \A t \in q.threads : threadOf[t] = NoServer
      BY <2>2 DEF FreeThreads
    <3>2. \A t \in q.threads : threadOf[t] \notin Undisputed
      BY <3>1, NullsAreDistinct DEF Undisputed, Placed
    <3> SUFFICES ASSUME NEW g \in Active', NEW t \in plan'[g].threads
                 PROVE  threadOf'[t] \notin Undisputed'
      BY DEF NotTaken
    <3>3. CASE g = h
      BY <2>3, <2>4, <3>2, <3>3
    <3>4. CASE g # h
      <4>1. g \in Active /\ plan'[g] = plan[g]
        BY <2>4, <3>4 DEF Active
      <4>2. QED
        BY <2>3, <4>1 DEF NotTaken
    <3>5. QED
      BY <3>3, <3>4
  <2>7. StillEnough'
    <3>1. q.at # "pin"
      BY <2>2
    <3>2. \A f, n : FreeOf(f, n)' = FreeOf(f, n)
      BY <2>3 DEF FreeOf
    <3> SUFFICES ASSUME NEW g \in Active', plan'[g].alone, plan'[g].at = "pin"
                 PROVE  (plan[g].flavor.proc_req_nb
                           <= Cardinality(FreeOf(plan[g].flavor, plan[g].numa)))'
      BY DEF StillEnough
    <3>3. g \in Active /\ plan'[g] = plan[g]
      BY <2>4, <3>1 DEF Active
    <3>4. QED
      BY <3>2, <3>3 DEF StillEnough
  <2>8. q.alone => GoodThreads(q.flavor, q.numa, q.threads)
    <3> SUFFICES ASSUME q.alone PROVE GoodThreads(q.flavor, q.numa, q.threads)
      OBVIOUS
    <3> DEFINE f == q.flavor
               n == q.numa
               ts == q.threads
    <3>1. f.proc_req_nb <= Cardinality(FreeOf(f, n)) /\ f.proc_req_nb \in Nat
      BY <2>1, <2>2, FlavorTypes DEF StillEnough, Plan
    <3>2. CASE q.at = "insert"
      <4>1. ts = {} /\ f.proc_req_nb = 0
        BY <2>2, <3>2
      <4>2. ts = {} \X {1, 2} /\ {} \in SUBSET Cores /\ Cardinality({}) = 0
        BY <4>1, FS_EmptySet
      <4>3. QED
        BY <4>1, <4>2 DEF GoodThreads
    <3>3. CASE q.at # "insert"
      <4>1. ts \subseteq FreeThreads(n) /\ Pinned(f, n, ts)
        BY <2>2, <3>3
      <4>2. \A t \in ts : NumaOfCore[t[1]] = n
        BY <4>1 DEF FreeThreads
      <4>3. CASE f.proc_req_type = "threads"
        <5>1. Cardinality(ts) = Least(f.proc_req_nb, Cardinality(FreeThreads(n)))
          BY <4>1, <4>3 DEF Pinned
        <5>2. Cardinality(FreeThreads(n)) \in Nat /\ f.proc_req_nb <= Cardinality(FreeThreads(n))
          BY <3>1, <4>3, FreeIsFinite, FS_CardinalityType DEF FreeOf
        <5>3. QED
          BY <3>1, <4>2, <4>3, <5>1, <5>2 DEF Least, GoodThreads
      <4>4. CASE f.proc_req_type # "threads"
        <5>1. PICK ks \in SUBSET FreeCores(n) :
                Cardinality(ks) = Least(f.proc_req_nb, Cardinality(FreeCores(n))) /\ ts = ks \X {1, 2}
          BY <4>1, <4>4 DEF Pinned
        <5>2. Cardinality(FreeCores(n)) \in Nat /\ f.proc_req_nb <= Cardinality(FreeCores(n))
          BY <3>1, <4>4, FreeIsFinite, FS_CardinalityType DEF FreeOf
        <5>3. ks \in SUBSET Cores /\ Cardinality(ks) = f.proc_req_nb
          BY <3>1, <5>1, <5>2 DEF Least, FreeCores
        <5>4. QED
          BY <4>2, <4>4, <5>1, <5>3 DEF GoodThreads
      <4>5. QED
        BY <4>3, <4>4
    <3>4. QED
      BY <3>2, <3>3
  <2>9. ChosenAreGood'
    <3> SUFFICES ASSUME NEW g \in Active', plan'[g].alone, plan'[g].at # "pin"
                 PROVE  GoodThreads(plan'[g].flavor, plan'[g].numa, plan'[g].threads)
      BY DEF ChosenAreGood, GoodThreads
    <3>1. CASE g = h
      BY <2>4, <2>8, <3>1
    <3>2. CASE g # h
      BY <2>4, <3>2 DEF ChosenAreGood, Active
    <3>3. QED
      BY <3>1, <3>2
  <2>10. HeldAreGood'
    BY <2>3 DEF HeldAreGood, GoodThreads
  <2>11. QED
    BY <2>5, <2>6, <2>7, <2>9, <2>10
<1>3. ASSUME NEW h \in HttpThreads, PickNic(h) \/ Abort(h)
      PROVE  ThreadsInv'
  <2>1. UNCHANGED tables /\ h \in Active
    BY <1>3 DEF PickNic, Abort, Active
  <2>2. /\ \A g \in HttpThreads : g # h => plan'[g] = plan[g]
        /\ \/ plan'[h] = NoPlan
           \/ /\ plan[h].at = "nics" /\ plan'[h].at = "nics"
              /\ plan'[h].threads = plan[h].threads /\ plan'[h].alone = plan[h].alone
              /\ plan'[h].flavor = plan[h].flavor /\ plan'[h].numa = plan[h].numa
    <3>1. CASE Abort(h)
      BY <3>1 DEF Abort, TInv, TypeOK
    <3>2. CASE PickNic(h)
      <4>1. plan[h].at = "nics"
        BY <3>2, PickNicFacts
      <4>2. PICK q \in Plan :
              /\ plan' = [plan EXCEPT ![h] = q]
              /\ q.flavor = plan[h].flavor /\ q.numa = plan[h].numa /\ q.at = "nics"
              /\ q.threads = plan[h].threads /\ q.alone = plan[h].alone
        BY <3>2, PickNicFacts
      <4>3. plan'[h] = q /\ \A g \in HttpThreads : g # h => plan'[g] = plan[g]
        BY <4>2 DEF TInv, TypeOK
      <4>4. QED
        BY <4>1, <4>2, <4>3
    <3>3. QED
      BY <1>3, <3>1, <3>2
  <2>3. /\ Undisputed' = Undisputed /\ threadOf' = threadOf /\ server' = server
        /\ \A n : FreeThreads(n)' = FreeThreads(n) /\ FreeCores(n)' = FreeCores(n)
        /\ \A s : Held(s)' = Held(s)
    BY <2>1 DEF tables, Undisputed, Placed, FreeThreads, FreeCores, Held
  <2>4. Active' \subseteq Active
    BY <2>1, <2>2 DEF Active
  <2>5. OnlyOne'
    BY <2>1, <2>2, <2>4 DEF OnlyOne, Active
  <2>6. NotTaken'
    BY <2>1, <2>2, <2>3, <2>4 DEF NotTaken, Active
  <2>7. StillEnough'
    <3>1. \A f, n : FreeOf(f, n)' = FreeOf(f, n)
      BY <2>3 DEF FreeOf
    <3>2. QED
      BY <2>2, <2>4, <3>1 DEF StillEnough, Active
  <2>8. ChosenAreGood'
    BY <2>1, <2>2, <2>4 DEF ChosenAreGood, GoodThreads, Active
  <2>9. HeldAreGood'
    BY <2>3 DEF HeldAreGood, GoodThreads
  <2>10. QED
    BY <2>5, <2>6, <2>7, <2>8, <2>9
<1>4. ASSUME NEW h \in HttpThreads, NEW s \in Servers, NewInstance(h, s)
      PROVE  ThreadsInv'
  <2> DEFINE p == plan[h]
  <2>1. /\ p \in Plan /\ plan' = [plan EXCEPT ![h] = NoPlan]
        /\ s \notin Placed /\ Placed' = Placed \cup {s}
        /\ \A r \in Servers : server'[r] = IF r = s THEN Written(p) ELSE server[r]
        /\ \A t \in Threads : threadOf'[t] = IF t \in p.threads THEN s ELSE threadOf[t]
    BY <1>4, NewInstanceFacts
  <2>2. h \in Active /\ p.at # "pin"
    BY <1>4 DEF NewInstance, Ready, Active
  <2>3. /\ plan'[h] = NoPlan
        /\ \A g \in HttpThreads : g # h => plan'[g] = plan[g]
        /\ Active' = Active \ {h}
    BY <2>1 DEF Active, TInv, TypeOK
  <2>4. /\ Written(p).alone = p.alone /\ Written(p).flavor = p.flavor
        /\ Written(p).numa = p.numa
    BY DEF Written
  <2>5. /\ \A r \in Undisputed' : r # s => r \in Undisputed
        /\ s \in Undisputed' => p.alone
        /\ Undisputed' \subseteq Servers
    BY <2>1, <2>4 DEF Undisputed, Placed
  <2>6. OnlyOne'
    BY <2>3 DEF OnlyOne, Active
  <2>7. p.alone => Active' = {}
    BY <2>2, <2>3 DEF OnlyOne
  <2>8. p.threads \subseteq Threads /\ \A t \in Threads : threadOf[t] # s
    <3>1. \A t \in Threads : threadOf[t] \in Placed \cup {NoServer}
      BY DEF TInv, TypeOK
    <3>2. p.threads \subseteq Threads
      BY <2>1 DEF Plan
    <3>3. QED
      BY <2>1, <3>1, <3>2, NullsAreDistinct
  <2>9. NotTaken'
    <3> SUFFICES ASSUME NEW g \in Active', NEW t \in plan'[g].threads
                 PROVE  threadOf'[t] \notin Undisputed'
      BY DEF NotTaken
    <3>1. g \in Active /\ g # h /\ plan'[g] = plan[g] /\ ~p.alone
      BY <2>3, <2>7 DEF Active
    <3>2. t \in Threads /\ threadOf[t] \notin Undisputed
      BY <3>1 DEF NotTaken, TInv, TypeOK, Plan, Active
    <3>3. QED
      BY <2>1, <2>5, <3>1, <3>2
  <2>10. StillEnough'
    <3> SUFFICES ASSUME NEW g \in Active', plan'[g].alone PROVE FALSE
      BY DEF StillEnough
    <3>1. g \in Active /\ g # h /\ plan'[g] = plan[g]
      BY <2>3 DEF Active
    <3>2. QED
      BY <2>2, <3>1 DEF OnlyOne
  <2>11. ChosenAreGood'
    BY <2>3 DEF ChosenAreGood, GoodThreads, Active
  <2>12. HeldAreGood'
    <3> SUFFICES ASSUME NEW r \in Undisputed'
                 PROVE  GoodThreads(server'[r].flavor, server'[r].numa, Held(r)')
      BY DEF HeldAreGood, GoodThreads
    <3>1. CASE r = s
      <4>1. Held(s)' = p.threads
        BY <2>1, <2>8 DEF Held
      <4>2. server'[s] = Written(p) /\ p.alone
        BY <2>1, <2>5, <3>1
      <4>3. GoodThreads(p.flavor, p.numa, p.threads)
        BY <2>2, <4>2 DEF ChosenAreGood
      <4>4. QED
        BY <2>4, <3>1, <4>1, <4>2, <4>3
    <3>2. CASE r # s
      <4>1. r \in Undisputed /\ server'[r] = server[r] /\ r \in Servers
        BY <2>1, <2>5, <3>2
      <4>2. \A t \in p.threads : threadOf[t] # r
        BY <2>2, <4>1 DEF NotTaken
      <4>3. Held(r)' = Held(r)
        BY <2>1, <3>2, <4>2 DEF Held
      <4>4. QED
        BY <4>1, <4>3 DEF HeldAreGood
    <3>3. QED
      BY <3>1, <3>2
  <2>13. QED
    BY <2>6, <2>9, <2>10, <2>11, <2>12
<1>5. ASSUME NEW s \in Servers, DeleteInstance(s)
      PROVE  ThreadsInv'
  <2>1. /\ Placed' = Placed \ {s} /\ plan' = plan /\ Active' = Active
        /\ server' = [server EXCEPT ![s] = NoServer]
        /\ threadOf' = [t \in Threads |-> IF threadOf[t] = s THEN NoServer ELSE threadOf[t]]
    BY <1>5, DeleteTInv DEF DeleteInstance, Active
  <2>2. \A r \in Servers : r # s => server'[r] = server[r]
    BY <2>1 DEF TInv, TypeOK
  <2>3. Undisputed' \subseteq Undisputed \ {s}
    BY <2>1, <2>2 DEF Undisputed, Placed
  <2>4. OnlyOne'
    BY <2>1 DEF OnlyOne
  <2>5. NotTaken'
    <3> SUFFICES ASSUME NEW g \in Active, NEW t \in plan[g].threads
                 PROVE  threadOf'[t] \notin Undisputed'
      BY <2>1 DEF NotTaken
    <3>1. t \in Threads /\ threadOf[t] \notin Undisputed
      BY DEF NotTaken, TInv, TypeOK, Plan, Active
    <3>2. threadOf'[t] = NoServer \/ threadOf'[t] = threadOf[t]
      BY <2>1, <3>1
    <3>3. NoServer \notin Undisputed
      BY NullsAreDistinct DEF Undisputed, Placed
    <3>4. QED
      BY <2>3, <3>1, <3>2, <3>3
  <2>6. \A f, n : FreeOf(f, n) \subseteq FreeOf(f, n)' /\ IsFiniteSet(FreeOf(f, n)')
    <3> SUFFICES ASSUME NEW f, NEW n
                 PROVE  FreeOf(f, n) \subseteq FreeOf(f, n)' /\ IsFiniteSet(FreeOf(f, n)')
      OBVIOUS
    <3>1. FreeThreads(n) \subseteq FreeThreads(n)'
      BY <2>1 DEF FreeThreads
    <3>2. FreeCores(n) \subseteq FreeCores(n)'
      BY <3>1 DEF FreeCores
    <3>3. FreeThreads(n)' \in SUBSET Threads /\ FreeCores(n)' \in SUBSET Cores
      BY DEF FreeThreads, FreeCores
    <3>4. IsFiniteSet(FreeThreads(n)') /\ IsFiniteSet(FreeCores(n)')
      BY <3>3, ThreadsAreFinite, NodesAreTyped, FS_Subset
    <3>5. QED
      BY <3>1, <3>2, <3>4 DEF FreeOf
  <2>7. StillEnough'
    <3> SUFFICES ASSUME NEW g \in Active, plan[g].alone, plan[g].at = "pin"
                 PROVE  (plan[g].flavor.proc_req_nb
                           <= Cardinality(FreeOf(plan[g].flavor, plan[g].numa)))'
      BY <2>1 DEF StillEnough
    <3>0. PICK f, n : f = plan[g].flavor /\ n = plan[g].numa
      OBVIOUS
    <3> DEFINE A == FreeOf(f, n)
               B == FreeOf(f, n)'
    <3>1. A \subseteq B /\ IsFiniteSet(B)
      BY <2>6, Zenon
    <3>2. Cardinality(A) <= Cardinality(B) /\ Cardinality(B) \in Nat /\ Cardinality(A) \in Nat
      <4> HIDE DEF A, B
      <4>1. QED
        BY <3>1, FS_Subset, FS_CardinalityType
    <3>3. plan[g].flavor.proc_req_nb <= Cardinality(A)
      BY <3>0 DEF StillEnough
    <3>4. plan[g].flavor.proc_req_nb \in Nat
      BY FlavorTypes DEF TInv, TypeOK, Plan, Active
    <3> HIDE DEF A, B
    <3>5. plan[g].flavor.proc_req_nb <= Cardinality(B)
      BY <3>2, <3>3, <3>4
    <3>6. QED
      BY <2>1, <3>0, <3>5 DEF B
  <2>8. ChosenAreGood'
    BY <2>1 DEF ChosenAreGood, GoodThreads
  <2>9. HeldAreGood'
    <3> SUFFICES ASSUME NEW r \in Undisputed'
                 PROVE  GoodThreads(server'[r].flavor, server'[r].numa, Held(r)')
      BY DEF HeldAreGood, GoodThreads
    <3>1. r \in Undisputed /\ r # s /\ r \in Servers
      BY <2>3 DEF Undisputed, Placed
    <3>2. Held(r)' = Held(r)
      BY <2>1, <3>1, NullsAreDistinct DEF Held
    <3>3. QED
      BY <2>2, <3>1, <3>2 DEF HeldAreGood
  <2>10. QED
    BY <2>4, <2>5, <2>7, <2>8, <2>9
<1>6. CASE UNCHANGED vars
  <2>1. /\ Undisputed' = Undisputed /\ threadOf' = threadOf /\ server' = server
        /\ \A n : FreeThreads(n)' = FreeThreads(n) /\ FreeCores(n)' = FreeCores(n)
        /\ \A s : Held(s)' = Held(s)
        /\ plan' = plan /\ Active' = Active
    BY <1>6 DEF vars, tables, Undisputed, Placed, FreeThreads, FreeCores, Held, Active
  <2>2. \A f, n : FreeOf(f, n)' = FreeOf(f, n)
    BY <2>1 DEF FreeOf
  <2>3. OnlyOne' /\ NotTaken'
    BY <2>1 DEF OnlyOne, NotTaken
  <2>4. StillEnough'
    BY <2>1, <2>2 DEF StillEnough
  <2>5. ChosenAreGood' /\ HeldAreGood'
    BY <2>1 DEF ChosenAreGood, HeldAreGood, GoodThreads
  <2>6. QED
    BY <2>3, <2>4, <2>5
<1>7. QED
  BY <1>1, <1>2, <1>3, <1>4, <1>5, <1>6 DEF Next

-----------------------------------------------------------------------------
(* Every server keeps its cards and their bandwidth *)

\* The cards of a plan: on its node, ports until their function is picked, no
\* two dedicated on one port, and no two alike among those that are picked.
CardsOf(p) ==
  LET wants(i) == IsPort(p.flavor.interfaces[i]) IN
  /\ \A i \in DOMAIN p.nics :
       /\ NumaOfNic(p.nics[i]) = p.numa
       /\ i > p.picked => p.nics[i] \in Pfs
       /\ i <= p.picked /\ p.nics[i] \in Pfs => wants(i)
       /\ wants(i) => p.flavor.interfaces[i].bandwidth <= Speed[Root(p.nics[i])]
  /\ \A i, j \in DOMAIN p.nics : i # j =>
       /\ wants(i) /\ wants(j) => Root(p.nics[i]) # Root(p.nics[j])
       /\ i <= p.picked /\ j <= p.picked => p.nics[i] # p.nics[j]

CardsInv == (\A h \in Active : CardsOf(plan[h])) /\ (\A s \in Placed : HasItsCards(s))

LEMMA AtMostOne ==
  ASSUME NEW S, IsFiniteSet(S), Cardinality(S) <= 1, NEW a \in S, NEW b \in S
  PROVE  a = b
<1>1. Cardinality(S) \in Nat
  BY FS_CardinalityType
<1>2. Cardinality(S) # 0
  BY FS_EmptySet
<1>3. Cardinality(S) = 1
  BY <1>1, <1>2
<1>4. \E x : S = {x}
  BY <1>3, FS_Singleton
<1>5. QED
  BY <1>4

LEMMA SameLen ==
  ASSUME NEW S, NEW T, NEW s \in Seq(S), NEW t \in Seq(T)
  PROVE  Len(s) = Len(t) <=> DOMAIN s = DOMAIN t
<1>1. /\ DOMAIN s = 1..Len(s) /\ Len(s) \in Nat
      /\ DOMAIN t = 1..Len(t) /\ Len(t) \in Nat
  OBVIOUS
<1>2. ASSUME NEW m \in Nat, NEW n \in Nat, 1..m = 1..n PROVE m = n
  <2>1. m > n => m \in 1..m /\ m \notin 1..n
    OBVIOUS
  <2>2. n > m => n \in 1..n /\ n \notin 1..m
    OBVIOUS
  <2>3. QED
    BY <1>2, <2>1, <2>2
<1>3. QED
  BY <1>1, <1>2

\* The choice of the ports.
LEMMA StartedCards ==
  ASSUME NEW h \in HttpThreads, NEW f \in Flavors, NEW p \in Plan, Started(h, f, p)
  PROVE  CardsOf(p)
<1>1. /\ p.flavor = f /\ p.picked = 0 /\ p.nics \in [DOMAIN f.interfaces -> Pfs]
      /\ PortsFit(p.numa, f, p.nics)
  BY DEF Started, NumaFits
<1>2. /\ f.interfaces \in Seq(Iface)
      /\ DOMAIN p.nics = 1..Len(f.interfaces) /\ Len(f.interfaces) \in Nat
  BY <1>1, FlavorTypes
<1>3. \A i \in DOMAIN p.nics : p.nics[i] \in Pfs /\ Root(p.nics[i]) = p.nics[i]
  BY <1>1, NicsAndRoots
<1>4. ASSUME NEW i \in DOMAIN p.nics
      PROVE  /\ NumaOfNic(p.nics[i]) = p.numa
             /\ IsPort(f.interfaces[i]) => f.interfaces[i].bandwidth <= Speed[p.nics[i]]
  BY <1>1, <1>3 DEF PortsFit, NumaOfNic
<1>5. ASSUME NEW i \in DOMAIN p.nics, NEW j \in DOMAIN p.nics, i # j,
             IsPort(f.interfaces[i]), IsPort(f.interfaces[j])
      PROVE  p.nics[i] # p.nics[j]
  <2> SUFFICES ASSUME p.nics[i] = p.nics[j] PROVE FALSE
    OBVIOUS
  <2> DEFINE on == PortsOn(f, p.nics, p.nics[i])
  <2>1. Cardinality(on) <= 1
    BY <1>1, <1>3 DEF PortsFit
  <2>2. on \in SUBSET (1..Len(f.interfaces)) /\ i \in on /\ j \in on
    BY <1>2, <1>5 DEF PortsOn
  <2>3. IsFiniteSet(1..Len(f.interfaces))
    BY <1>2, FS_Interval
  <2>4. IsFiniteSet(on)
    BY <2>2, <2>3, FS_Subset
  <2> HIDE DEF on
  <2>5. QED
    BY <1>5, <2>1, <2>2, <2>4, AtMostOne
<1>6. \A i \in DOMAIN p.nics : i \in Nat /\ i > 0
  BY <1>2
<1>7. QED
  BY <1>1, <1>3, <1>4, <1>5, <1>6 DEF CardsOf

\* The choice of a function.
LEMMA PickedCards ==
  ASSUME TInv, NEW h \in HttpThreads, PickNic(h), CardsOf(plan[h])
  PROVE  CardsOf(plan'[h])
<1> DEFINE p == plan[h]
           i == p.picked + 1
<1>1. p \in Plan /\ i \in DOMAIN p.nics /\ DOMAIN p.nics = DOMAIN p.flavor.interfaces
  BY PickNicFacts
<1>2. PICK q \in Plan :
        /\ plan' = [plan EXCEPT ![h] = q]
        /\ q.flavor = p.flavor /\ q.numa = p.numa /\ q.picked = i
        /\ \/ p.flavor.interfaces[i].dedicated = "yes" /\ q.nics = p.nics
           \/ \E vf \in Candidates(h) : q.nics = [p.nics EXCEPT ![i] = vf]
  BY PickNicFacts
<1>3. plan'[h] = q
  BY <1>2 DEF TInv, TypeOK
<1>4. /\ p.picked \in Nat
      /\ \A j \in DOMAIN p.nics : j \in Nat /\ j > 0 /\ p.nics[j] \in Nics
  BY <1>1 DEF Plan
<1>5. p.nics[i] \in Pfs /\ i > p.picked
  BY <1>1, <1>4 DEF CardsOf
<1>6. ASSUME p.flavor.interfaces[i].dedicated = "yes", q.nics = p.nics
      PROVE  CardsOf(q)
  <2>1. IsPort(p.flavor.interfaces[i])
    BY <1>6 DEF IsPort
  <2>2. \A j \in DOMAIN p.nics : j # i /\ j <= p.picked => p.nics[j] # p.nics[i]
    BY <1>1, <1>5, <2>1, NicsAndRoots DEF CardsOf
  <2>3. \A j \in DOMAIN p.nics :
          /\ j > i => j > p.picked
          /\ j <= i => j = i \/ j <= p.picked
    BY <1>4
  <2> DEFINE wants(j) == IsPort(p.flavor.interfaces[j])
  <2>4. /\ q.numa = p.numa /\ q.picked = i /\ q.nics = p.nics /\ q.flavor = p.flavor
        /\ \A j \in DOMAIN p.nics : j \in Nat
    BY <1>2, <1>4, <1>6
  <2>5. ASSUME NEW j \in DOMAIN p.nics
        PROVE  /\ NumaOfNic(p.nics[j]) = p.numa
               /\ j > i => p.nics[j] \in Pfs
               /\ j <= i /\ p.nics[j] \in Pfs => wants(j)
               /\ wants(j) => p.flavor.interfaces[j].bandwidth <= Speed[Root(p.nics[j])]
    <3>1. /\ NumaOfNic(p.nics[j]) = p.numa
          /\ j > p.picked => p.nics[j] \in Pfs
          /\ j <= p.picked /\ p.nics[j] \in Pfs => wants(j)
          /\ wants(j) => p.flavor.interfaces[j].bandwidth <= Speed[Root(p.nics[j])]
      BY DEF CardsOf
    <3>2. QED
      BY <2>1, <2>3, <3>1
  <2>6. ASSUME NEW j \in DOMAIN p.nics, NEW k \in DOMAIN p.nics, j # k
        PROVE  /\ wants(j) /\ wants(k) => Root(p.nics[j]) # Root(p.nics[k])
               /\ j <= i /\ k <= i => p.nics[j] # p.nics[k]
    <3>1. /\ wants(j) /\ wants(k) => Root(p.nics[j]) # Root(p.nics[k])
          /\ j <= p.picked /\ k <= p.picked => p.nics[j] # p.nics[k]
      BY <2>6 DEF CardsOf
    <3>2. QED
      BY <2>2, <2>3, <2>6, <3>1
  <2>7. QED
    BY <2>4, <2>5, <2>6 DEF CardsOf
<1>7. ASSUME NEW vf \in Candidates(h), q.nics = [p.nics EXCEPT ![i] = vf]
      PROVE  CardsOf(q)
  <2>1. vf \in Vfs /\ RootOf[vf] = p.nics[i] /\ \A j \in 1..p.picked : p.nics[j] # vf
    BY DEF Candidates, VfsOf
  <2>2. /\ vf \notin Pfs /\ Root(vf) = Root(p.nics[i]) /\ NumaOfNic(vf) = NumaOfNic(p.nics[i])
    BY <1>5, <2>1, NicsAndRoots DEF NumaOfNic
  <2>3. /\ DOMAIN q.nics = DOMAIN p.nics /\ q.nics[i] = vf
        /\ \A j \in DOMAIN p.nics : j # i => q.nics[j] = p.nics[j]
    BY <1>1, <1>7
  <2>4. \A j \in DOMAIN p.nics :
          /\ Root(q.nics[j]) = Root(p.nics[j]) /\ NumaOfNic(q.nics[j]) = NumaOfNic(p.nics[j])
    BY <2>2, <2>3
  <2>5. \A j \in DOMAIN p.nics :
          /\ j > i => j > p.picked
          /\ j <= i => j = i \/ j <= p.picked
          /\ j <= p.picked => q.nics[j] # vf \/ j = i
    BY <1>4, <2>1, <2>3
  <2> DEFINE wants(j) == IsPort(p.flavor.interfaces[j])
  <2>6. ASSUME NEW j \in DOMAIN p.nics
        PROVE  /\ NumaOfNic(q.nics[j]) = q.numa
               /\ j > q.picked => q.nics[j] \in Pfs
               /\ j <= q.picked /\ q.nics[j] \in Pfs => wants(j)
               /\ wants(j) => p.flavor.interfaces[j].bandwidth <= Speed[Root(q.nics[j])]
    <3>1. /\ NumaOfNic(p.nics[j]) = p.numa
          /\ j > p.picked => p.nics[j] \in Pfs
          /\ j <= p.picked /\ p.nics[j] \in Pfs => wants(j)
          /\ wants(j) => p.flavor.interfaces[j].bandwidth <= Speed[Root(p.nics[j])]
      BY DEF CardsOf
    <3>2. Root(q.nics[j]) = Root(p.nics[j]) /\ NumaOfNic(q.nics[j]) = q.numa
      BY <1>2, <2>4, <3>1
    <3>3. CASE j = i
      <4>1. q.nics[j] \notin Pfs /\ ~(j > q.picked)
        BY <1>2, <1>4, <2>2, <2>3, <3>3
      <4>2. wants(j) => p.flavor.interfaces[j].bandwidth <= Speed[Root(q.nics[j])]
        BY <3>1, <3>2
      <4>3. QED
        BY <3>2, <4>1, <4>2
    <3>4. CASE j # i
      BY <1>2, <2>3, <2>5, <3>1, <3>2, <3>4
    <3>5. QED
      BY <3>3, <3>4
  <2>7. ASSUME NEW j \in DOMAIN p.nics, NEW k \in DOMAIN p.nics, j # k
        PROVE  /\ wants(j) /\ wants(k) => Root(q.nics[j]) # Root(q.nics[k])
               /\ j <= q.picked /\ k <= q.picked => q.nics[j] # q.nics[k]
    <3>1. /\ wants(j) /\ wants(k) => Root(p.nics[j]) # Root(p.nics[k])
          /\ j <= p.picked /\ k <= p.picked => p.nics[j] # p.nics[k]
      BY <2>7 DEF CardsOf
    <3>2. QED
      BY <1>2, <2>3, <2>4, <2>5, <2>7, <3>1
  <2>8. QED
    BY <1>2, <2>3, <2>6, <2>7 DEF CardsOf
<1>8. QED
  BY <1>2, <1>3, <1>6, <1>7

\* A new server is charged for each card at least what it asks for.
\* The interfaces of a plan on a port, and what each is charged.
On(p, pf) == {i \in DOMAIN p.nics : Root(p.nics[i]) = pf}
ChargesOf(p) == [i \in DOMAIN p.nics |-> Charge(p.flavor, p.nics, i)]

\* A new server is charged for what was chosen, and nobody else for anything.
LEMMA NewCharges ==
  ASSUME TInv, CardsInv, NEW h \in HttpThreads, NEW s \in Servers, NewInstance(h, s)
  PROVE  /\ h \in Active /\ plan[h] \in Plan
         /\ DOMAIN plan[h].nics = DOMAIN plan[h].flavor.interfaces
         /\ \A i, j \in DOMAIN plan[h].nics : plan[h].nics[i] = plan[h].nics[j] => i = j
         /\ \A i \in DOMAIN plan[h].nics :
              /\ plan[h].nics[i] \in Nics /\ nicOf[plan[h].nics[i]] = NoServer
              /\ nicOf'[plan[h].nics[i]] = s
              /\ nicUsed'[plan[h].nics[i]] = ChargesOf(plan[h])[i]
         /\ \A nic \in Nics \ ChosenNics(plan[h]) :
              nicUsed'[nic] = nicUsed[nic] /\ nicOf'[nic] = nicOf[nic]
<1> DEFINE p == plan[h]
<1>1. p \in Plan /\ Ready(h)
  BY NewInstanceFacts
<1>2. h \in Active /\ DOMAIN p.nics = DOMAIN p.flavor.interfaces /\ CardsOf(p)
  BY <1>1 DEF Ready, Active, TInv, PlansAreShaped, CardsInv
<1>3. /\ p.flavor.interfaces \in Seq(Iface)
      /\ DOMAIN p.nics = 1..Len(p.flavor.interfaces)
  BY <1>1, <1>2, FlavorTypes DEF Plan
<1>4. \A i \in DOMAIN p.nics : i <= p.picked
  <2>1. CASE p.at = "insert"
    <3>1. p.nics = << >>
      BY <2>1, <1>2 DEF TInv, PlansAreShaped
    <3>2. QED
      BY <3>1
  <2>2. CASE p.at # "insert"
    <3>1. p.picked = Len(p.flavor.interfaces)
      BY <1>1, <2>2 DEF Ready
    <3>2. QED
      BY <1>3, <3>1
  <2>3. QED
    BY <2>1, <2>2
<1>5. \A i, j \in DOMAIN p.nics : p.nics[i] = p.nics[j] => i = j
  BY <1>2, <1>4 DEF CardsOf
<1>6. ASSUME NEW i \in DOMAIN p.nics
      PROVE  /\ p.nics[i] \in Nics /\ nicOf[p.nics[i]] = NoServer /\ nicOf'[p.nics[i]] = s
             /\ nicUsed'[p.nics[i]] = ChargesOf(p)[i]
  <2>1. (CHOOSE j \in DOMAIN p.nics : p.nics[j] = p.nics[i]) = i
    BY <1>5
  <2>2. p.nics[i] \in Nics /\ p.nics[i] \in ChosenNics(p)
    BY <1>1, <1>2, ChargeType DEF ChosenNics
  <2>3. nicUsed'[p.nics[i]] = Charge(p.flavor, p.nics, i)
    BY <2>1, <2>2 DEF NewInstance
  <2>4. QED
    BY <2>2, <2>3 DEF NewInstance, MacsAreNew, ChargesOf
<1>7. \A nic \in Nics \ ChosenNics(p) : nicUsed'[nic] = nicUsed[nic] /\ nicOf'[nic] = nicOf[nic]
  BY DEF NewInstance
<1>8. QED
  BY <1>1, <1>2, <1>5, <1>6, <1>7

LEMMA NewCards ==
  ASSUME TInv, CardsInv, NEW h \in HttpThreads, NEW s \in Servers, NewInstance(h, s)
  PROVE  HasItsCards(s)'
<1> DEFINE p == plan[h]
<1>1. /\ h \in Active /\ p \in Plan /\ DOMAIN p.nics = DOMAIN p.flavor.interfaces
      /\ \A i \in DOMAIN p.nics : nicUsed'[p.nics[i]] = ChargesOf(p)[i]
      /\ server'[s] = Written(p)
  BY NewCharges, NewInstanceFacts
<1>2. /\ Written(p).nics = p.nics /\ Written(p).flavor = p.flavor /\ Written(p).numa = p.numa
  BY DEF Written
<1>3. Len(p.nics) = Len(p.flavor.interfaces)
  BY <1>1, FlavorTypes, SameLen DEF Plan
<1>4. CardsOf(p)
  BY <1>1 DEF CardsInv
<1>5. ASSUME NEW i \in DOMAIN p.nics
      PROVE  /\ NumaOfNic(p.nics[i]) = p.numa
             /\ nicUsed'[p.nics[i]] >= p.flavor.interfaces[i].bandwidth
  <2>1. p.nics[i] \in Nics /\ p.flavor.interfaces[i] \in Iface
    BY <1>1, ChargeType
  <2>2. p.flavor.interfaces[i].bandwidth \in Nat /\ Speed[Root(p.nics[i])] \in Nat
    BY <2>1, NicsAndRoots DEF Iface
  <2>3. nicUsed'[p.nics[i]] = Charge(p.flavor, p.nics, i)
    BY <1>1 DEF ChargesOf
  <2>4. NumaOfNic(p.nics[i]) = p.numa
    BY <1>4 DEF CardsOf
  <2>5. IsPort(p.flavor.interfaces[i]) =>
          p.flavor.interfaces[i].bandwidth <= Speed[Root(p.nics[i])]
    BY <1>4 DEF CardsOf
  <2>6. QED
    BY <2>2, <2>3, <2>4, <2>5 DEF Charge
<1>6. QED
  BY <1>1, <1>2, <1>3, <1>5 DEF HasItsCards

\* A card in the ports of a server.
LEMMA HeldCard ==
  ASSUME TInv, CardsAreOwn, CardsInv, NEW r \in Placed,
         NEW i \in DOMAIN server[r].flavor.interfaces
  PROVE  /\ server[r].nics[i] \in Nics /\ i \in DOMAIN server[r].nics
         /\ nicOf[server[r].nics[i]] = r
<1>1. r \in Servers /\ server[r] \in Row
  BY DEF Placed, TInv, TypeOK
<1>2. server[r].nics \in Seq(Nics) /\ server[r].flavor.interfaces \in Seq(Iface)
  BY <1>1, FlavorTypes DEF Row
<1>3. DOMAIN server[r].nics = DOMAIN server[r].flavor.interfaces
  BY <1>2, SameLen DEF CardsInv, HasItsCards
<1>4. server[r].nics[i] \in Nics
  BY <1>2, <1>3
<1>5. QED
  BY <1>1, <1>3, <1>4 DEF CardsAreOwn

LEMMA NextCards ==
  ASSUME TInv, CardsAreOwn, CardsInv, [Next]_vars
  PROVE  CardsInv'
<1>1. ASSUME UNCHANGED tables PROVE \A s \in Placed' : HasItsCards(s)'
  BY <1>1 DEF CardsInv, HasItsCards, tables, Placed
<1>2. ASSUME NEW h \in HttpThreads, NEW f \in Flavors, ChooseNuma(h, f)
      PROVE  CardsInv'
  <2>1. PICK p \in Plan : Started(h, f, p)
    BY <1>2, ChooseNumaFacts
  <2>2. CardsOf(p)
    BY <2>1, StartedCards
  <2>3. ASSUME NEW g \in Active' PROVE CardsOf(plan'[g])
    <3>1. CASE g = h
      BY <2>1, <2>2, <3>1 DEF Started
    <3>2. CASE g # h
      <4>1. /\ g \in Active /\ plan[g] \in Plan
            /\ plan'[g] = [plan[g] EXCEPT !.alone = FALSE]
        BY <2>1, <3>2 DEF Started, Active
      <4>2. /\ plan'[g].nics = plan[g].nics /\ plan'[g].flavor = plan[g].flavor
            /\ plan'[g].numa = plan[g].numa /\ plan'[g].picked = plan[g].picked
        BY <4>1 DEF Plan
      <4>3. CardsOf(plan[g])
        BY <4>1 DEF CardsInv
      <4>4. QED
        BY <4>2, <4>3 DEF CardsOf
    <3>3. QED
      BY <3>1, <3>2
  <2>4. UNCHANGED tables
    BY <1>2, ChooseNumaFacts
  <2>5. QED
    BY <1>1, <2>3, <2>4 DEF CardsInv, CardsOf
<1>3. ASSUME NEW h \in HttpThreads, Pin(h)
      PROVE  CardsInv'
  <2>1. UNCHANGED tables /\ h \in Active
    BY <1>3, PinFacts DEF Active
  <2>2. PICK q \in Plan :
          /\ plan' = [plan EXCEPT ![h] = q]
          /\ q.nics = plan[h].nics /\ q.flavor = plan[h].flavor /\ q.numa = plan[h].numa
          /\ q.picked = plan[h].picked
    BY <1>3, PinFacts
  <2>3. CardsOf(q)
    BY <2>1, <2>2 DEF CardsInv, CardsOf
  <2>4. plan'[h] = q /\ \A g \in HttpThreads : g # h => plan'[g] = plan[g]
    BY <2>2 DEF TInv, TypeOK
  <2>5. \A g \in Active' : CardsOf(plan'[g])
    BY <2>3, <2>4 DEF CardsInv, Active
  <2>6. QED
    BY <1>1, <2>1, <2>5 DEF CardsInv, CardsOf
<1>4. ASSUME NEW h \in HttpThreads, PickNic(h)
      PROVE  CardsInv'
  <2>1. UNCHANGED tables /\ h \in Active
    BY <1>4, PickNicFacts DEF Active
  <2>2. CardsOf(plan'[h])
    BY <1>4, <2>1, PickedCards DEF CardsInv
  <2>3. \A g \in HttpThreads : g # h => plan'[g] = plan[g]
    <3>1. PICK q \in Plan : plan' = [plan EXCEPT ![h] = q]
      BY <1>4, PickNicFacts
    <3>2. QED
      BY <3>1 DEF TInv, TypeOK
  <2>4. \A g \in Active' : CardsOf(plan'[g])
    BY <2>2, <2>3 DEF CardsInv, Active
  <2>5. QED
    BY <1>1, <2>1, <2>4 DEF CardsInv, CardsOf
<1>5. ASSUME NEW h \in HttpThreads, Abort(h)
      PROVE  CardsInv'
  <2>1. UNCHANGED tables /\ plan' = [plan EXCEPT ![h] = NoPlan]
    BY <1>5 DEF Abort
  <2>2. \A g \in Active' : g \in Active /\ plan'[g] = plan[g]
    BY <2>1 DEF Active, TInv, TypeOK
  <2>3. \A g \in Active' : CardsOf(plan'[g])
    BY <2>2 DEF CardsInv
  <2>4. QED
    BY <1>1, <2>1, <2>3 DEF CardsInv, CardsOf
<1>6. ASSUME NEW h \in HttpThreads, NEW s \in Servers, NewInstance(h, s)
      PROVE  CardsInv'
  <2>1. /\ plan' = [plan EXCEPT ![h] = NoPlan]
        /\ s \notin Placed /\ Placed' = Placed \cup {s}
        /\ \A r \in Servers : server'[r] = IF r = s THEN Written(plan[h]) ELSE server[r]
    BY <1>6, NewInstanceFacts
  <2>2. \A g \in Active' : g \in Active /\ plan'[g] = plan[g]
    BY <2>1 DEF Active, TInv, TypeOK
  <2>3. \A g \in Active' : CardsOf(plan'[g])
    BY <2>2 DEF CardsInv
  <2>4. ASSUME NEW r \in Placed' PROVE HasItsCards(r)'
    <3>1. CASE r = s
      BY <1>6, <3>1, NewCards
    <3>2. CASE r # s
      <4>1. r \in Placed /\ r \in Servers /\ server'[r] = server[r]
        BY <2>1, <3>2 DEF Placed
      <4>2. HasItsCards(r)
        BY <4>1 DEF CardsInv
      <4>3. \A nic \in Nics : nicOf[nic] = r => nicUsed'[nic] = nicUsed[nic]
        BY <1>6, <4>1, NullsAreDistinct DEF NewInstance, MacsAreNew
      <4>4. \A i \in DOMAIN server[r].flavor.interfaces :
              nicUsed'[server[r].nics[i]] = nicUsed[server[r].nics[i]]
        BY <4>1, <4>3, HeldCard
      <4>5. QED
        BY <4>1, <4>2, <4>4 DEF HasItsCards
    <3>3. QED
      BY <3>1, <3>2
  <2>5. QED
    BY <2>3, <2>4 DEF CardsInv, CardsOf
<1>7. ASSUME NEW s \in Servers, DeleteInstance(s)
      PROVE  CardsInv'
  <2>1. /\ Placed' = Placed \ {s} /\ plan' = plan /\ Active' = Active
        /\ server' = [server EXCEPT ![s] = NoServer]
        /\ nicUsed' = [nic \in Nics |-> IF nicOf[nic] = s THEN 0 ELSE nicUsed[nic]]
    BY <1>7, DeleteTInv DEF DeleteInstance, Active
  <2>2. ASSUME NEW r \in Placed' PROVE HasItsCards(r)'
    <3>1. r \in Placed /\ r # s /\ server'[r] = server[r]
      BY <2>1 DEF Placed, TInv, TypeOK
    <3>2. HasItsCards(r)
      BY <3>1 DEF CardsInv
    <3>3. \A i \in DOMAIN server[r].flavor.interfaces :
            nicUsed'[server[r].nics[i]] = nicUsed[server[r].nics[i]]
      BY <2>1, <3>1, HeldCard
    <3>4. QED
      BY <3>1, <3>2, <3>3 DEF HasItsCards
  <2>3. QED
    BY <2>1, <2>2 DEF CardsInv, CardsOf
<1>8. CASE UNCHANGED vars
  <2>1. UNCHANGED tables /\ plan' = plan /\ Active' = Active
    BY <1>8 DEF vars, Active
  <2>2. QED
    BY <1>1, <2>1 DEF CardsInv, CardsOf
<1>9. QED
  BY <1>2, <1>3, <1>4, <1>5, <1>6, <1>7, <1>8 DEF Next

\* A server created alone has for as long as it exists what its flavor asks for,
\* whatever is created, concurrently or not, and deleted in the meantime.
THEOREM UndisputedStayEntitled == Spec => []UndisputedAreEntitled
<1> DEFINE Inv == TInv /\ CardsAreOwn /\ ThreadsInv /\ CardsInv
<1>1. Init => Inv
  <2> SUFFICES ASSUME Init PROVE Inv
    OBVIOUS
  <2>1. Active = {} /\ Placed = {} /\ Undisputed = {}
    BY DEF Init, Active, Placed, Undisputed
  <2>2. CardsAreOwn
    BY NullsAreDistinct DEF Init, CardsAreOwn, Placed
  <2>3. ThreadsInv
    BY <2>1 DEF ThreadsInv, OnlyOne, NotTaken, StillEnough, ChosenAreGood, HeldAreGood
  <2>4. CardsInv
    BY <2>1 DEF CardsInv
  <2>5. QED
    BY <2>2, <2>3, <2>4, InitTInv
<1>2. Inv /\ [Next]_vars => Inv'
  BY NextTInv, CardsSteps, NextThreads, NextCards
<1>3. Inv => UndisputedAreEntitled
  BY DEF ThreadsInv, HeldAreGood, GoodThreads, Held, CardsInv, Undisputed,
         UndisputedAreEntitled, Entitled, HasItsThreads
<1>4. QED
  BY <1>1, <1>2, <1>3, PTL DEF Spec

-----------------------------------------------------------------------------
(* Sums *)

\* Induction over numbers and over the subsets of a finite set, for a set of
\* numbers or of subsets instead of a predicate.
LEMMA LessThan == OpToRel(<, Nat) = {p \in Nat \X Nat : p[1] < p[2]}
BY DEF OpToRel

LEMMA LeastNumber ==
  ASSUME NEW T, T \subseteq Nat, T # {}
  PROVE  \E x \in T : \A y \in T : x <= y
<1>1. \E x \in T : \A y \in T : ~(<<y, x>> \in OpToRel(<, Nat))
  BY WFMin, NatLessThanWellFounded
<1>2. PICK x \in T : \A y \in T : ~(<<y, x>> \in {p \in Nat \X Nat : p[1] < p[2]})
  BY <1>1, LessThan
<1>3. \A y \in T : ~(y < x)
  BY <1>2
<1>4. QED
  BY <1>3

LEMMA NumberInduction ==
  ASSUME NEW T, 0 \in T, \A n \in Nat : n \in T => n + 1 \in T
  PROVE  \A n \in Nat : n \in T
<1> SUFFICES ASSUME Nat \ T # {} PROVE FALSE
  OBVIOUS
<1>1. PICK x \in Nat \ T : \A y \in Nat \ T : x <= y
  BY LeastNumber
<1>2. x # 0 /\ x - 1 \in Nat /\ x - 1 \in T
  BY <1>1
<1>3. QED
  BY <1>1, <1>2

LEMMA Removal ==
  ASSUME NEW S, IsFiniteSet(S), NEW T \in SUBSET S
  PROVE  /\ IsFiniteSet(T) /\ Cardinality(T) \in Nat
         /\ Cardinality(T) = 0 <=> T = {}
         /\ \A x \in T : T \ {x} \in SUBSET S /\ Cardinality(T \ {x}) = Cardinality(T) - 1
BY FS_Subset, FS_CardinalityType, FS_EmptySet, FS_RemoveElement

LEMMA SubsetInduction ==
  ASSUME NEW S, IsFiniteSet(S), NEW G, {} \in G,
         \A T \in SUBSET S : T # {} /\ (\A x \in T : T \ {x} \in G) => T \in G
  PROVE  \A T \in SUBSET S : T \in G
<1> DEFINE N == {n \in Nat : \A T \in SUBSET S : Cardinality(T) = n => T \in G}
<1>1. 0 \in N
  BY Removal
<1>2. ASSUME NEW n \in Nat, n \in N PROVE n + 1 \in N
  <2> SUFFICES ASSUME NEW T \in SUBSET S, Cardinality(T) = n + 1 PROVE T \in G
    OBVIOUS
  <2>1. T # {} /\ \A x \in T : T \ {x} \in SUBSET S /\ Cardinality(T \ {x}) = n
    BY Removal
  <2>2. QED
    BY <1>2, <2>1
<1>3. \A T \in SUBSET S : Cardinality(T) \in Nat
  BY Removal
<1>4. \A n \in Nat : n \in N
  <2> HIDE DEF N
  <2>1. QED
    BY <1>1, <1>2, NumberInduction
<1>5. QED
  BY <1>3, <1>4

Some(s) == CHOOSE x \in s : TRUE

\* The recursion of SumFunctionOnSet over the subsets of S.
Sums(f, S, g) ==
  g = [s \in SUBSET S |-> IF s = {} THEN 0 ELSE f[Some(s)] + g[s \ {Some(s)}]]

LEMMA SumUnfolded ==
  ASSUME NEW f, NEW S, NEW g, Sums(f, S, g)
  PROVE  \E iter : Sums(f, S, iter) /\ Total(f, S) = iter[S]
BY DEF Total, SumFunctionOnSet, FoldFunctionOnSet, MapThenFoldSet, Some, Sums

UpTo(S, n) == {s \in SUBSET S : Cardinality(s) <= n}
Stepped(f, g, s) == IF s = {} THEN 0 ELSE f[Some(s)] + g[s \ {Some(s)}]

LEMMA SumsExist ==
  ASSUME NEW f, NEW S, IsFiniteSet(S)
  PROVE  \E g : Sums(f, S, g)
<1> DEFINE Good(n) == \E g : \A s \in UpTo(S, n) : g[s] = Stepped(f, g, s)
           N == {n \in Nat : Good(n)}
<1>0. \A s \in SUBSET S : s # {} => Some(s) \in s
  BY DEF Some
<1>1. 0 \in N
  <2> DEFINE g == [s \in UpTo(S, 0) |-> 0]
  <2>1. \A s \in UpTo(S, 0) : s = {}
    BY Removal DEF UpTo
  <2>2. \A s \in UpTo(S, 0) : g[s] = Stepped(f, g, s)
    BY <2>1 DEF Stepped
  <2>3. QED
    BY <2>2
<1>2. ASSUME NEW n \in Nat, n \in N PROVE n + 1 \in N
  <2>1. PICK g : \A s \in UpTo(S, n) : g[s] = Stepped(f, g, s)
    BY <1>2
  <2> DEFINE k == [s \in UpTo(S, n + 1) |-> IF s \in UpTo(S, n) THEN g[s] ELSE Stepped(f, g, s)]
  <2>2. \A s \in UpTo(S, n + 1) : s # {} => s \ {Some(s)} \in UpTo(S, n)
    BY <1>0, Removal DEF UpTo
  <2>3. UpTo(S, n) \subseteq UpTo(S, n + 1)
    BY Removal DEF UpTo
  <2>4. \A s \in UpTo(S, n) : k[s] = g[s]
    BY <2>3
  <2>5. \A s \in UpTo(S, n + 1) : k[s] = Stepped(f, g, s)
    BY <2>1
  <2> HIDE DEF k
  <2>6. \A s \in UpTo(S, n + 1) : Stepped(f, k, s) = Stepped(f, g, s)
    BY <2>2, <2>4 DEF Stepped
  <2>7. Good(n + 1)
    BY <2>5, <2>6
  <2>8. QED
    BY <2>7
<1>3. \A n \in Nat : n \in N
  <2> HIDE DEF N
  <2>1. QED
    BY <1>1, <1>2, NumberInduction
<1>4. Cardinality(S) \in Nat /\ UpTo(S, Cardinality(S)) = SUBSET S
  BY Removal, FS_CardinalityType, FS_Subset DEF UpTo
<1>5. PICK g : \A s \in SUBSET S : g[s] = Stepped(f, g, s)
  BY <1>3, <1>4
<1> DEFINE k == [s \in SUBSET S |-> g[s]]
<1>6. \A s \in SUBSET S : k[s] = g[s] /\ Stepped(f, k, s) = Stepped(f, g, s)
  BY <1>0 DEF Stepped
<1>7. k = [s \in SUBSET S |-> Stepped(f, k, s)]
  BY <1>5, <1>6
<1> HIDE DEF k
<1>8. QED
  BY <1>7 DEF Sums, Stepped

LEMMA SumsAgree ==
  ASSUME NEW f, NEW S, IsFiniteSet(S), NEW T \in SUBSET S, NEW g, NEW k,
         Sums(f, S, g), Sums(f, T, k)
  PROVE  g[T] = k[T]
<1> DEFINE G == {t \in SUBSET T : g[t] = k[t]}
<1>1. IsFiniteSet(T)
  BY FS_Subset
<1>2. /\ \A t \in SUBSET S : g[t] = IF t = {} THEN 0 ELSE f[Some(t)] + g[t \ {Some(t)}]
      /\ \A t \in SUBSET T : k[t] = IF t = {} THEN 0 ELSE f[Some(t)] + k[t \ {Some(t)}]
  BY DEF Sums
<1>3. {} \in G
  BY <1>2
<1>4. ASSUME NEW t \in SUBSET T, t # {}, \A x \in t : t \ {x} \in G
      PROVE  t \in G
  <2>1. Some(t) \in t
    BY <1>4 DEF Some
  <2>2. g[t \ {Some(t)}] = k[t \ {Some(t)}]
    BY <1>4, <2>1
  <2>3. QED
    BY <1>2, <1>4, <2>2
<1>5. T \in G
  <2> HIDE DEF G
  <2>1. QED
    BY <1>1, <1>3, <1>4, SubsetInduction
<1>6. QED
  BY <1>5

LEMMA SumStep ==
  ASSUME NEW f, NEW S, IsFiniteSet(S)
  PROVE  Total(f, S) = IF S = {} THEN 0 ELSE f[Some(S)] + Total(f, S \ {Some(S)})
<1> DEFINE T == S \ {Some(S)}
<1>1. IsFiniteSet(T) /\ T \in SUBSET S
  BY FS_RemoveElement
<1>2. PICK g : Sums(f, S, g) /\ Total(f, S) = g[S]
  BY SumsExist, SumUnfolded
<1>3. PICK k : Sums(f, T, k) /\ Total(f, T) = k[T]
  BY <1>1, SumsExist, SumUnfolded
<1>4. g[T] = k[T]
  <2> HIDE DEF T
  <2>1. QED
    BY <1>1, <1>2, <1>3, SumsAgree
<1>5. S \in SUBSET S
  OBVIOUS
<1>6. g[S] = IF S = {} THEN 0 ELSE f[Some(S)] + g[T]
  BY <1>2, <1>5 DEF Sums
<1>7. QED
  BY <1>2, <1>3, <1>4, <1>6

Numbers(f, S) == \A x \in S : f[x] \in Nat

LEMMA SumOfNone == \A f : Total(f, {}) = 0
BY SumStep, FS_EmptySet

\* A sum is a number, and any element may be taken first.
LEMMA SumType ==
  ASSUME NEW f, NEW S, IsFiniteSet(S), Numbers(f, S)
  PROVE  \A T \in SUBSET S : Total(f, T) \in Nat
<1> DEFINE G == {T \in SUBSET S : Total(f, T) \in Nat}
<1>1. {} \in G
  BY SumOfNone
<1>2. ASSUME NEW T \in SUBSET S, T # {}, \A x \in T : T \ {x} \in G
      PROVE  T \in G
  <2>1. Some(T) \in T /\ f[Some(T)] \in Nat
    BY <1>2 DEF Some, Numbers
  <2>2. Total(f, T) = f[Some(T)] + Total(f, T \ {Some(T)})
    BY <1>2, SumStep, FS_Subset
  <2>3. QED
    BY <1>2, <2>1, <2>2
<1>3. \A T \in SUBSET S : T \in G
  <2> HIDE DEF G
  <2>1. QED
    BY <1>1, <1>2, SubsetInduction
<1>4. QED
  BY <1>3

LEMMA SumAdd ==
  ASSUME NEW f, NEW S, IsFiniteSet(S), Numbers(f, S), NEW x \in S
  PROVE  Total(f, S) = f[x] + Total(f, S \ {x})
<1> DEFINE G == {T \in SUBSET S : \A z \in T : Total(f, T) = f[z] + Total(f, T \ {z})}
<1>1. {} \in G
  OBVIOUS
<1>2. ASSUME NEW T \in SUBSET S, T # {}, \A z \in T : T \ {z} \in G
      PROVE  T \in G
  <2> SUFFICES ASSUME NEW z \in T PROVE Total(f, T) = f[z] + Total(f, T \ {z})
    OBVIOUS
  <2>1. PICK y : y = Some(T)
    OBVIOUS
  <2>2. y \in T /\ f[y] \in Nat /\ f[z] \in Nat
    BY <1>2, <2>1 DEF Some, Numbers
  <2>3. Total(f, T) = f[y] + Total(f, T \ {y})
    BY <1>2, <2>1, SumStep, FS_Subset
  <2>4. CASE z # y
    <3>1. z \in T \ {y} /\ y \in T \ {z}
          /\ (T \ {y}) \ {z} = T \ {y, z} /\ (T \ {z}) \ {y} = T \ {y, z}
      BY <2>2, <2>4
    <3>2. /\ Total(f, T \ {y}) = f[z] + Total(f, T \ {y, z})
          /\ Total(f, T \ {z}) = f[y] + Total(f, T \ {y, z})
      BY <1>2, <2>2, <3>1
    <3>3. Total(f, T \ {y, z}) \in Nat
      BY SumType
    <3>4. QED
      BY <2>2, <2>3, <3>2, <3>3
  <2>5. QED
    BY <2>3, <2>4
<1>3. S \in G
  <2> HIDE DEF G
  <2>1. QED
    BY <1>1, <1>2, SubsetInduction
<1>4. QED
  BY <1>3

LEMMA SumSplit ==
  ASSUME NEW f, NEW S, IsFiniteSet(S), Numbers(f, S), NEW T \in SUBSET S
  PROVE  Total(f, S) = Total(f, T) + Total(f, S \ T)
<1> DEFINE G == {t \in SUBSET S : Total(f, S) = Total(f, t) + Total(f, S \ t)}
<1>1. \A t \in SUBSET S : IsFiniteSet(t) /\ Numbers(f, t) /\ Total(f, t) \in Nat
  BY FS_Subset, SumType DEF Numbers
<1>2. {} \in G
  <2>1. S \ {} = S
    OBVIOUS
  <2>2. QED
    BY <1>1, <2>1, SumOfNone
<1>3. ASSUME NEW t \in SUBSET S, t # {}, \A x \in t : t \ {x} \in G
      PROVE  t \in G
  <2>1. PICK x \in t : TRUE
    BY <1>3
  <2>2. S \ (t \ {x}) = (S \ t) \cup {x} /\ ((S \ t) \cup {x}) \ {x} = S \ t
        /\ (S \ t) \cup {x} \in SUBSET S /\ x \in (S \ t) \cup {x}
    OBVIOUS
  <2>3. Total(f, S) = Total(f, t \ {x}) + Total(f, (S \ t) \cup {x})
    BY <1>3, <2>2
  <2>4. Total(f, t) = f[x] + Total(f, t \ {x})
    BY <1>1, SumAdd
  <2>5. Total(f, (S \ t) \cup {x}) = f[x] + Total(f, S \ t)
    BY <1>1, <2>2, SumAdd
  <2>6. f[x] \in Nat /\ Total(f, t \ {x}) \in Nat /\ Total(f, S \ t) \in Nat
    BY <1>1 DEF Numbers
  <2>7. QED
    BY <2>3, <2>4, <2>5, <2>6
<1>4. T \in G
  <2> HIDE DEF G
  <2>1. QED
    BY <1>2, <1>3, SubsetInduction
<1>5. QED
  BY <1>4

LEMMA SumSubset ==
  ASSUME NEW f, NEW S, IsFiniteSet(S), Numbers(f, S), NEW T \in SUBSET S
  PROVE  Total(f, T) \in Nat /\ Total(f, S) \in Nat /\ Total(f, T) <= Total(f, S)
<1>1. Total(f, T) \in Nat /\ Total(f, S \ T) \in Nat
  BY SumType
<1>2. QED
  BY <1>1, SumSplit

LEMMA SumTerm ==
  ASSUME NEW f, NEW S, IsFiniteSet(S), Numbers(f, S), NEW x \in S
  PROVE  f[x] <= Total(f, S)
<1>1. Total(f, S \ {x}) \in Nat
  BY SumType
<1>2. QED
  BY <1>1, SumAdd DEF Numbers

\* Sums of sums, term by term; and over another set with the same terms.
LEMMA SumLeq ==
  ASSUME NEW f, NEW g, NEW k, NEW S, IsFiniteSet(S),
         Numbers(f, S), Numbers(g, S), Numbers(k, S), \A x \in S : f[x] <= g[x] + k[x]
  PROVE  Total(f, S) <= Total(g, S) + Total(k, S)
<1> DEFINE G == {T \in SUBSET S : Total(f, T) <= Total(g, T) + Total(k, T)}
<1>1. \A T \in SUBSET S :
        /\ IsFiniteSet(T) /\ Numbers(f, T) /\ Numbers(g, T) /\ Numbers(k, T)
        /\ Total(f, T) \in Nat /\ Total(g, T) \in Nat /\ Total(k, T) \in Nat
  BY FS_Subset, SumType DEF Numbers
<1>2. {} \in G
  BY SumOfNone
<1>3. ASSUME NEW T \in SUBSET S, T # {}, \A x \in T : T \ {x} \in G
      PROVE  T \in G
  <2>1. PICK x \in T : TRUE
    BY <1>3
  <2>2. /\ Total(f, T) = f[x] + Total(f, T \ {x})
        /\ Total(g, T) = g[x] + Total(g, T \ {x})
        /\ Total(k, T) = k[x] + Total(k, T \ {x})
    BY <1>1, SumAdd
  <2>3. /\ f[x] \in Nat /\ g[x] \in Nat /\ k[x] \in Nat /\ f[x] <= g[x] + k[x]
        /\ Total(f, T \ {x}) \in Nat /\ Total(g, T \ {x}) \in Nat /\ Total(k, T \ {x}) \in Nat
        /\ Total(f, T \ {x}) <= Total(g, T \ {x}) + Total(k, T \ {x})
    BY <1>1, <1>3 DEF Numbers
  <2>4. QED
    BY <2>2, <2>3
<1>4. S \in G
  <2> HIDE DEF G
  <2>1. QED
    BY <1>2, <1>3, SubsetInduction
<1>5. QED
  BY <1>4

ImageOf(b, T) == {b[x] : x \in T}

LEMMA SumRenamed ==
  ASSUME NEW f, NEW g, NEW S, IsFiniteSet(S), Numbers(f, S), NEW b,
         \A x \in S : g[b[x]] = f[x],
         \A x, y \in S : b[x] = b[y] => x = y
  PROVE  IsFiniteSet(ImageOf(b, S)) /\ Total(g, ImageOf(b, S)) = Total(f, S)
<1> DEFINE G == {T \in SUBSET S :
                   IsFiniteSet(ImageOf(b, T)) /\ Total(g, ImageOf(b, T)) = Total(f, T)}
<1>1. {} \in G
  <2>1. ImageOf(b, {}) = {}
    BY DEF ImageOf
  <2>2. QED
    BY <2>1, SumOfNone, FS_EmptySet
<1>2. ASSUME NEW T \in SUBSET S, T # {}, \A x \in T : T \ {x} \in G
      PROVE  T \in G
  <2>1. PICK x \in T : TRUE
    BY <1>2
  <2>2. PICK A, B, v : A = ImageOf(b, T) /\ B = ImageOf(b, T \ {x}) /\ v = b[x]
    OBVIOUS
  <2>3. A = B \cup {v} /\ A \ {v} = B /\ v \in A
    BY <2>2 DEF ImageOf
  <2>4. IsFiniteSet(B) /\ Total(g, B) = Total(f, T \ {x})
    BY <1>2, <2>2
  <2>5. Numbers(g, A) /\ g[v] = f[x] /\ Numbers(f, T) /\ IsFiniteSet(T)
    BY <2>2, FS_Subset DEF Numbers, ImageOf
  <2>6. IsFiniteSet(A)
    BY <2>3, <2>4, FS_AddElement
  <2>7. Total(g, A) = g[v] + Total(g, B)
    BY <2>3, <2>5, <2>6, SumAdd
  <2>8. Total(f, T) = f[x] + Total(f, T \ {x})
    BY <2>5, SumAdd
  <2>9. QED
    BY <2>2, <2>4, <2>5, <2>6, <2>7, <2>8
<1>3. \A T \in SUBSET S : T \in G
  <2> HIDE DEF G
  <2>1. QED
    BY <1>1, <1>2, SubsetInduction
<1>4. S \in SUBSET S
  OBVIOUS
<1>5. QED
  BY <1>3, <1>4

\* The same terms; a part of them; a part and one term more; all but zeros; fewer.
LEMMA SumSame ==
  ASSUME NEW f, NEW g, NEW S, IsFiniteSet(S), Numbers(f, S), \A x \in S : g[x] = f[x]
  PROVE  Total(g, S) = Total(f, S)
<1> DEFINE b == [x \in S |-> x]
<1>1. ImageOf(b, S) = S
  BY DEF ImageOf
<1>2. \A x \in S : g[b[x]] = f[x]
  OBVIOUS
<1>3. \A x, y \in S : b[x] = b[y] => x = y
  OBVIOUS
<1> HIDE DEF b
<1>4. Total(g, ImageOf(b, S)) = Total(f, S)
  BY <1>2, <1>3, SumRenamed
<1>5. QED
  BY <1>1, <1>4

LEMMA SumOver ==
  ASSUME NEW f, NEW g, NEW S, IsFiniteSet(S), Numbers(f, S), NEW T \in SUBSET S,
         \A x \in T : g[x] = f[x]
  PROVE  Total(g, T) \in Nat /\ Total(f, S) \in Nat /\ Total(g, T) <= Total(f, S)
<1>1. IsFiniteSet(T) /\ Numbers(f, T)
  BY FS_Subset DEF Numbers
<1>2. Total(g, T) = Total(f, T)
  BY <1>1, SumSame
<1>3. QED
  BY <1>2, SumSubset

LEMMA SumOverWith ==
  ASSUME NEW f, NEW g, NEW S, IsFiniteSet(S), Numbers(f, S), NEW s, NEW T \in SUBSET (S \cup {s}),
         s \in T, s \notin S, g[s] \in Nat, \A x \in T \ {s} : g[x] = f[x]
  PROVE  Total(g, T) <= Total(f, S) + g[s]
<1>1. T \ {s} \in SUBSET S
  OBVIOUS
<1>2. Total(g, T \ {s}) <= Total(f, S) /\ Total(g, T \ {s}) \in Nat /\ Total(f, S) \in Nat
  BY <1>1, SumOver
<1>3. IsFiniteSet(T) /\ Numbers(g, T)
  BY FS_AddElement, FS_Subset DEF Numbers
<1>4. Total(g, T) = g[s] + Total(g, T \ {s})
  BY <1>3, SumAdd
<1>5. QED
  BY <1>2, <1>4

LEMMA SumOfPart ==
  ASSUME NEW f, NEW S, IsFiniteSet(S), Numbers(f, S), NEW T \in SUBSET S,
         \A x \in S \ T : f[x] = 0
  PROVE  Total(f, S) = Total(f, T)
<1> DEFINE R == S \ T
           G == {U \in SUBSET R : Total(f, U) = 0}
<1>1. IsFiniteSet(R)
  BY FS_Subset
<1>2. {} \in G
  BY SumOfNone
<1>3. ASSUME NEW U \in SUBSET R, U # {}, \A x \in U : U \ {x} \in G
      PROVE  U \in G
  <2>1. PICK x \in U : TRUE
    BY <1>3
  <2>2. IsFiniteSet(U) /\ Numbers(f, U)
    BY <1>1, FS_Subset DEF Numbers
  <2>3. Total(f, U) = f[x] + Total(f, U \ {x})
    BY <2>2, SumAdd
  <2>4. QED
    BY <1>3, <2>3
<1>4. \A U \in SUBSET R : U \in G
  <2> HIDE DEF G, R
  <2>1. QED
    BY <1>1, <1>2, <1>3, SubsetInduction
<1>5. Total(f, T) \in Nat
  BY SumType
<1>6. Total(f, R) = 0
  BY <1>4
<1>7. Total(f, S) = Total(f, T) + Total(f, R)
  BY SumSplit
<1>8. QED
  BY <1>5, <1>6, <1>7

LEMMA SumShrinks ==
  ASSUME NEW f, NEW g, NEW S, IsFiniteSet(S), Numbers(f, S),
         \A x \in S : g[x] \in {0, f[x]}
  PROVE  Total(g, S) \in Nat /\ Total(f, S) \in Nat /\ Total(g, S) <= Total(f, S)
<1> DEFINE T == {x \in S : g[x] = f[x]}
<1>1. Numbers(g, S) /\ T \in SUBSET S /\ \A x \in S \ T : g[x] = 0
  BY DEF Numbers
<1>2. \A x \in T : g[x] = f[x]
  OBVIOUS
<1> HIDE DEF T
<1>3. Total(g, S) = Total(g, T)
  BY <1>1, SumOfPart
<1>4. QED
  BY <1>1, <1>2, <1>3, SumOver

-----------------------------------------------------------------------------
(* Servers created alone are given no more than there is *)

\* What get_numas found at the physical ports is still so.
RoomAt(p) ==
  \A pf \in Pfs : On(p, pf) # {} => MbpsConsumed(pf) + Total(ChargesOf(p), On(p, pf)) <= Speed[pf]

FitsStill(p) ==
  /\ HostHasRoom(HostOf[p.numa], p.flavor)
  /\ NumaHasMemory(p.numa, p.flavor)
  /\ RoomAt(p)

StillRoom == \A h \in Active : plan[h].alone => FitsStill(plan[h])

RoomInv == IsFiniteSet(Placed) /\ StillRoom /\ NoOvercommit

\* The amounts are numbers.
LEMMA Amounts ==
  ASSUME TInv
  PROVE  /\ \A s \in Placed : server[s] \in Row /\ s \in Servers
         /\ Numbers(MemoryOf, Placed) /\ Numbers(RamOf, Placed) /\ Numbers(CpusOf, Placed)
         /\ \A pf \in Pfs : /\ IsFiniteSet(NicsOf(pf)) /\ NicsOf(pf) \subseteq Nics
                            /\ Numbers(nicUsed, NicsOf(pf))
                            /\ \A nic \in Nics : nic \in NicsOf(pf) <=> Root(nic) = pf
<1>1. \A s \in Placed : server[s] \in Row /\ s \in Servers
  BY DEF TInv, TypeOK, Placed
<1>2. Numbers(MemoryOf, Placed) /\ Numbers(RamOf, Placed) /\ Numbers(CpusOf, Placed)
  BY <1>1 DEF Numbers, MemoryOf, RamOf, CpusOf, Row
<1>3. ASSUME NEW pf \in Pfs
      PROVE  /\ IsFiniteSet(NicsOf(pf)) /\ NicsOf(pf) \subseteq Nics
             /\ Numbers(nicUsed, NicsOf(pf))
             /\ \A nic \in Nics : nic \in NicsOf(pf) <=> Root(nic) = pf
  <2>1. VfsOf(pf) \in SUBSET Vfs
    BY DEF VfsOf
  <2>2. IsFiniteSet(VfsOf(pf))
    BY <2>1, NodesAreTyped, FS_Subset
  <2>3. IsFiniteSet(NicsOf(pf))
    BY <2>2, FS_AddElement DEF NicsOf
  <2>4. NicsOf(pf) \subseteq Nics
    BY <2>1 DEF NicsOf, Nics
  <2>5. Numbers(nicUsed, NicsOf(pf))
    BY <2>4 DEF Numbers, TInv, TypeOK
  <2>6. \A nic \in Nics : nic \in NicsOf(pf) <=> Root(nic) = pf
    BY NicsAndRoots DEF NicsOf, VfsOf, Nics
  <2>7. QED
    BY <2>3, <2>4, <2>5, <2>6
<1>4. QED
  BY <1>1, <1>2, <1>3

LEMMA PlanCharges ==
  ASSUME NEW p \in Plan, DOMAIN p.nics = DOMAIN p.flavor.interfaces, NEW pf
  PROVE  /\ IsFiniteSet(On(p, pf)) /\ Numbers(ChargesOf(p), On(p, pf))
         /\ Total(ChargesOf(p), On(p, pf)) \in Nat
         /\ \A i \in On(p, pf) : ChargesOf(p)[i] <= Total(ChargesOf(p), On(p, pf))
<1>1. p.nics \in Seq(Nics)
  BY DEF Plan
<1>2. On(p, pf) \in SUBSET (1..Len(p.nics)) /\ Len(p.nics) \in Nat
  BY <1>1 DEF On
<1>3. IsFiniteSet(1..Len(p.nics))
  BY <1>2, FS_Interval
<1>4. IsFiniteSet(On(p, pf))
  BY <1>2, <1>3, FS_Subset
<1>5. Numbers(ChargesOf(p), On(p, pf))
  BY ChargeType DEF Numbers, ChargesOf, On
<1>6. QED
  BY <1>4, <1>5, SumTerm, SumSubset

\* What get_numas finds.
LEMMA StartedRoom ==
  ASSUME TInv, NEW h \in HttpThreads, NEW f \in Flavors, NEW p \in Plan, Started(h, f, p)
  PROVE  FitsStill(p)
<1>1. /\ p.flavor = f /\ p.nics \in [DOMAIN f.interfaces -> Pfs]
      /\ PortsFit(p.numa, f, p.nics)
      /\ HostHasRoom(HostOf[p.numa], f) /\ NumaHasMemory(p.numa, f)
  BY DEF Started, NumaFits
<1>2. ASSUME NEW pf \in Pfs, On(p, pf) # {}
      PROVE  MbpsConsumed(pf) + Total(ChargesOf(p), On(p, pf)) <= Speed[pf]
  <2> DEFINE on == On(p, pf)
             c == ChargesOf(p)
             ports == PortsOn(f, p.nics, pf)
             sriovs == SriovsOn(f, p.nics, pf)
  <2>1. /\ IsFiniteSet(on) /\ Numbers(c, on)
    BY <1>1, PlanCharges
  <2>2. \A i \in DOMAIN p.nics : p.nics[i] \in Pfs /\ Root(p.nics[i]) = p.nics[i]
    BY <1>1, NicsAndRoots
  <2>3. on = ports \cup sriovs /\ ports \in SUBSET on /\ on \ ports = sriovs
    BY <2>2 DEF On, PortsOn, SriovsOn
  <2>4. /\ \A i \in ports : c[i] = Speed[pf]
        /\ \A i \in sriovs : c[i] = f.interfaces[i].bandwidth
    BY <1>1, <2>2 DEF ChargesOf, Charge, PortsOn, SriovsOn
  <2>5. /\ Cardinality(ports) <= 1
        /\ sriovs # {} => MbpsConsumed(pf) + Cardinality(ports) * Speed[pf] + Asked(f, sriovs)
                            <= Speed[pf]
    BY <1>1 DEF PortsFit
  <2>6. Total(c, sriovs) = Asked(f, sriovs) /\ IsFiniteSet(sriovs) /\ IsFiniteSet(ports)
    <3> DEFINE b == [i \in sriovs |-> f.interfaces[i].bandwidth]
    <3>1. /\ IsFiniteSet(sriovs) /\ IsFiniteSet(ports) /\ Numbers(c, sriovs)
          /\ \A i \in sriovs : b[i] = c[i]
      BY <2>1, <2>3, <2>4, FS_Subset DEF Numbers
    <3>2. Total(b, sriovs) = Total(c, sriovs)
      <4> HIDE DEF b, c, sriovs
      <4>1. QED
        BY <3>1, SumSame
    <3>3. QED
      BY <3>1, <3>2 DEF Asked
  <2>7. Speed[pf] \in Nat /\ MbpsConsumed(pf) \in Nat
    <3>1. Speed[pf] \in Nat
      BY NodesAreTyped
    <3>2. QED
      BY <3>1, Amounts, SumSubset DEF MbpsConsumed
  <2>8. Total(c, on) = Total(c, ports) + Total(c, sriovs)
    <3> HIDE DEF on, c, ports, sriovs
    <3>1. QED
      BY <2>1, <2>3, SumSplit
  <2>9. /\ Total(c, ports) = Cardinality(ports) * Speed[pf]
        /\ Cardinality(ports) \in {0, 1}
        /\ Total(c, sriovs) \in Nat
    <3>1. Total(c, sriovs) \in Nat
      <4> HIDE DEF on, c, ports, sriovs
      <4>1. QED
        BY <2>1, <2>3, SumType
    <3>2. CASE ports = {}
      BY <2>7, <3>1, <3>2, SumOfNone, FS_EmptySet
    <3>3. CASE ports # {}
      <4>1. PICK i \in ports : TRUE
        BY <3>3
      <4>2. ports = {i}
        <5> HIDE DEF ports
        <5>1. QED
          BY <2>5, <2>6, <4>1, AtMostOne
      <4>3. Cardinality(ports) = 1
        BY <4>2, FS_Singleton
      <4>4. Numbers(c, {i}) /\ IsFiniteSet({i}) /\ {i} \ {i} = {}
        BY <2>1, <2>3, <4>2, FS_Singleton DEF Numbers
      <4>5. Total(c, {i}) = c[i] + Total(c, {})
        <5> HIDE DEF c
        <5>1. QED
          BY <4>4, SumAdd
      <4>6. QED
        BY <2>4, <2>7, <3>1, <4>1, <4>2, <4>3, <4>5, SumOfNone
    <3>4. QED
      BY <3>2, <3>3
  <2>10. CASE sriovs # {}
    BY <2>5, <2>6, <2>7, <2>8, <2>9, <2>10
  <2>11. CASE sriovs = {}
    <3>1. PICK i \in ports : TRUE
      BY <1>2, <2>3, <2>11
    <3>2. MbpsConsumed(pf) = 0
      BY <1>1, <3>1 DEF PortsFit, PortsOn
    <3>3. Total(c, sriovs) = 0
      BY <2>11, SumOfNone
    <3>4. QED
      BY <2>7, <2>8, <2>9, <3>2, <3>3
  <2>12. QED
    BY <2>10, <2>11
<1>3. QED
  BY <1>1, <1>2 DEF FitsStill, RoomAt

\* What is left stays the same, and so does the room, as long as only plans
\* change and the ports of this one are the same.
LEMMA SameTables ==
  ASSUME UNCHANGED tables
  PROVE  /\ Placed' = Placed /\ Undisputed' = Undisputed /\ server' = server
         /\ nicOf' = nicOf /\ nicUsed' = nicUsed
         /\ MemoryOf' = MemoryOf /\ RamOf' = RamOf /\ CpusOf' = CpusOf
         /\ \A n : Consumed(n)' = Consumed(n)
         /\ \A x : UsedRam(x)' = UsedRam(x) /\ UsedCpus(x)' = UsedCpus(x)
         /\ \A pf : MbpsConsumed(pf)' = MbpsConsumed(pf)
BY DEF tables, Placed, Undisputed, MemoryOf, RamOf, CpusOf, Consumed, UsedRam, UsedCpus,
       MbpsConsumed

SamePorts(p, q) ==
  /\ q.flavor = p.flavor /\ q.numa = p.numa
  /\ DOMAIN q.nics = DOMAIN p.nics
  /\ \A i \in DOMAIN p.nics : Root(q.nics[i]) = Root(p.nics[i])

LEMMA SameCharges ==
  ASSUME NEW p, NEW q, SamePorts(p, q)
  PROVE  ChargesOf(q) = ChargesOf(p) /\ \A pf : On(q, pf) = On(p, pf)
BY DEF SamePorts, ChargesOf, On, Charge

\* The plans that may go on after a step: those there were, with the same ports.
LEMMA RoomKept ==
  ASSUME UNCHANGED tables, NEW g \in HttpThreads, FitsStill(plan[g]),
         SamePorts(plan[g], plan'[g])
  PROVE  FitsStill(plan[g])'
<1>1. PICK q : q = plan'[g]
  OBVIOUS
<1> DEFINE p == plan[g]
<1>2. /\ ChargesOf(q) = ChargesOf(p) /\ \A pf : On(q, pf) = On(p, pf)
      /\ q.flavor = p.flavor /\ q.numa = p.numa
  BY <1>1, SameCharges DEF SamePorts
<1>3. /\ UsedRam(HostOf[q.numa])' + Ram(q.flavor) <= HostRam[HostOf[q.numa]]
      /\ UsedCpus(HostOf[q.numa])' + Vcpus(q.flavor) <= HostCpus[HostOf[q.numa]]
      /\ Consumed(q.numa)' + q.flavor.memory <= Hugepages[q.numa]
  BY <1>2, SameTables DEF FitsStill, HostHasRoom, NumaHasMemory
<1>4. \A pf \in Pfs : On(q, pf) # {} =>
        MbpsConsumed(pf)' + Total(ChargesOf(q), On(q, pf)) <= Speed[pf]
  BY <1>2, SameTables DEF FitsStill, RoomAt
<1>5. QED
  BY <1>1, <1>3, <1>4 DEF FitsStill, HostHasRoom, NumaHasMemory, RoomAt

\* The plans of a step that leaves the tables alone.
LEMMA PlanSteps ==
  ASSUME TInv, CardsInv, NEW h \in HttpThreads,
         Pin(h) \/ PickNic(h) \/ Abort(h) \/ \E f \in Flavors : ChooseNuma(h, f)
  PROVE  /\ UNCHANGED tables
         /\ \A g \in Active' :
              \/ /\ g \in Active /\ SamePorts(plan[g], plan'[g])
                 /\ plan'[g].alone => plan[g].alone
              \/ \E f \in Flavors : \E p \in Plan : g = h /\ Started(h, f, p) /\ plan'[g] = p
<1>1. CASE Abort(h)
  <2>1. UNCHANGED tables /\ plan' = [plan EXCEPT ![h] = NoPlan]
    BY <1>1 DEF Abort
  <2>2. \A g \in Active' : g \in Active /\ plan'[g] = plan[g]
    BY <2>1 DEF Active, TInv, TypeOK
  <2>3. QED
    BY <2>1, <2>2 DEF SamePorts
<1>2. CASE Pin(h)
  <2>1. UNCHANGED tables /\ h \in Active
    BY <1>2, PinFacts DEF Active
  <2>2. PICK q \in Plan :
          /\ plan' = [plan EXCEPT ![h] = q]
          /\ q.nics = plan[h].nics /\ q.flavor = plan[h].flavor /\ q.numa = plan[h].numa
          /\ q.alone = plan[h].alone
    BY <1>2, PinFacts
  <2>3. plan'[h] = q /\ \A g \in HttpThreads : g # h => plan'[g] = plan[g]
    BY <2>2 DEF TInv, TypeOK
  <2>4. QED
    BY <2>1, <2>2, <2>3 DEF SamePorts, Active
<1>3. CASE PickNic(h)
  <2> DEFINE p == plan[h]
             i == p.picked + 1
  <2>1. /\ UNCHANGED tables /\ h \in Active /\ p \in Plan
        /\ i \in DOMAIN p.nics
    BY <1>3, PickNicFacts DEF Active
  <2>2. PICK q \in Plan :
          /\ plan' = [plan EXCEPT ![h] = q]
          /\ q.flavor = p.flavor /\ q.numa = p.numa /\ q.alone = p.alone
          /\ \/ q.nics = p.nics
             \/ \E vf \in Candidates(h) : q.nics = [p.nics EXCEPT ![i] = vf]
    BY <1>3, PickNicFacts
  <2>3. plan'[h] = q /\ \A g \in HttpThreads : g # h => plan'[g] = plan[g]
    BY <2>2 DEF TInv, TypeOK
  <2>4. p.nics[i] \in Pfs
    BY <2>1 DEF CardsInv, CardsOf, Plan
  <2>5. \A vf \in Candidates(h) : Root(vf) = Root(p.nics[i])
    BY <2>4, NicsAndRoots DEF Candidates, VfsOf
  <2>6. SamePorts(p, q)
    BY <2>1, <2>2, <2>5 DEF SamePorts, Plan
  <2>7. QED
    BY <2>1, <2>2, <2>3, <2>6 DEF SamePorts, Active
<1>4. CASE \E f \in Flavors : ChooseNuma(h, f)
  <2>1. PICK f \in Flavors : ChooseNuma(h, f)
    BY <1>4
  <2>2. PICK p \in Plan : Started(h, f, p)
    BY <2>1, ChooseNumaFacts
  <2>3. ASSUME NEW g \in Active', g # h
        PROVE  /\ g \in Active /\ SamePorts(plan[g], plan'[g])
               /\ plan'[g].alone => plan[g].alone
    <3>1. g \in Active /\ plan[g] \in Plan /\ plan'[g] = [plan[g] EXCEPT !.alone = FALSE]
      BY <2>2, <2>3 DEF Started, Active
    <3>2. /\ plan'[g].nics = plan[g].nics /\ plan'[g].flavor = plan[g].flavor
          /\ plan'[g].numa = plan[g].numa /\ ~plan'[g].alone
      BY <3>1 DEF Plan
    <3>3. QED
      BY <3>1, <3>2 DEF SamePorts
  <2>4. plan'[h] = p
    BY <2>2 DEF Started
  <2>5. UNCHANGED tables
    BY <2>1, ChooseNumaFacts
  <2>6. QED
    BY <2>2, <2>3, <2>4, <2>5
<1>5. QED
  BY <1>1, <1>2, <1>3, <1>4

\* The sum over a port with what a new server is charged.
LEMMA ChargedPort ==
  ASSUME TInv, TInv', CardsInv, NEW h \in HttpThreads, NEW s \in Servers, NewInstance(h, s),
         NEW pf \in Pfs
  PROVE  MbpsConsumed(pf)' <= MbpsConsumed(pf) + Total(ChargesOf(plan[h]), On(plan[h], pf))
<1> DEFINE p == plan[h]
           N == NicsOf(pf)
           on == On(p, pf)
           C == ImageOf(p.nics, on)
<1>1. PICK c, nics : c = ChargesOf(p) /\ nics = p.nics
  OBVIOUS
<1> DEFINE index(nic) == CHOOSE i \in on : nics[i] = nic
           extra == [nic \in N |-> IF nic \in C THEN c[index(nic)] ELSE 0]
<1>2. /\ p \in Plan /\ DOMAIN p.nics = DOMAIN p.flavor.interfaces
      /\ \A i, j \in DOMAIN p.nics : p.nics[i] = p.nics[j] => i = j
      /\ \A i \in DOMAIN p.nics : p.nics[i] \in Nics /\ nicUsed'[p.nics[i]] = c[i]
      /\ \A nic \in Nics \ ChosenNics(p) : nicUsed'[nic] = nicUsed[nic]
  BY <1>1, NewCharges
<1>3. IsFiniteSet(on) /\ Numbers(c, on) /\ on \subseteq DOMAIN p.nics
  <2>1. on \subseteq DOMAIN p.nics
    BY DEF On
  <2> HIDE DEF p
  <2>2. IsFiniteSet(on) /\ Numbers(ChargesOf(p), on)
    BY <1>2, PlanCharges
  <2>3. QED
    BY <1>1, <2>1, <2>2
<1>4. /\ IsFiniteSet(N) /\ N \subseteq Nics /\ Numbers(nicUsed, N)
      /\ \A nic \in Nics : nic \in N <=> Root(nic) = pf
  BY Amounts
<1>5. Numbers(nicUsed', N)
  BY <1>4 DEF Numbers, TInv, TypeOK
<1>6. C \subseteq N /\ \A nic \in N : nic \in ChosenNics(p) <=> nic \in C
  BY <1>2, <1>4 DEF ChosenNics, On, ImageOf
<1>7. ASSUME NEW i \in on PROVE extra[nics[i]] = c[i] /\ nics[i] \in C
  <2>1. \A j \in on : nics[j] = nics[i] => j = i
    BY <1>1, <1>2, <1>3
  <2>2. nics[i] \in C
    BY <1>1 DEF ImageOf
  <2>3. index(nics[i]) = i
    BY <2>1
  <2>4. QED
    BY <1>6, <2>2, <2>3
<1>8. ASSUME NEW nic \in C PROVE extra[nic] \in Nat /\ nicUsed'[nic] = extra[nic]
  <2>1. PICK i \in on : nic = nics[i]
    BY <1>1 DEF ImageOf
  <2>2. extra[nic] = c[i] /\ c[i] \in Nat /\ nicUsed'[nic] = c[i]
    BY <1>1, <1>2, <1>3, <1>7, <2>1 DEF Numbers
  <2>3. QED
    BY <2>2
<1>9. \A nic \in N \ C : extra[nic] = 0 /\ nicUsed'[nic] = nicUsed[nic]
  BY <1>2, <1>4, <1>6
<1> HIDE DEF extra
<1>10. Numbers(extra, N)
  BY <1>8, <1>9 DEF Numbers
<1>11. \A nic \in N : nicUsed'[nic] <= nicUsed[nic] + extra[nic]
  BY <1>4, <1>8, <1>9 DEF Numbers
<1>12. Total(nicUsed', N) <= Total(nicUsed, N) + Total(extra, N)
  <2> HIDE DEF N
  <2>1. QED
    BY <1>4, <1>5, <1>10, <1>11, SumLeq
<1>13. Total(extra, N) = Total(extra, C)
  <2> HIDE DEF N, C
  <2>1. QED
    BY <1>4, <1>6, <1>9, <1>10, SumOfPart
<1>14. Total(extra, C) = Total(c, on)
  <2>1. \A i, j \in on : nics[i] = nics[j] => i = j
    BY <1>1, <1>2, <1>3
  <2>2. C = ImageOf(nics, on)
    BY <1>1
  <2> HIDE DEF on, C
  <2>3. QED
    BY <1>3, <1>7, <2>1, <2>2, SumRenamed
<1>15. QED
  BY <1>1, <1>12, <1>13, <1>14 DEF MbpsConsumed

\* Those who count after a step, B, are some that did before, U, or the new one
\* and all there were at the place, A, which leave it enough.
LEMMA NewIsCounted ==
  ASSUME NEW P, IsFiniteSet(P), NEW s, s \notin P, NEW f, NEW g, Numbers(f, P), g[s] \in Nat,
         \A r \in P : g[r] = f[r],
         NEW A \in SUBSET P, NEW U \in SUBSET P, NEW B \in SUBSET (A \cup {s}),
         NEW limit \in Nat,
         s \notin B => B \subseteq U /\ Total(f, U) <= limit,
         s \in B => Total(f, A) + g[s] <= limit
  PROVE  Total(g, B) <= limit
<1>1. IsFiniteSet(A) /\ Numbers(f, A) /\ IsFiniteSet(U) /\ Numbers(f, U)
  BY FS_Subset DEF Numbers
<1>2. CASE s \in B
  <2>1. Total(g, B) <= Total(f, A) + g[s]
    BY <1>1, <1>2, SumOverWith
  <2>2. Total(f, A) \in Nat
    BY <1>1, SumSubset
  <2>3. IsFiniteSet(B) /\ Numbers(g, B)
    BY <1>1, FS_AddElement, FS_Subset DEF Numbers
  <2>4. Total(g, B) \in Nat
    BY <2>3, SumSubset
  <2>5. QED
    BY <1>2, <2>1, <2>2, <2>4
<1>3. CASE s \notin B
  <2>1. B \in SUBSET U /\ \A r \in B : g[r] = f[r]
    BY <1>3
  <2>2. Total(g, B) \in Nat /\ Total(f, U) \in Nat /\ Total(g, B) <= Total(f, U)
    BY <1>1, <2>1, SumOver
  <2>3. QED
    BY <1>3, <2>2
<1>4. QED
  BY <1>2, <1>3

\* The rows after a new server.
LEMMA NewRows ==
  ASSUME TInv, NEW h \in HttpThreads, NEW s \in Servers, NewInstance(h, s)
  PROVE  /\ s \notin Placed /\ Placed' = Placed \cup {s} /\ Placed \subseteq Servers
         /\ server'[s] = Written(plan[h])
         /\ \A r \in Placed : server'[r] = server[r] /\ r # s
         /\ \A r \in Undisputed' : r # s => r \in Undisputed
         /\ s \in Undisputed' => plan[h].alone
         /\ Undisputed \subseteq Undisputed' /\ Undisputed' \subseteq Placed'
<1>1. /\ s \notin Placed /\ Placed' = Placed \cup {s}
      /\ \A r \in Servers : server'[r] = IF r = s THEN Written(plan[h]) ELSE server[r]
  BY NewInstanceFacts
<1>2. Written(plan[h]).alone = plan[h].alone
  BY DEF Written
<1>3. QED
  BY <1>1, <1>2 DEF Undisputed, Placed

\* What is written for a new server was counted when the node was chosen.
LEMMA NewFitsNode ==
  ASSUME TInv, RoomInv, CardsInv, NEW h \in HttpThreads, NEW s \in Servers, NewInstance(h, s)
  PROVE  /\ \A n \in Numas :
              Total(MemoryOf', {r \in Undisputed' : server'[r].numa = n}) <= Hugepages[n]
         /\ \A x \in Hosts :
              /\ Total(RamOf', {r \in Undisputed' : server'[r].host = x}) <= HostRam[x]
              /\ Total(CpusOf', {r \in Undisputed' : server'[r].host = x}) <= HostCpus[x]
<1> DEFINE p == plan[h]
<1>1. /\ h \in Active /\ p \in Plan
      /\ s \notin Placed /\ Placed' = Placed \cup {s} /\ server'[s] = Written(p)
      /\ \A r \in Placed : server'[r] = server[r] /\ r # s
      /\ \A r \in Undisputed' : r # s => r \in Undisputed
      /\ s \in Undisputed' => p.alone
      /\ Undisputed' \subseteq Placed \cup {s} /\ Undisputed \subseteq Placed
  BY NewCharges, NewRows DEF Undisputed
<1>2. /\ Written(p).numa = p.numa /\ Written(p).host = HostOf[p.numa]
      /\ Written(p).memory = p.flavor.memory /\ p.flavor.memory \in Nat
      /\ Written(p).ram = Ram(p.flavor) /\ Ram(p.flavor) \in Nat
      /\ Written(p).vcpus = Vcpus(p.flavor) /\ Vcpus(p.flavor) \in Nat
  BY <1>1, FlavorTypes DEF Written, Plan
<1>3. /\ MemoryOf'[s] = p.flavor.memory /\ \A r \in Placed : MemoryOf'[r] = MemoryOf[r]
      /\ RamOf'[s] = Ram(p.flavor) /\ \A r \in Placed : RamOf'[r] = RamOf[r]
      /\ CpusOf'[s] = Vcpus(p.flavor) /\ \A r \in Placed : CpusOf'[r] = CpusOf[r]
  BY <1>1, <1>2 DEF MemoryOf, RamOf, CpusOf
<1>4. /\ Numbers(MemoryOf, Placed) /\ Numbers(RamOf, Placed) /\ Numbers(CpusOf, Placed)
      /\ IsFiniteSet(Placed)
  BY Amounts DEF RoomInv
<1>5. p.alone =>
        /\ Consumed(p.numa) + p.flavor.memory <= Hugepages[p.numa]
        /\ UsedRam(HostOf[p.numa]) + Ram(p.flavor) <= HostRam[HostOf[p.numa]]
        /\ UsedCpus(HostOf[p.numa]) + Vcpus(p.flavor) <= HostCpus[HostOf[p.numa]]
  BY <1>1 DEF RoomInv, StillRoom, FitsStill, NumaHasMemory, HostHasRoom
<1> HIDE DEF p
<1>6. ASSUME NEW n \in Numas
      PROVE  Total(MemoryOf', {r \in Undisputed' : server'[r].numa = n}) <= Hugepages[n]
  <2> DEFINE A == {r \in Placed : server[r].numa = n}
             U == {r \in Undisputed : server[r].numa = n}
             B == {r \in Undisputed' : server'[r].numa = n}
  <2>1. /\ A \in SUBSET Placed /\ U \in SUBSET Placed /\ B \in SUBSET (A \cup {s})
        /\ s \notin B => B \subseteq U
    BY <1>1
  <2>2. s \in B => Total(MemoryOf, A) + p.flavor.memory <= Hugepages[n]
    BY <1>1, <1>2, <1>5 DEF Consumed
  <2>3. Total(MemoryOf, U) <= Hugepages[n] /\ Hugepages[n] \in Nat
    BY NodesAreTyped DEF RoomInv, NoOvercommit
  <2> HIDE DEF A, U, B
  <2>4. Total(MemoryOf', B) <= Hugepages[n]
    BY <1>1, <1>2, <1>3, <1>4, <2>1, <2>2, <2>3, NewIsCounted
  <2>5. QED
    BY <2>4 DEF B
<1>7. ASSUME NEW x \in Hosts
      PROVE  /\ Total(RamOf', {r \in Undisputed' : server'[r].host = x}) <= HostRam[x]
             /\ Total(CpusOf', {r \in Undisputed' : server'[r].host = x}) <= HostCpus[x]
  <2> DEFINE A == {r \in Placed : server[r].host = x}
             U == {r \in Undisputed : server[r].host = x}
             B == {r \in Undisputed' : server'[r].host = x}
  <2>1. /\ A \in SUBSET Placed /\ U \in SUBSET Placed /\ B \in SUBSET (A \cup {s})
        /\ s \notin B => B \subseteq U
    BY <1>1
  <2>2. s \in B => /\ Total(RamOf, A) + Ram(p.flavor) <= HostRam[x]
                   /\ Total(CpusOf, A) + Vcpus(p.flavor) <= HostCpus[x]
    <3>1. s \in B => p.alone /\ HostOf[p.numa] = x
      BY <1>1, <1>2
    <3>2. UsedRam(x) = Total(RamOf, A) /\ UsedCpus(x) = Total(CpusOf, A)
      BY DEF UsedRam, UsedCpus
    <3>3. QED
      BY <1>5, <3>1, <3>2
  <2>3. /\ Total(RamOf, U) <= HostRam[x] /\ HostRam[x] \in Nat
        /\ Total(CpusOf, U) <= HostCpus[x] /\ HostCpus[x] \in Nat
    BY NodesAreTyped DEF RoomInv, NoOvercommit
  <2> HIDE DEF A, U, B
  <2>4. Total(RamOf', B) <= HostRam[x]
    BY <1>1, <1>2, <1>3, <1>4, <2>1, <2>2, <2>3, NewIsCounted
  <2>5. Total(CpusOf', B) <= HostCpus[x]
    BY <1>1, <1>2, <1>3, <1>4, <2>1, <2>2, <2>3, NewIsCounted
  <2>6. QED
    BY <2>4, <2>5 DEF B
<1>8. QED
  BY <1>6, <1>7

LEMMA NewFitsPorts ==
  ASSUME TInv, TInv', RoomInv, CardsInv, NEW h \in HttpThreads, NEW s \in Servers,
         NewInstance(h, s), NEW pf \in Pfs
  PROVE  Total(nicUsed', {nic \in NicsOf(pf) : nicOf'[nic] \in Undisputed'}) <= Speed[pf]
<1> DEFINE p == plan[h]
           N == NicsOf(pf)
           U == {nic \in N : nicOf[nic] \in Undisputed}
           B == {nic \in N : nicOf'[nic] \in Undisputed'}
<1>1. /\ h \in Active /\ p \in Plan /\ DOMAIN p.nics = DOMAIN p.flavor.interfaces
      /\ \A nic \in ChosenNics(p) : nicOf'[nic] = s
      /\ \A nic \in Nics \ ChosenNics(p) : nicUsed'[nic] = nicUsed[nic] /\ nicOf'[nic] = nicOf[nic]
  BY NewCharges DEF ChosenNics
<1>2. /\ s \notin Placed
      /\ \A r \in Undisputed' : r # s => r \in Undisputed
      /\ s \in Undisputed' => p.alone
  BY NewRows
<1>3. /\ IsFiniteSet(N) /\ N \subseteq Nics /\ Numbers(nicUsed, N)
      /\ \A nic \in Nics : nic \in N <=> Root(nic) = pf
      /\ Speed[pf] \in Nat
  BY Amounts, NodesAreTyped
<1>4. Numbers(nicUsed', N)
  BY <1>3 DEF Numbers, TInv, TypeOK
<1>5. ASSUME NEW nic \in B, nicOf'[nic] = s
      PROVE  Total(nicUsed', B) <= Speed[pf]
  <2>1. nic \in ChosenNics(p)
    <3>1. nicOf[nic] # s
      BY <1>2, <1>3, NullsAreDistinct DEF TInv, TypeOK
    <3>2. QED
      BY <1>1, <1>3, <1>5, <3>1
  <2>2. On(p, pf) # {} /\ p.alone
    BY <1>2, <1>3, <1>5, <2>1 DEF ChosenNics, On
  <2>3. MbpsConsumed(pf) + Total(ChargesOf(p), On(p, pf)) <= Speed[pf]
    BY <1>1, <2>2 DEF RoomInv, StillRoom, FitsStill, RoomAt
  <2>4. MbpsConsumed(pf)' <= MbpsConsumed(pf) + Total(ChargesOf(p), On(p, pf))
    BY ChargedPort
  <2>5. Total(ChargesOf(p), On(p, pf)) \in Nat
    BY <1>1, PlanCharges
  <2>6. MbpsConsumed(pf) \in Nat
    BY <1>3, SumSubset DEF MbpsConsumed
  <2>7. Total(nicUsed', B) <= MbpsConsumed(pf)' /\ Total(nicUsed', B) \in Nat
        /\ MbpsConsumed(pf)' \in Nat
    <3>1. B \in SUBSET N
      OBVIOUS
    <3> HIDE DEF B, N
    <3>2. Total(nicUsed', B) <= Total(nicUsed', N) /\ Total(nicUsed', B) \in Nat
          /\ Total(nicUsed', N) \in Nat
      BY <1>3, <1>4, <3>1, SumSubset
    <3>3. QED
      BY <3>2 DEF MbpsConsumed, N
  <2>8. QED
    BY <1>3, <2>3, <2>4, <2>5, <2>6, <2>7
<1>6. ASSUME \A nic \in B : nicOf'[nic] # s
      PROVE  Total(nicUsed', B) <= Speed[pf]
  <2>1. B \in SUBSET U /\ U \in SUBSET N /\ \A nic \in B : nicUsed'[nic] = nicUsed[nic]
    BY <1>1, <1>2, <1>3, <1>6
  <2>2. IsFiniteSet(U) /\ Numbers(nicUsed, U)
    BY <1>3, FS_Subset DEF Numbers
  <2>3. Total(nicUsed, U) <= Speed[pf]
    BY DEF RoomInv, NoOvercommit
  <2> HIDE DEF B, U
  <2>4. /\ Total(nicUsed', B) \in Nat /\ Total(nicUsed, U) \in Nat
        /\ Total(nicUsed', B) <= Total(nicUsed, U)
    BY <2>1, <2>2, SumOver
  <2>5. QED
    BY <1>3, <2>3, <2>4
<1>7. QED
  BY <1>5, <1>6

\* The rows after a deletion.
LEMMA DeletedRows ==
  ASSUME TInv, NEW s \in Servers, DeleteInstance(s)
  PROVE  /\ Placed' = Placed \ {s} /\ plan' = plan /\ Active' = Active
         /\ \A r \in Placed' : server'[r] = server[r] /\ r \in Servers
         /\ Undisputed' \subseteq Undisputed \ {s}
         /\ \A nic \in Nics : /\ nicUsed'[nic] = IF nicOf[nic] = s THEN 0 ELSE nicUsed[nic]
                              /\ nicOf'[nic] = IF nicOf[nic] = s THEN NoServer ELSE nicOf[nic]
<1>1. /\ Placed' = Placed \ {s} /\ plan' = plan /\ Active' = Active
      /\ server' = [server EXCEPT ![s] = NoServer]
      /\ nicOf' = [nic \in Nics |-> IF nicOf[nic] = s THEN NoServer ELSE nicOf[nic]]
      /\ nicUsed' = [nic \in Nics |-> IF nicOf[nic] = s THEN 0 ELSE nicUsed[nic]]
  BY DeleteTInv DEF DeleteInstance, Active
<1>2. \A r \in Placed' : server'[r] = server[r] /\ r \in Servers
  BY <1>1 DEF Placed, TInv, TypeOK
<1>3. QED
  BY <1>1, <1>2 DEF Undisputed

\* A deletion only leaves more.
LEMMA DeleteFrees ==
  ASSUME TInv, RoomInv, NEW s \in Servers, DeleteInstance(s)
  PROVE  RoomInv'
<1>1. /\ Placed' = Placed \ {s} /\ plan' = plan /\ Active' = Active
      /\ \A r \in Placed' : server'[r] = server[r] /\ r \in Servers
      /\ Undisputed' \subseteq Undisputed \ {s}
      /\ \A nic \in Nics : /\ nicUsed'[nic] = IF nicOf[nic] = s THEN 0 ELSE nicUsed[nic]
                           /\ nicOf'[nic] = IF nicOf[nic] = s THEN NoServer ELSE nicOf[nic]
  BY DeletedRows
<1>2. /\ IsFiniteSet(Placed) /\ IsFiniteSet(Placed')
      /\ Numbers(MemoryOf, Placed) /\ Numbers(RamOf, Placed) /\ Numbers(CpusOf, Placed)
  BY <1>1, Amounts, FS_RemoveElement DEF RoomInv
<1>3. \A r \in Placed' : MemoryOf'[r] = MemoryOf[r] /\ RamOf'[r] = RamOf[r] /\ CpusOf'[r] = CpusOf[r]
  BY <1>1 DEF MemoryOf, RamOf, CpusOf
<1>4. ASSUME NEW T, NEW R, R \subseteq Placed, T \subseteq R, T \subseteq Placed'
      PROVE  /\ Total(MemoryOf', T) \in Nat /\ Total(MemoryOf, R) \in Nat
             /\ Total(MemoryOf', T) <= Total(MemoryOf, R)
             /\ Total(RamOf', T) \in Nat /\ Total(RamOf, R) \in Nat
             /\ Total(RamOf', T) <= Total(RamOf, R)
             /\ Total(CpusOf', T) \in Nat /\ Total(CpusOf, R) \in Nat
             /\ Total(CpusOf', T) <= Total(CpusOf, R)
  <2>1. /\ IsFiniteSet(R) /\ Numbers(MemoryOf, R) /\ Numbers(RamOf, R) /\ Numbers(CpusOf, R)
        /\ T \in SUBSET R
        /\ \A r \in T : MemoryOf'[r] = MemoryOf[r] /\ RamOf'[r] = RamOf[r] /\ CpusOf'[r] = CpusOf[r]
    BY <1>2, <1>3, <1>4, FS_Subset DEF Numbers
  <2>2. QED
    BY <2>1, SumOver
<1>5. \A n : Consumed(n)' <= Consumed(n) /\ Consumed(n)' \in Nat /\ Consumed(n) \in Nat
  <2> SUFFICES ASSUME NEW n
               PROVE  Consumed(n)' <= Consumed(n) /\ Consumed(n)' \in Nat /\ Consumed(n) \in Nat
    OBVIOUS
  <2> DEFINE R == {r \in Placed : server[r].numa = n}
             T == {r \in Placed' : server'[r].numa = n}
  <2>1. R \subseteq Placed /\ T \subseteq R /\ T \subseteq Placed'
    BY <1>1
  <2>2. Consumed(n) = Total(MemoryOf, R) /\ Consumed(n)' = Total(MemoryOf', T)
    BY DEF Consumed
  <2> HIDE DEF R, T
  <2>3. QED
    BY <1>4, <2>1, <2>2
<1>6. \A x : /\ UsedRam(x)' <= UsedRam(x) /\ UsedRam(x)' \in Nat /\ UsedRam(x) \in Nat
             /\ UsedCpus(x)' <= UsedCpus(x) /\ UsedCpus(x)' \in Nat /\ UsedCpus(x) \in Nat
  <2> SUFFICES ASSUME NEW x
               PROVE  /\ UsedRam(x)' <= UsedRam(x) /\ UsedRam(x)' \in Nat /\ UsedRam(x) \in Nat
                      /\ UsedCpus(x)' <= UsedCpus(x) /\ UsedCpus(x)' \in Nat /\ UsedCpus(x) \in Nat
    OBVIOUS
  <2> DEFINE R == {r \in Placed : server[r].host = x}
             T == {r \in Placed' : server'[r].host = x}
  <2>1. R \subseteq Placed /\ T \subseteq R /\ T \subseteq Placed'
    BY <1>1
  <2>2. /\ UsedRam(x) = Total(RamOf, R) /\ UsedRam(x)' = Total(RamOf', T)
        /\ UsedCpus(x) = Total(CpusOf, R) /\ UsedCpus(x)' = Total(CpusOf', T)
    BY DEF UsedRam, UsedCpus
  <2> HIDE DEF R, T
  <2>3. QED
    BY <1>4, <2>1, <2>2
<1>7. \A pf \in Pfs : /\ MbpsConsumed(pf)' <= MbpsConsumed(pf)
                      /\ MbpsConsumed(pf)' \in Nat /\ MbpsConsumed(pf) \in Nat
  <2> SUFFICES ASSUME NEW pf \in Pfs
               PROVE  /\ MbpsConsumed(pf)' <= MbpsConsumed(pf)
                      /\ MbpsConsumed(pf)' \in Nat /\ MbpsConsumed(pf) \in Nat
    OBVIOUS
  <2>1. /\ IsFiniteSet(NicsOf(pf)) /\ NicsOf(pf) \subseteq Nics /\ Numbers(nicUsed, NicsOf(pf))
    BY Amounts
  <2>2. \A nic \in NicsOf(pf) : nicUsed'[nic] \in {0, nicUsed[nic]}
    BY <1>1, <2>1
  <2>3. QED
    BY <2>1, <2>2, SumShrinks DEF MbpsConsumed
<1>8. StillRoom'
  <2> SUFFICES ASSUME NEW g \in Active, plan[g].alone PROVE FitsStill(plan[g])'
    BY <1>1 DEF StillRoom
  <2>1. PICK p : p = plan[g] /\ p = plan'[g]
    BY <1>1
  <2>2. FitsStill(p) /\ p \in Plan /\ DOMAIN p.nics = DOMAIN p.flavor.interfaces
    BY <2>1 DEF RoomInv, StillRoom, TInv, TypeOK, PlansAreShaped, Active
  <2>3. PICK n, x : n = p.numa /\ x = HostOf[p.numa]
    OBVIOUS
  <2>4. /\ p.flavor.memory \in Nat /\ Ram(p.flavor) \in Nat /\ Vcpus(p.flavor) \in Nat
        /\ n \in Numas /\ x \in Hosts
        /\ Hugepages[n] \in Nat /\ HostRam[x] \in Nat /\ HostCpus[x] \in Nat
    BY <2>2, <2>3, FlavorTypes, NodesAreTyped DEF Plan
  <2>5. /\ Consumed(n)' + p.flavor.memory <= Hugepages[n]
        /\ UsedRam(x)' + Ram(p.flavor) <= HostRam[x]
        /\ UsedCpus(x)' + Vcpus(p.flavor) <= HostCpus[x]
    <3>1. /\ Consumed(n) + p.flavor.memory <= Hugepages[n]
          /\ UsedRam(x) + Ram(p.flavor) <= HostRam[x]
          /\ UsedCpus(x) + Vcpus(p.flavor) <= HostCpus[x]
      BY <2>2, <2>3 DEF FitsStill, NumaHasMemory, HostHasRoom
    <3>2. QED
      BY <1>5, <1>6, <2>4, <3>1
  <2>6. ASSUME NEW pf \in Pfs, On(p, pf) # {}
        PROVE  MbpsConsumed(pf)' + Total(ChargesOf(p), On(p, pf)) <= Speed[pf]
    <3>1. MbpsConsumed(pf) + Total(ChargesOf(p), On(p, pf)) <= Speed[pf]
      BY <2>2, <2>6 DEF FitsStill, RoomAt
    <3>2. Total(ChargesOf(p), On(p, pf)) \in Nat /\ Speed[pf] \in Nat
      BY <2>2, PlanCharges, NodesAreTyped
    <3>3. QED
      BY <1>7, <3>1, <3>2
  <2>7. QED
    BY <2>1, <2>3, <2>5, <2>6 DEF FitsStill, NumaHasMemory, HostHasRoom, RoomAt
<1>9. NoOvercommit'
  <2>1. ASSUME NEW n \in Numas
        PROVE  Total(MemoryOf', {r \in Undisputed' : server'[r].numa = n}) <= Hugepages[n]
    <3> DEFINE R == {r \in Undisputed : server[r].numa = n}
               T == {r \in Undisputed' : server'[r].numa = n}
    <3>1. R \subseteq Placed /\ T \subseteq R /\ T \subseteq Placed'
      BY <1>1 DEF Undisputed
    <3>2. Total(MemoryOf, R) <= Hugepages[n] /\ Hugepages[n] \in Nat
      BY NodesAreTyped DEF RoomInv, NoOvercommit
    <3> HIDE DEF R, T
    <3>3. Total(MemoryOf', T) <= Hugepages[n]
      BY <1>4, <3>1, <3>2
    <3>4. QED
      BY <3>3 DEF T
  <2>2. ASSUME NEW x \in Hosts
        PROVE  /\ Total(RamOf', {r \in Undisputed' : server'[r].host = x}) <= HostRam[x]
               /\ Total(CpusOf', {r \in Undisputed' : server'[r].host = x}) <= HostCpus[x]
    <3> DEFINE R == {r \in Undisputed : server[r].host = x}
               T == {r \in Undisputed' : server'[r].host = x}
    <3>1. R \subseteq Placed /\ T \subseteq R /\ T \subseteq Placed'
      BY <1>1 DEF Undisputed
    <3>2. /\ Total(RamOf, R) <= HostRam[x] /\ HostRam[x] \in Nat
          /\ Total(CpusOf, R) <= HostCpus[x] /\ HostCpus[x] \in Nat
      BY NodesAreTyped DEF RoomInv, NoOvercommit
    <3> HIDE DEF R, T
    <3>3. Total(RamOf', T) <= HostRam[x] /\ Total(CpusOf', T) <= HostCpus[x]
      BY <1>4, <3>1, <3>2
    <3>4. QED
      BY <3>3 DEF T
  <2>3. ASSUME NEW pf \in Pfs
        PROVE  Total(nicUsed', {nic \in NicsOf(pf) : nicOf'[nic] \in Undisputed'}) <= Speed[pf]
    <3> DEFINE R == {nic \in NicsOf(pf) : nicOf[nic] \in Undisputed}
               T == {nic \in NicsOf(pf) : nicOf'[nic] \in Undisputed'}
    <3>1. NicsOf(pf) \subseteq Nics /\ IsFiniteSet(NicsOf(pf)) /\ Numbers(nicUsed, NicsOf(pf))
      BY Amounts
    <3>2. NoServer \notin Undisputed'
      BY <1>1, NullsAreDistinct DEF Undisputed
    <3>3. T \in SUBSET R /\ \A nic \in T : nicUsed'[nic] = nicUsed[nic]
      BY <1>1, <3>1, <3>2
    <3>4. IsFiniteSet(R) /\ Numbers(nicUsed, R)
      BY <3>1, FS_Subset DEF Numbers
    <3>5. Total(nicUsed, R) <= Speed[pf] /\ Speed[pf] \in Nat
      BY NodesAreTyped DEF RoomInv, NoOvercommit
    <3> HIDE DEF R, T
    <3>6. Total(nicUsed', T) <= Speed[pf]
      BY <3>3, <3>4, <3>5, SumOver
    <3>7. QED
      BY <3>6 DEF T
  <2>4. QED
    BY <2>1, <2>2, <2>3 DEF NoOvercommit
<1>10. QED
  BY <1>2, <1>8, <1>9 DEF RoomInv

LEMMA NextRoom ==
  ASSUME TInv, TInv', OnlyOne, CardsInv, RoomInv, [Next]_vars
  PROVE  RoomInv'
<1>1. ASSUME UNCHANGED tables
      PROVE  IsFiniteSet(Placed)' /\ NoOvercommit'
  BY <1>1, SameTables DEF RoomInv, NoOvercommit
<1>2. ASSUME NEW h \in HttpThreads,
             Pin(h) \/ PickNic(h) \/ Abort(h) \/ \E f \in Flavors : ChooseNuma(h, f)
      PROVE  RoomInv'
  <2>1. UNCHANGED tables
    BY <1>2, PlanSteps
  <2>2. ASSUME NEW g \in Active', plan'[g].alone PROVE FitsStill(plan[g])'
    <3>1. CASE g \in Active /\ SamePorts(plan[g], plan'[g]) /\ plan[g].alone
      <4>1. FitsStill(plan[g]) /\ g \in HttpThreads
        BY <3>1 DEF RoomInv, StillRoom, Active
      <4>2. QED
        BY <2>1, <3>1, <4>1, RoomKept
    <3>2. ASSUME NEW f \in Flavors, NEW p \in Plan, Started(h, f, p), plan'[g] = p
          PROVE  FitsStill(plan[g])'
      <4>1. FitsStill(p)
        BY <3>2, StartedRoom
      <4>2. /\ UsedRam(HostOf[p.numa])' + Ram(p.flavor) <= HostRam[HostOf[p.numa]]
            /\ UsedCpus(HostOf[p.numa])' + Vcpus(p.flavor) <= HostCpus[HostOf[p.numa]]
            /\ Consumed(p.numa)' + p.flavor.memory <= Hugepages[p.numa]
        BY <2>1, <4>1, SameTables DEF FitsStill, HostHasRoom, NumaHasMemory
      <4>3. \A pf \in Pfs : On(p, pf) # {} =>
              MbpsConsumed(pf)' + Total(ChargesOf(p), On(p, pf)) <= Speed[pf]
        BY <2>1, <4>1, SameTables DEF FitsStill, RoomAt
      <4>4. QED
        BY <3>2, <4>2, <4>3 DEF FitsStill, HostHasRoom, NumaHasMemory, RoomAt
    <3>3. QED
      BY <1>2, <2>2, <3>1, <3>2, PlanSteps
  <2>3. QED
    BY <1>1, <2>1, <2>2 DEF RoomInv, StillRoom
<1>3. ASSUME NEW h \in HttpThreads, NEW s \in Servers, NewInstance(h, s)
      PROVE  RoomInv'
  <2>1. IsFiniteSet(Placed)'
    BY <1>3, NewRows, FS_AddElement DEF RoomInv
  <2>2. NoOvercommit'
    BY <1>3, NewFitsNode, NewFitsPorts DEF NoOvercommit
  <2>3. StillRoom'
    <3> SUFFICES ASSUME NEW g \in Active', plan'[g].alone PROVE FALSE
      BY DEF StillRoom
    <3>1. h \in Active /\ plan' = [plan EXCEPT ![h] = NoPlan]
      BY <1>3, NewCharges, NewInstanceFacts
    <3>2. g \in Active /\ g # h /\ plan'[g] = plan[g]
      BY <3>1 DEF Active, TInv, TypeOK
    <3>3. QED
      BY <3>1, <3>2 DEF OnlyOne
  <2>4. QED
    BY <2>1, <2>2, <2>3 DEF RoomInv
<1>4. ASSUME NEW s \in Servers, DeleteInstance(s)
      PROVE  RoomInv'
  BY <1>4, DeleteFrees
<1>5. CASE UNCHANGED vars
  <2>1. UNCHANGED tables /\ plan' = plan /\ Active' = Active
    BY <1>5 DEF vars, Active
  <2>2. ASSUME NEW g \in Active, plan[g].alone PROVE FitsStill(plan[g])'
    <3>1. FitsStill(plan[g]) /\ SamePorts(plan[g], plan'[g]) /\ g \in HttpThreads
      BY <2>1, <2>2 DEF RoomInv, StillRoom, SamePorts, Active
    <3>2. QED
      BY <2>1, <3>1, RoomKept
  <2>3. QED
    BY <1>1, <2>1, <2>2 DEF RoomInv, StillRoom
<1>6. QED
  BY <1>2, <1>3, <1>4, <1>5 DEF Next

\* The invariant of the three theorems that are about servers created alone.
PlacedInv == TInv /\ CardsAreOwn /\ ThreadsInv /\ CardsInv /\ RoomInv

LEMMA InitPlaced == Init => PlacedInv
<1> SUFFICES ASSUME Init PROVE PlacedInv
  OBVIOUS
<1>1. Active = {} /\ Placed = {} /\ Undisputed = {}
  BY DEF Init, Active, Placed, Undisputed
<1>2. TInv /\ CardsAreOwn
  BY InitTInv, NullsAreDistinct DEF Init, CardsAreOwn, Placed
<1>3. ThreadsInv /\ CardsInv
  BY <1>1 DEF ThreadsInv, OnlyOne, NotTaken, StillEnough, ChosenAreGood, HeldAreGood, CardsInv
<1>4. NoOvercommit
  <2>1. \A n \in Numas : Total(MemoryOf, {s \in Undisputed : server[s].numa = n}) <= Hugepages[n]
    BY <1>1, SumOfNone, NodesAreTyped
  <2>2. \A x \in Hosts :
          /\ Total(RamOf, {s \in Undisputed : server[s].host = x}) <= HostRam[x]
          /\ Total(CpusOf, {s \in Undisputed : server[s].host = x}) <= HostCpus[x]
    BY <1>1, SumOfNone, NodesAreTyped
  <2>3. \A pf \in Pfs :
          Total(nicUsed, {nic \in NicsOf(pf) : nicOf[nic] \in Undisputed}) <= Speed[pf]
    <3>1. \A pf \in Pfs : {nic \in NicsOf(pf) : nicOf[nic] \in Undisputed} = {}
      BY <1>1
    <3>2. \A pf \in Pfs : 0 <= Speed[pf]
      BY NodesAreTyped
    <3>3. QED
      BY <3>1, <3>2, SumOfNone
  <2>4. QED
    BY <2>1, <2>2, <2>3 DEF NoOvercommit
<1>5. RoomInv
  BY <1>1, <1>4, FS_EmptySet DEF RoomInv, StillRoom
<1>6. QED
  BY <1>2, <1>3, <1>5 DEF PlacedInv

LEMMA NextPlaced == PlacedInv /\ [Next]_vars => PlacedInv'
<1> SUFFICES ASSUME PlacedInv, [Next]_vars PROVE PlacedInv'
  OBVIOUS
<1>1. TInv' /\ CardsAreOwn' /\ ThreadsInv' /\ CardsInv'
  BY NextTInv, CardsSteps, NextThreads, NextCards DEF PlacedInv
<1>2. OnlyOne
  BY DEF PlacedInv, ThreadsInv
<1>3. RoomInv'
  BY <1>1, <1>2, NextRoom DEF PlacedInv
<1>4. QED
  BY <1>1, <1>3 DEF PlacedInv

\* The servers created alone never have more memory, cpus or bandwidth than
\* there is, whatever the nodes and the flavors: what get_numas counted is
\* still left when new_instance writes, because only the creation that is alone
\* takes anything, and what a deletion gives back only adds to it.
THEOREM NothingIsOvercommitted == Spec => []NoOvercommit
<1>1. PlacedInv => NoOvercommit
  BY DEF PlacedInv, RoomInv
<1>2. QED
  BY InitPlaced, NextPlaced, <1>1, PTL DEF Spec

-----------------------------------------------------------------------------
(* A dedicated port is exclusive *)

\* The hypothesis of the theorem: an interface that shares a port asks for some
\* bandwidth.  One of zero is charged nothing, and nobody sees it on the port.
SharedAskBandwidth ==
  \A f \in Flavors : \A i \in DOMAIN f.interfaces :
    ~IsPort(f.interfaces[i]) => f.interfaces[i].bandwidth > 0

HeldAreCharged == \A nic \in Nics : nicOf[nic] # NoServer => nicUsed[nic] > 0

\* The physical ports that server s has for itself.
OwnPorts(s) ==
  {Root(server[s].nics[i]) :
     i \in {j \in DOMAIN server[s].nics : IsPort(server[s].flavor.interfaces[j])}}

DedicatedAreCharged ==
  \A s \in Placed : \A i \in DOMAIN server[s].nics :
    IsPort(server[s].flavor.interfaces[i]) =>
      nicUsed[server[s].nics[i]] = Speed[Root(server[s].nics[i])]

PlansAvoidDedicated ==
  \A h \in Active : \A i \in DOMAIN plan[h].nics : \A s \in Undisputed :
    Root(plan[h].nics[i]) \notin OwnPorts(s)

DedicatedInv ==
  /\ SharedAskBandwidth
  /\ HeldAreCharged
  /\ DedicatedAreCharged
  /\ PlansAvoidDedicated
  /\ DedicatedIsExclusive

\* The cards of a server.
LEMMA CardsOfServer ==
  ASSUME TInv, CardsAreOwn, NEW s \in Placed, NEW i \in DOMAIN server[s].nics
  PROVE  /\ server[s].nics[i] \in Nics /\ Root(server[s].nics[i]) \in Pfs
         /\ nicOf[server[s].nics[i]] = s /\ s # NoServer
<1>1. s \in Servers /\ server[s] \in Row
  BY DEF Placed, TInv, TypeOK
<1>2. server[s].nics[i] \in Nics
  BY <1>1 DEF Row
<1>3. QED
  BY <1>1, <1>2, NicsAndRoots, NullsAreDistinct DEF CardsAreOwn

\* A card that is held is charged something.
LEMMA ChargesArePositive ==
  ASSUME SharedAskBandwidth, NEW p \in Plan, DOMAIN p.nics = DOMAIN p.flavor.interfaces,
         NEW i \in DOMAIN p.nics
  PROVE  /\ ChargesOf(p)[i] \in Nat /\ ChargesOf(p)[i] > 0
         /\ p.nics[i] \in Nics /\ Root(p.nics[i]) \in Pfs /\ i \in On(p, Root(p.nics[i]))
         /\ IsPort(p.flavor.interfaces[i]) => ChargesOf(p)[i] = Speed[Root(p.nics[i])]
<1>1. p.nics[i] \in Nics /\ p.flavor \in Flavors /\ i \in DOMAIN p.flavor.interfaces
  BY DEF Plan
<1>2. Root(p.nics[i]) \in Pfs
  BY <1>1, NicsAndRoots
<1>3. ChargesOf(p)[i] = Charge(p.flavor, p.nics, i) /\ i \in On(p, Root(p.nics[i]))
  BY DEF ChargesOf, On
<1>4. ChargesOf(p)[i] \in Nat
  BY <1>3, ChargeType
<1>5. ChargesOf(p)[i] > 0
  <2>1. CASE IsPort(p.flavor.interfaces[i])
    <3>1. Speed[Root(p.nics[i])] \in Nat \ {0}
      BY <1>2, NodesAreTyped
    <3>2. QED
      BY <1>3, <2>1, <3>1 DEF Charge
  <2>2. CASE ~IsPort(p.flavor.interfaces[i])
    BY <1>1, <1>3, <2>2 DEF Charge, SharedAskBandwidth
  <2>3. QED
    BY <2>1, <2>2
<1>6. QED
  BY <1>1, <1>2, <1>3, <1>4, <1>5 DEF Charge

\* A port with room for a plan is nobody's own; and it is empty if the plan
\* wants it as a whole.
LEMMA RoomOnPort ==
  ASSUME TInv, DedicatedInv, CardsAreOwn, NEW p \in Plan,
         DOMAIN p.nics = DOMAIN p.flavor.interfaces,
         RoomAt(p), NEW i \in DOMAIN p.nics
  PROVE  /\ \A s \in Placed : Root(p.nics[i]) \notin OwnPorts(s)
         /\ IsPort(p.flavor.interfaces[i]) =>
              \A nic \in Nics : Root(nic) = Root(p.nics[i]) => nicOf[nic] = NoServer
<1> DEFINE pf == Root(p.nics[i])
           asked == Total(ChargesOf(p), On(p, pf))
<1>1. /\ pf \in Pfs /\ i \in On(p, pf)
      /\ ChargesOf(p)[i] \in Nat /\ ChargesOf(p)[i] > 0
      /\ IsPort(p.flavor.interfaces[i]) => ChargesOf(p)[i] = Speed[pf]
  BY ChargesArePositive DEF DedicatedInv
<1> HIDE DEF pf
<1>2. MbpsConsumed(pf) + asked <= Speed[pf]
  BY <1>1 DEF RoomAt
<1>3. asked \in Nat /\ ChargesOf(p)[i] <= asked /\ Speed[pf] \in Nat
  BY <1>1, PlanCharges, NodesAreTyped
<1>4. /\ MbpsConsumed(pf) \in Nat
      /\ \A nic \in Nics : Root(nic) = pf => nicUsed[nic] \in Nat /\ nicUsed[nic] <= MbpsConsumed(pf)
  <2>1. /\ IsFiniteSet(NicsOf(pf)) /\ Numbers(nicUsed, NicsOf(pf))
        /\ \A nic \in Nics : nic \in NicsOf(pf) <=> Root(nic) = pf
    BY <1>1, Amounts
  <2>2. /\ Total(nicUsed, NicsOf(pf)) \in Nat
        /\ \A nic \in NicsOf(pf) : nicUsed[nic] <= Total(nicUsed, NicsOf(pf))
    BY <2>1, SumTerm, SumSubset
  <2>3. QED
    BY <2>1, <2>2 DEF MbpsConsumed, Numbers
<1> HIDE DEF asked
<1>5. ASSUME NEW s \in Placed, pf \in OwnPorts(s) PROVE FALSE
  <2>1. PICK j \in DOMAIN server[s].nics :
          IsPort(server[s].flavor.interfaces[j]) /\ pf = Root(server[s].nics[j])
    BY <1>5 DEF OwnPorts
  <2>2. nicUsed[server[s].nics[j]] = Speed[pf] /\ server[s].nics[j] \in Nics
    BY <2>1, CardsOfServer DEF DedicatedInv, DedicatedAreCharged
  <2>3. QED
    BY <1>1, <1>2, <1>3, <1>4, <2>1, <2>2
<1>6. ASSUME IsPort(p.flavor.interfaces[i]), NEW nic \in Nics, Root(nic) = pf
      PROVE  nicOf[nic] = NoServer
  <2>1. MbpsConsumed(pf) = 0
    BY <1>1, <1>2, <1>3, <1>4, <1>6
  <2>2. nicUsed[nic] = 0
    BY <1>4, <1>6, <2>1
  <2>3. QED
    BY <2>2 DEF DedicatedInv, HeldAreCharged
<1>7. QED
  BY <1>5, <1>6 DEF pf

LEMMA NextDedicated ==
  ASSUME PlacedInv, DedicatedInv, [Next]_vars
  PROVE  DedicatedInv'
<1>1. TInv /\ CardsAreOwn /\ CardsInv /\ OnlyOne /\ RoomInv
  BY DEF PlacedInv, ThreadsInv
<1>2. ASSUME UNCHANGED tables
      PROVE  /\ HeldAreCharged' /\ DedicatedAreCharged' /\ DedicatedIsExclusive'
             /\ \A s : OwnPorts(s)' = OwnPorts(s)
  BY <1>2, SameTables DEF DedicatedInv, HeldAreCharged, DedicatedAreCharged, DedicatedIsExclusive,
                          OwnPorts
<1>3. ASSUME NEW h \in HttpThreads,
             Pin(h) \/ PickNic(h) \/ Abort(h) \/ \E f \in Flavors : ChooseNuma(h, f)
      PROVE  DedicatedInv'
  <2>1. UNCHANGED tables /\ Undisputed' = Undisputed /\ Undisputed \subseteq Placed
    BY <1>1, <1>3, PlanSteps, SameTables DEF Undisputed
  <2>2. ASSUME NEW g \in Active', NEW i \in DOMAIN plan'[g].nics, NEW s \in Undisputed
        PROVE  Root(plan'[g].nics[i]) \notin OwnPorts(s)
    <3>1. CASE g \in Active /\ SamePorts(plan[g], plan'[g])
      BY <2>2, <3>1 DEF DedicatedInv, PlansAvoidDedicated, SamePorts
    <3>2. ASSUME NEW f \in Flavors, NEW p \in Plan, Started(h, f, p), plan'[g] = p
          PROVE  Root(plan'[g].nics[i]) \notin OwnPorts(s)
      <4>1. RoomAt(p) /\ DOMAIN p.nics = DOMAIN p.flavor.interfaces
        BY <1>1, <3>2, StartedRoom DEF FitsStill, Started
      <4>2. QED
        BY <1>1, <2>1, <2>2, <3>2, <4>1, RoomOnPort
    <3>3. QED
      BY <1>1, <1>3, <2>2, <3>1, <3>2, PlanSteps
  <2>3. PlansAvoidDedicated'
    <3> SUFFICES ASSUME NEW g \in Active', NEW i \in DOMAIN plan'[g].nics, NEW s \in Undisputed'
                 PROVE  Root(plan'[g].nics[i]) \notin OwnPorts(s)'
      BY DEF PlansAvoidDedicated
    <3>1. QED
      BY <1>2, <2>1, <2>2
  <2>4. QED
    BY <1>2, <2>1, <2>3 DEF DedicatedInv
<1>4. ASSUME NEW h \in HttpThreads, NEW s \in Servers, NewInstance(h, s)
      PROVE  DedicatedInv'
  <2>1. PICK p : p = plan[h]
    OBVIOUS
  <2>2. /\ h \in Active /\ p \in Plan /\ DOMAIN p.nics = DOMAIN p.flavor.interfaces
        /\ \A i \in DOMAIN p.nics :
             /\ p.nics[i] \in Nics /\ nicOf[p.nics[i]] = NoServer
             /\ nicOf'[p.nics[i]] = s /\ nicUsed'[p.nics[i]] = ChargesOf(p)[i]
        /\ \A nic \in Nics : nic \notin ChosenNics(p) =>
             nicUsed'[nic] = nicUsed[nic] /\ nicOf'[nic] = nicOf[nic]
    BY <1>1, <1>4, <2>1, NewCharges
  <2>3. /\ s \notin Placed /\ Placed' = Placed \cup {s}
        /\ server'[s].nics = p.nics /\ server'[s].flavor = p.flavor
        /\ \A r \in Placed : server'[r] = server[r] /\ r # s
        /\ \A r \in Undisputed' : r # s => r \in Undisputed
        /\ s \in Undisputed' => p.alone
        /\ Undisputed \subseteq Placed /\ Undisputed' \subseteq Placed'
    <3>1. /\ Written(p).nics = p.nics /\ Written(p).flavor = p.flavor
          /\ Undisputed \subseteq Placed
      BY DEF Written, Undisputed
    <3>2. QED
      BY <1>1, <1>4, <2>1, <3>1, NewRows
  <2>4. \A nic \in ChosenNics(p) : \E i \in DOMAIN p.nics : nic = p.nics[i]
    BY DEF ChosenNics
  <2>5. \A i \in DOMAIN p.nics :
          /\ ChargesOf(p)[i] > 0
          /\ IsPort(p.flavor.interfaces[i]) => ChargesOf(p)[i] = Speed[Root(p.nics[i])]
    BY <2>2, ChargesArePositive DEF DedicatedInv
  <2>6. HeldAreCharged'
    BY <2>2, <2>4, <2>5 DEF DedicatedInv, HeldAreCharged
  <2>7. DedicatedAreCharged'
    <3> SUFFICES ASSUME NEW r \in Placed', NEW i \in DOMAIN server'[r].nics,
                        IsPort(server'[r].flavor.interfaces[i])
                 PROVE  nicUsed'[server'[r].nics[i]] = Speed[Root(server'[r].nics[i])]
      BY DEF DedicatedAreCharged, Root
    <3>1. CASE r = s
      BY <2>2, <2>3, <2>5, <3>1
    <3>2. CASE r # s
      <4>1. /\ r \in Placed /\ server'[r] = server[r]
            /\ server[r].nics[i] \in Nics /\ nicOf[server[r].nics[i]] # NoServer
        BY <1>1, <2>3, <3>2, CardsOfServer
      <4>2. nicUsed'[server[r].nics[i]] = nicUsed[server[r].nics[i]]
        BY <2>2, <2>4, <4>1
      <4>3. QED
        BY <4>1, <4>2 DEF DedicatedInv, DedicatedAreCharged
    <3>3. QED
      BY <3>1, <3>2
  <2>8. \A r \in Undisputed : OwnPorts(r)' = OwnPorts(r)
    BY <2>3 DEF OwnPorts
  <2>9. PlansAvoidDedicated'
    <3> SUFFICES ASSUME NEW g \in Active', NEW i \in DOMAIN plan'[g].nics, NEW r \in Undisputed'
                 PROVE  Root(plan'[g].nics[i]) \notin OwnPorts(r)'
      BY DEF PlansAvoidDedicated
    <3>1. g \in Active /\ g # h /\ plan'[g] = plan[g]
      BY <1>1, <1>4, NewInstanceFacts DEF Active, TInv, TypeOK
    <3>2. r \in Undisputed
      BY <1>1, <2>1, <2>2, <2>3, <3>1 DEF OnlyOne
    <3>3. QED
      BY <2>8, <3>1, <3>2 DEF DedicatedInv, PlansAvoidDedicated
  <2>10. DedicatedIsExclusive'
    <3> SUFFICES ASSUME NEW r \in Undisputed', NEW i \in DOMAIN server'[r].nics,
                        IsPort(server'[r].flavor.interfaces[i]), NEW nic \in Nics,
                        Root(nic) = Root(server'[r].nics[i])
                 PROVE  nicOf'[nic] \in {r, NoServer}
      BY DEF DedicatedIsExclusive, Root
    <3>1. CASE r = s
      <4>1. RoomAt(p)
        BY <2>1, <2>2, <2>3, <3>1, <1>1 DEF RoomInv, StillRoom, FitsStill
      <4>2. nicOf[nic] = NoServer
        BY <1>1, <2>2, <2>3, <3>1, <4>1, RoomOnPort
      <4>3. QED
        BY <2>2, <2>4, <3>1, <4>2
    <3>2. CASE r # s
      <4>1. r \in Undisputed /\ server'[r] = server[r]
        BY <2>3, <3>2
      <4>2. nicOf[nic] \in {r, NoServer} /\ Root(nic) \in OwnPorts(r)
        BY <4>1 DEF DedicatedInv, DedicatedIsExclusive, OwnPorts
      <4>3. nic \notin ChosenNics(p)
        BY <2>1, <2>2, <2>4, <4>1, <4>2 DEF DedicatedInv, PlansAvoidDedicated
      <4>4. QED
        BY <2>2, <4>2, <4>3
    <3>3. QED
      BY <3>1, <3>2
  <2>11. QED
    BY <2>6, <2>7, <2>9, <2>10 DEF DedicatedInv
<1>5. ASSUME NEW s \in Servers, DeleteInstance(s)
      PROVE  DedicatedInv'
  <2>1. /\ Placed' = Placed \ {s} /\ plan' = plan /\ Active' = Active
        /\ Undisputed \subseteq Placed /\ Undisputed' \subseteq Undisputed \ {s}
        /\ \A r \in Placed' : server'[r] = server[r]
        /\ \A nic \in Nics : /\ nicUsed'[nic] = IF nicOf[nic] = s THEN 0 ELSE nicUsed[nic]
                             /\ nicOf'[nic] = IF nicOf[nic] = s THEN NoServer ELSE nicOf[nic]
    BY <1>1, <1>5, DeletedRows DEF Undisputed
  <2>2. HeldAreCharged'
    BY <2>1 DEF DedicatedInv, HeldAreCharged
  <2>3. DedicatedAreCharged'
    <3> SUFFICES ASSUME NEW r \in Placed', NEW i \in DOMAIN server[r].nics,
                        IsPort(server[r].flavor.interfaces[i])
                 PROVE  nicUsed'[server[r].nics[i]] = Speed[Root(server[r].nics[i])]
      BY <2>1 DEF DedicatedAreCharged, Root
    <3>1. server[r].nics[i] \in Nics /\ nicOf[server[r].nics[i]] # s
      BY <1>1, <2>1, CardsOfServer
    <3>2. QED
      BY <2>1, <3>1 DEF DedicatedInv, DedicatedAreCharged
  <2>4. \A r \in Undisputed' : OwnPorts(r)' = OwnPorts(r) /\ r \in Undisputed
    BY <2>1 DEF OwnPorts, Undisputed
  <2>5. PlansAvoidDedicated'
    BY <2>1, <2>4 DEF DedicatedInv, PlansAvoidDedicated, Root
  <2>6. DedicatedIsExclusive'
    <3> SUFFICES ASSUME NEW r \in Undisputed', NEW i \in DOMAIN server[r].nics,
                        IsPort(server[r].flavor.interfaces[i]), NEW nic \in Nics,
                        Root(nic) = Root(server[r].nics[i])
                 PROVE  nicOf'[nic] \in {r, NoServer}
      BY <2>1 DEF DedicatedIsExclusive, Root, Undisputed
    <3>1. nicOf[nic] \in {r, NoServer}
      BY <2>4 DEF DedicatedInv, DedicatedIsExclusive
    <3>2. QED
      BY <2>1, <3>1
  <2>7. QED
    BY <2>2, <2>3, <2>5, <2>6 DEF DedicatedInv
<1>6. CASE UNCHANGED vars
  <2>1. UNCHANGED tables /\ plan' = plan /\ Active' = Active
    BY <1>6 DEF vars, Active
  <2>2. PlansAvoidDedicated'
    BY <1>2, <2>1, SameTables DEF DedicatedInv, PlansAvoidDedicated, Root
  <2>3. QED
    BY <1>2, <2>1, <2>2 DEF DedicatedInv
<1>7. QED
  BY <1>3, <1>4, <1>5, <1>6 DEF Next

\* The port of a dedicated interface of a server created alone carries no other
\* server, whatever the nodes and the flavors, as long as no interface that
\* shares a port asks for no bandwidth.
THEOREM DedicatedStaysExclusive == SharedAskBandwidth /\ Spec => []DedicatedIsExclusive
<1> DEFINE Inv == PlacedInv /\ DedicatedInv
<1>1. SharedAskBandwidth /\ Init => Inv
  <2> SUFFICES ASSUME SharedAskBandwidth, Init PROVE DedicatedInv
    BY InitPlaced
  <2>1. Active = {} /\ Placed = {} /\ Undisputed = {}
    BY DEF Init, Active, Placed, Undisputed
  <2>2. QED
    BY <2>1 DEF Init, DedicatedInv, HeldAreCharged, DedicatedAreCharged, PlansAvoidDedicated,
                DedicatedIsExclusive
<1>2. Inv /\ [Next]_vars => Inv'
  BY NextPlaced, NextDedicated
<1>3. Inv => DedicatedIsExclusive
  BY DEF DedicatedInv
<1>4. QED
  BY <1>1, <1>2, <1>3, PTL DEF Spec

=============================================================================
