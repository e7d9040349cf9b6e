----------------------------- MODULE Allocation -----------------------------
(***************************************************************************)
(* The placement of servers: the resources of the compute nodes in the     *)
(* database, and the requests that create and delete servers.              *)
(*                                                                         *)
(* create_server chooses a NUMA node, hardware threads and network cards   *)
(* with several readings, each under db_lock; new_instance then writes the *)
(* choice in one transaction on the connection of the http thread, without *)
(* looking again.  So two requests may choose the same resource; what the  *)
(* tables themselves exclude is that one mac address is inserted twice.    *)
(*                                                                         *)
(* Abstracted: the order in which NUMA nodes, cores and cards are tried (a *)
(* request takes any that pass the tests of the code, or fails); bridges,  *)
(* devices and images; cards not connected to the switch; resources whose  *)
(* status is not "ok"; mac addresses given by the client, so that those of *)
(* the cards are used.                                                     *)
(***************************************************************************)
EXTENDS Integers, Sequences, FiniteSets, Functions

CONSTANTS
  Hosts, HostRam, HostCpus,  \* nodes; memory and cpus not set apart
  Numas, HostOf, Hugepages,  \* NUMA nodes; their node; huge pages in GB
  Cores, NumaOfCore,         \* physical cores, two threads each
  Pfs, NumaOfPf, Speed,      \* physical ports of the cards
  Vfs, RootOf,               \* their virtual functions
  HttpThreads,
  Servers,                   \* uuids, used again after a deletion
  Flavors,                   \* bound: what clients ask for
  NoServer,                  \* null
  NoPlan                     \* no creation in progress

Threads == Cores \X {1, 2}
Nics == Pfs \cup Vfs
Root(nic) == IF nic \in Pfs THEN nic ELSE RootOf[nic]
NumaOfNic(nic) == NumaOfPf[Root(nic)]
VfsOf(pf) == {vf \in Vfs : RootOf[vf] = pf}
NicsOf(pf) == VfsOf(pf) \cup {pf}

\* An interface of a flavor, "dedicated" as in the request.
Iface == [dedicated : {"yes", "yes:sriov", "no"}, bandwidth : Nat]
ProcTypes == {"cores", "paired-threads", "threads"}

\* A flavor has one NUMA node at most; its interfaces are in the order in
\* which create_server picks their functions: sriov_list, then port_list.
Flavor == [proc_req_type : ProcTypes, proc_req_nb : Nat, memory : Nat,
           ram : Nat, vcpus : Nat, interfaces : Seq(Iface)]

ASSUME NodesAreTyped ==
  /\ HostRam \in [Hosts -> Nat] /\ HostCpus \in [Hosts -> Nat]
  /\ HostOf \in [Numas -> Hosts] /\ Hugepages \in [Numas -> Nat]
  /\ NumaOfCore \in [Cores -> Numas] /\ NumaOfPf \in [Pfs -> Numas]
  /\ Speed \in [Pfs -> Nat \ {0}] /\ RootOf \in [Vfs -> Pfs]
  /\ Pfs \cap Vfs = {} /\ IsFiniteSet(Cores) /\ IsFiniteSet(Vfs)

ASSUME FlavorsAreTyped == \A f \in Flavors : f \in Flavor

\* What a creation has chosen so far, and what is written for a server.  The
\* field alone is history: no other creation was in progress during this one.
Plan == [at : {"pin", "nics", "insert"}, flavor : Flavors, numa : Numas,
         nics : Seq(Nics), threads : SUBSET Threads, picked : Nat, alone : BOOLEAN]
Row == [host : Hosts, numa : Numas, flavor : Flavors, memory : Nat, ram : Nat,
        vcpus : Nat, nics : Seq(Nics), alone : BOOLEAN]

ASSUME NullsAreDistinct == NoServer \notin Servers \cup Row /\ NoPlan \notin Plan

VARIABLES
  threadOf,   \* threadOf[t]: resources_core.instance_id
  nicOf,      \* nicOf[nic]: resources_port.instance_id
  nicUsed,    \* nicUsed[nic]: resources_port.Mbps_used
  server,     \* server[s]: the row of instances, with its memory and ports
  plan        \* plan[h]: the local variables of a creation

tables == <<threadOf, nicOf, nicUsed, server>>
vars == <<tables, plan>>

Init ==
  /\ threadOf = [t \in Threads |-> NoServer]
  /\ nicOf = [nic \in Nics |-> NoServer]
  /\ nicUsed = [nic \in Nics |-> 0]
  /\ server = [s \in Servers |-> NoServer]
  /\ plan = [h \in HttpThreads |-> NoPlan]

-----------------------------------------------------------------------------
(* What is free *)

Placed == {s \in Servers : server[s] # NoServer}

FreeThreads(n) ==
  {t \in Threads : NumaOfCore[t[1]] = n /\ threadOf[t] = NoServer}

\* Cores with both threads free.
FreeCores(n) ==
  {k \in Cores : {k} \X {1, 2} \subseteq FreeThreads(n)}

Total(amount, S) == SumFunctionOnSet(amount, S)

MemoryOf == [s \in Placed |-> server[s].memory]
RamOf == [s \in Placed |-> server[s].ram]
CpusOf == [s \in Placed |-> server[s].vcpus]

Consumed(n) == Total(MemoryOf, {s \in Placed : server[s].numa = n})
UsedRam(x) == Total(RamOf, {s \in Placed : server[s].host = x})
UsedCpus(x) == Total(CpusOf, {s \in Placed : server[s].host = x})

MbpsConsumed(pf) == Total(nicUsed, NicsOf(pf))

AvailableSRIOV(pf) == Cardinality({vf \in VfsOf(pf) : nicOf[vf] = NoServer})

-----------------------------------------------------------------------------
(* get_numas *)

\* Huge pages exclude other memory, pinned threads exclude other cpus.
Ram(f) == IF f.memory > 0 THEN 0 ELSE f.ram
Vcpus(f) == IF f.proc_req_nb > 0 THEN 0 ELSE f.vcpus
Complete(f) == (f.memory > 0 \/ f.ram > 0) /\ (f.proc_req_nb > 0 \/ f.vcpus > 0)

\* GetHostByMemCpu
HostHasRoom(x, f) ==
  /\ UsedRam(x) + Ram(f) <= HostRam[x]
  /\ UsedCpus(x) + Vcpus(f) <= HostCpus[x]

\* Mutant: what is asked for is not counted.
NumaHasSomeMemory(n, f) == Consumed(n) < Hugepages[n]

\* GetNumaByMemory
NumaHasMemory(n, f) == Consumed(n) + f.memory <= Hugepages[n]

\* GetNumaByThread and GetNumaByCore: a NUMA node with nothing free is not
\* in the result, even if nothing is asked for.
NumaHasThreads(n, f) ==
  LET free == IF f.proc_req_type = "threads" THEN FreeThreads(n) ELSE FreeCores(n)
  IN  free # {} /\ Cardinality(free) >= f.proc_req_nb

IsPort(iface) == iface.dedicated # "no"
PortsOn(f, roots, pf) ==
  {i \in DOMAIN roots : IsPort(f.interfaces[i]) /\ roots[i] = pf}
SriovsOn(f, roots, pf) ==
  {i \in DOMAIN roots : ~IsPort(f.interfaces[i]) /\ roots[i] = pf}

Asked(f, ifaces) == Total([i \in ifaces |-> f.interfaces[i].bandwidth], ifaces)

\* Mutant: a dedicated port need not be empty.
PortsFitInUse(n, f, roots) ==
  /\ \A i \in DOMAIN roots : NumaOfPf[roots[i]] = n /\ nicOf[roots[i]] = NoServer
  /\ \A i \in DOMAIN roots : f.interfaces[i].bandwidth <= Speed[roots[i]]

\* The choice of physical ports, one for each interface.  port_list takes
\* empty ports; sriov_list takes what is left of the speed and functions.
PortsFit(n, f, roots) ==
  /\ \A i \in DOMAIN roots : NumaOfPf[roots[i]] = n /\ nicOf[roots[i]] = NoServer
  /\ \A i \in DOMAIN roots : IsPort(f.interfaces[i]) =>
       MbpsConsumed(roots[i]) = 0 /\ f.interfaces[i].bandwidth <= Speed[roots[i]]
  /\ \A pf \in Pfs :
       LET ports  == PortsOn(f, roots, pf)
           sriovs == SriovsOn(f, roots, pf)
       IN  /\ Cardinality(ports) <= 1
           /\ Cardinality(sriovs) <= AvailableSRIOV(pf)
           /\ sriovs # {} =>
                MbpsConsumed(pf) + Cardinality(ports) * Speed[pf] + Asked(f, sriovs)
                  <= Speed[pf]

NumaFits(n, f, roots) ==
  /\ HostHasRoom(HostOf[n], f)
  /\ NumaHasMemory(n, f)
  /\ NumaHasThreads(n, f)
  /\ PortsFit(n, f, roots)

-----------------------------------------------------------------------------
(* http_post_server_id and create_server *)

\* The creations in progress with one more.
Begun(h, p) ==
  [g \in HttpThreads |->
     CASE g = h -> p
       [] g # h /\ plan[g] # NoPlan -> [plan[g] EXCEPT !.alone = FALSE]
       [] OTHER -> NoPlan]

ChooseNuma(h, f) ==
  /\ plan[h] = NoPlan
  /\ Complete(f)
  /\ \E n \in Numas : \E roots \in [DOMAIN f.interfaces -> Pfs] :
       /\ NumaFits(n, f, roots)
       /\ plan' = Begun(h, [at |-> "pin", flavor |-> f, numa |-> n, nics |-> roots,
                            threads |-> {}, picked |-> 0,
                            alone |-> \A g \in HttpThreads \ {h} : plan[g] = NoPlan])
  /\ UNCHANGED tables

\* The threads taken for a request, given those that are free.  If there are
\* fewer than when the node was chosen, all of them are taken.
Least(a, b) == IF a < b THEN a ELSE b
Pinned(f, n, ts) ==
  LET whole(k) == {k} \X {1, 2}
      singles == {t \in FreeThreads(n) : t[1] \notin FreeCores(n)}
      halved == {k \in FreeCores(n) : Cardinality(whole(k) \cap ts) = 1}
  IN
  /\ ts \subseteq FreeThreads(n)
  /\ IF f.proc_req_type = "threads"
       THEN /\ Cardinality(ts) = Least(f.proc_req_nb, Cardinality(FreeThreads(n)))
            /\ ts \subseteq singles \/ singles \subseteq ts
            /\ Cardinality(halved) <= 1
       ELSE \E ks \in SUBSET FreeCores(n) :
              /\ Cardinality(ks) = Least(f.proc_req_nb, Cardinality(FreeCores(n)))
              /\ ts = ks \X {1, 2}

\* Mutant: the second thread of a core is not reserved.
PinFirstThreads(h) ==
  LET p == plan[h] IN
  /\ p # NoPlan
  /\ p.at = "pin"
  /\ FreeThreads(p.numa) # {}
  /\ \E ts \in SUBSET FreeThreads(p.numa) :
       /\ Pinned(p.flavor, p.numa, ts)
       /\ plan' = [plan EXCEPT ![h].threads =
                     IF p.flavor.proc_req_type = "cores" THEN {t \in ts : t[2] = 1} ELSE ts,
                               ![h].at = "nics"]
  /\ UNCHANGED tables

Pin(h) ==
  LET p == plan[h] IN
  /\ p # NoPlan
  /\ p.at = "pin"
  /\ IF p.flavor.proc_req_nb = 0
       THEN /\ p.flavor.interfaces = << >>
            /\ plan' = [plan EXCEPT ![h].at = "insert"]
       ELSE /\ FreeThreads(p.numa) # {}
            /\ \E ts \in SUBSET FreeThreads(p.numa) :
                 /\ Pinned(p.flavor, p.numa, ts)
                 /\ plan' = [plan EXCEPT ![h].threads = ts, ![h].at = "nics"]
  /\ UNCHANGED tables

\* The functions of the port that are free now and not in this plan yet.
Candidates(h) ==
  LET p == plan[h]
      i == p.picked + 1
  IN  {vf \in VfsOf(p.nics[i]) :
         /\ nicOf[vf] = NoServer /\ nicUsed[vf] = 0
         /\ \A j \in 1..p.picked : p.nics[j] # vf}

\* One reading for each interface that needs a function of its port.
PickNic(h) ==
  LET p == plan[h]
      i == p.picked + 1
  IN
  /\ p # NoPlan
  /\ p.at = "nics"
  /\ i <= Len(p.flavor.interfaces)
  /\ IF p.flavor.interfaces[i].dedicated = "yes"
       THEN plan' = [plan EXCEPT ![h].picked = i]
       ELSE \E vf \in Candidates(h) :
              plan' = [plan EXCEPT ![h].nics[i] = vf, ![h].picked = i]
  /\ UNCHANGED tables

Ready(h) ==
  /\ plan[h] # NoPlan
  /\ \/ plan[h].at = "insert"
     \/ plan[h].at = "nics" /\ plan[h].picked = Len(plan[h].flavor.interfaces)

\* Mbps_used: what an interface is charged with; all of its port if dedicated.
Charge(f, nics, i) ==
  IF IsPort(f.interfaces[i]) THEN Speed[Root(nics[i])] ELSE f.interfaces[i].bandwidth

ChosenNics(p) == {p.nics[i] : i \in DOMAIN p.nics}

\* Mutant: no unique key for mac.
MacsAreNewUnchecked(nics) == TRUE

\* ports.mac is unique: no chosen card is in use.
MacsAreNew(nics) == \A nic \in nics : nicOf[nic] = NoServer

\* new_instance: everything or, on an error, nothing.
NewInstance(h, s) ==
  LET p == plan[h]
      f == p.flavor
  IN
  /\ Ready(h)
  /\ server[s] = NoServer
  /\ MacsAreNew(ChosenNics(p))
  /\ server' = [server EXCEPT ![s] =
                 [host |-> HostOf[p.numa], numa |-> p.numa, flavor |-> f,
                  memory |-> f.memory, ram |-> Ram(f), vcpus |-> Vcpus(f),
                  nics |-> p.nics, alone |-> p.alone]]
  /\ threadOf' = [t \in Threads |-> IF t \in p.threads THEN s ELSE threadOf[t]]
  /\ nicOf' = [nic \in Nics |-> IF nic \in ChosenNics(p) THEN s ELSE nicOf[nic]]
  /\ nicUsed' = [nic \in Nics |->
                  IF nic \in ChosenNics(p)
                    THEN Charge(f, p.nics, CHOOSE i \in DOMAIN p.nics : p.nics[i] = nic)
                    ELSE nicUsed[nic]]
  /\ plan' = [plan EXCEPT ![h] = NoPlan]

\* The request ends without a server: nothing left of what was read, the
\* transaction is rolled back, or the process is stopped.
Abort(h) ==
  /\ plan[h] # NoPlan
  /\ plan' = [plan EXCEPT ![h] = NoPlan]
  /\ UNCHANGED tables

-----------------------------------------------------------------------------
(* delete_instance *)

\* Mutant: resources_core is forgotten.
DeleteKeepsThreads(s) ==
  /\ server[s] # NoServer
  /\ server' = [server EXCEPT ![s] = NoServer]
  /\ nicOf' = [nic \in Nics |-> IF nicOf[nic] = s THEN NoServer ELSE nicOf[nic]]
  /\ nicUsed' = [nic \in Nics |-> IF nicOf[nic] = s THEN 0 ELSE nicUsed[nic]]
  /\ UNCHANGED <<threadOf, plan>>

DeleteInstance(s) ==
  /\ server[s] # NoServer
  /\ server' = [server EXCEPT ![s] = NoServer]
  /\ threadOf' = [t \in Threads |-> IF threadOf[t] = s THEN NoServer ELSE threadOf[t]]
  /\ nicOf' = [nic \in Nics |-> IF nicOf[nic] = s THEN NoServer ELSE nicOf[nic]]
  /\ nicUsed' = [nic \in Nics |-> IF nicOf[nic] = s THEN 0 ELSE nicUsed[nic]]
  /\ UNCHANGED plan

Next ==
  \/ \E h \in HttpThreads :
       \/ \E f \in Flavors : ChooseNuma(h, f)
       \/ Pin(h) \/ PickNic(h) \/ Abort(h)
       \/ \E s \in Servers : NewInstance(h, s)
  \/ \E s \in Servers : DeleteInstance(s)

Spec == Init /\ [][Next]_vars

-----------------------------------------------------------------------------
(* Properties *)

\* The types, and the foreign keys: a resource belongs to an existing server.
TypeOK ==
  /\ server \in [Servers -> Row \cup {NoServer}]
  /\ threadOf \in [Threads -> Placed \cup {NoServer}]
  /\ nicOf \in [Nics -> Placed \cup {NoServer}]
  /\ nicUsed \in [Nics -> Nat]
  /\ plan \in [HttpThreads -> Plan \cup {NoPlan}]

\* resources_port agrees with the ports of every server, however creations
\* overlap: a card in the ports of a server is held by it, and no other is.
CardsAreOwn ==
  \A nic \in Nics : \A s \in Servers :
    nicOf[nic] = s <=> s \in Placed /\ \E i \in DOMAIN server[s].nics : server[s].nics[i] = nic

Undisputed == {s \in Placed : server[s].alone}

\* Threads of the NUMA node of the server, as many as asked or twice as many
\* in whole cores.
HasItsThreads(s) ==
  LET f == server[s].flavor
      mine == {t \in Threads : threadOf[t] = s}
  IN
  /\ \A t \in mine : NumaOfCore[t[1]] = server[s].numa
  /\ IF f.proc_req_type = "threads"
       THEN Cardinality(mine) = f.proc_req_nb
       ELSE \E ks \in SUBSET Cores :
              Cardinality(ks) = f.proc_req_nb /\ mine = ks \X {1, 2}

\* A card of that node for each interface, with its bandwidth.
HasItsCards(s) ==
  LET f == server[s].flavor IN
  /\ Len(server[s].nics) = Len(f.interfaces)
  /\ \A i \in DOMAIN f.interfaces :
       /\ NumaOfNic(server[s].nics[i]) = server[s].numa
       /\ nicUsed[server[s].nics[i]] >= f.interfaces[i].bandwidth

Entitled(s) == HasItsThreads(s) /\ HasItsCards(s)

\* A server that was created alone has, from then on and whatever is created
\* or deleted later, the threads and the bandwidth that its flavor asks for,
\* on one NUMA node, and its cores and pairs are whole cores.
UndisputedAreEntitled == \A s \in Undisputed : Entitled(s)

\* The same of every server, created alone or not.
AllAreEntitled == \A s \in Placed : Entitled(s)

\* The servers that were created alone never have, together, more memory, cpus
\* or bandwidth than there is.
NoOvercommit ==
  /\ \A n \in Numas :
       Total(MemoryOf, {s \in Undisputed : server[s].numa = n}) <= Hugepages[n]
  /\ \A x \in Hosts :
       LET here == {s \in Undisputed : server[s].host = x} IN
       /\ Total(RamOf, here) <= HostRam[x]
       /\ Total(CpusOf, here) <= HostCpus[x]
  /\ \A pf \in Pfs :
       Total(nicUsed, {nic \in NicsOf(pf) : nicOf[nic] \in Undisputed}) <= Speed[pf]

\* The physical port of an interface that is dedicated, as a whole or as a
\* function that is not shared, carries no other server.
DedicatedIsExclusive ==
  \A s \in Undisputed : \A i \in DOMAIN server[s].nics :
    IsPort(server[s].flavor.interfaces[i]) =>
      \A nic \in Nics :
        Root(nic) = Root(server[s].nics[i]) => nicOf[nic] \in {s, NoServer}

=============================================================================
