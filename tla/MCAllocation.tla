---------------------------- MODULE MCAllocation ----------------------------
(* Allocation for TLC: one compute node with a NUMA node that has two cores *)
(* and a card, and another with one core.                                  *)
EXTENDS Allocation, TLC
CONSTANTS x, n1, n2, k1, k2, k3, p1, v1, v2

MCHostRam == x :> 2
MCHostCpus == x :> 2
MCHostOf == n1 :> x @@ n2 :> x
MCHugepages == n1 :> 3 @@ n2 :> 1
MCNumaOfCore == k1 :> n1 @@ k2 :> n1 @@ k3 :> n2
MCNumaOfPf == p1 :> n1
MCSpeed == p1 :> 10
MCRootOf == v1 :> p1 @@ v2 :> p1

Asks(type, nb, mem, ram, cpus, ifaces) ==
  [proc_req_type |-> type, proc_req_nb |-> nb, memory |-> mem, ram |-> ram,
   vcpus |-> cpus, interfaces |-> ifaces]
If(dedicated, bandwidth) == [dedicated |-> dedicated, bandwidth |-> bandwidth]

\* Cores with huge pages and a function; threads; pairs with a whole port; a
\* thread with a function that is not shared; and nothing in particular.
MixedFlavors ==
  {Asks("cores", 1, 2, 1, 1, <<If("no", 5)>>),
   Asks("threads", 3, 0, 1, 0, << >>),
   Asks("paired-threads", 1, 1, 0, 1, <<If("yes", 8)>>),
   Asks("threads", 1, 1, 0, 0, <<If("no", 2), If("yes:sriov", 1)>>),
   Asks("threads", 1, 1, 0, 0, <<If("yes:sriov", 10)>>),
   Asks("threads", 0, 0, 1, 2, << >>)}

CoreFlavors == {Asks("cores", 1, 1, 0, 0, << >>)}

\* A function without bandwidth, and one that is not shared.
ZeroFlavors ==
  {Asks("threads", 1, 1, 0, 0, <<If("no", 0)>>),
   Asks("threads", 1, 1, 0, 0, <<If("yes:sriov", 10)>>)}

Symmetry ==
  Permutations(Servers) \cup Permutations(HttpThreads)
    \cup Permutations({k1, k2}) \cup Permutations(Vfs)
=============================================================================
