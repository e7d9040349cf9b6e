------------------------------ MODULE Networks ------------------------------
(***************************************************************************)
(* new_network, edit_network and delete_network of ovim.py, for the http   *)
(* threads.  Each thread has a vim_db of its own and in it a cache of the  *)
(* VLANs in use; the bridges of the configuration and the list of networks *)
(* with a dhcp server are shared, are changed after the database and       *)
(* without a lock, and are made anew from the database by start_service.   *)
(*                                                                         *)
(* Kept: every access to the database as a step of its own, the loop of    *)
(* get_free_net_vlan turn by turn, the two unique keys of nets.            *)
(*                                                                         *)
(* Abstracted: network_type is 'bridge' ('ovs' chooses VLANs in the same   *)
(* way for a region of its own); a network is one of data, or one of a     *)
(* bridge asked for by name (without the name new_network raises TypeError *)
(* at bridge_net[2], or finds no free bridge: it fails in either case); of *)
(* bind_net, dns, routes and links nothing is kept, nor of the flows of a  *)
(* network that is edited (OpenflowThread has them).                       *)
(***************************************************************************)
EXTENDS HttpRequests, FiniteSets

CONSTANTS
  Nets,        \* the uuids that new_row gives
  None,        \* no row, no network, no bridge, no vlan
  Bridges,     \* bridge_ifaces of the configuration
  DhcpBridges, \* those of them in dhcp_server
  ListedNames, \* dhcp_server['nets']: names of networks
  Macs,        \* mac addresses of ports of servers
  FirstVlan,   \* net_vlan_range[0]
  EndVlan,     \* net_vlan_range[1], which is never given
  ListSize,    \* 25: the rows that __get_used_net_vlan reads
  Explicit     \* bound: the VLANs that requests name themselves

VARIABLES
  nets,        \* nets[n]: its row
  bridgeNet,   \* bridgeNet[b]: the network config['bridge_nets'] has for it
  dhcpNets,    \* dhcpNets[n]: how often it is in config['dhcp_nets']
  cache,       \* cache[h]: vlan_config of the region of data networks
  port,        \* port[m]: the port with this mac; its field net is its network
  (* history *)
  made,        \* the uuids given
  unseen,      \* unseen[h]: VLANs that others have taken since h read the list, or
               \* that were in use when it could not be read
  raced,       \* networks deleted before new_network had marked them
  moved,       \* networks whose provider was edited, bridges they had or got
  dropped,     \* networks whose edit may have left dhcp_nets wrong
  passed       \* networks that a start passed over for another of their name

netVars == <<nets, bridgeNet, dhcpNets, cache, made, unseen, raced, moved, dropped, passed>>

ASSUME VlansAreNumbers ==
  /\ FirstVlan \in Nat
  /\ EndVlan \in Nat
  /\ FirstVlan < EndVlan
  /\ ListSize \in Nat \ {0}
  /\ Explicit \subseteq Nat
  /\ DhcpBridges \subseteq Bridges
  /\ None \notin Nets \cup Bridges \cup Nat \cup ListedNames
  /\ IsFiniteSet(Nets)

\* The names that matter; None is any that is not listed.
Names == ListedNames \cup {None}

\* A row of nets: a network of data has no bridge, and one of a bridge no
\* region, so that its VLAN need not be unique; no key forbids that several networks
\* have the same name.
Row == [bridge : Bridges \cup {None}, vlan : Nat \cup {None}, name : Names]

ASSUME NoneIsNoRow == None \notin Row

Exists(n) == nets[n] # None

VlansInUse == {nets[n].vlan : n \in {k \in Nets : Exists(k) /\ nets[k].bridge = None}}

\* The unique keys of nets, for row r of network n.
Conflicts(n, r) ==
  \E k \in Nets \ {n} :
    /\ Exists(k)
    /\ nets[k].bridge = r.bridge
    /\ r.bridge = None => nets[k].vlan = r.vlan

\* The networks that the configuration wants a dhcp server for.
DhcpServed(r) == r.name # None \/ r.bridge \in DhcpBridges

\* Mutant: it is taken to be there.
RemovedAlways(n) == [dhcpNets EXCEPT ![n] = @ - 1]

\* list.remove, if it is there.
Removed(n) == [dhcpNets EXCEPT ![n] = IF @ = 0 THEN 0 ELSE @ - 1]

-----------------------------------------------------------------------------
(* new_network *)

\* A bridge has to be free; a network of data without a VLAN gets one.
NewNetwork(h, r) ==
  /\ made # Nets
  /\ r.bridge # None => bridgeNet[r.bridge] = None
  /\ LET n == CHOOSE k \in Nets : k \notin made
     IN  /\ made' = made \cup {n}
         /\ Begin(h, [op |-> IF r.bridge = None /\ r.vlan = None THEN "choose" ELSE "insert",
                      net |-> n, row |-> r, chosen |-> FALSE])
  /\ UNCHANGED <<nets, bridgeNet, dhcpNets, cache, unseen, raced, moved, dropped, passed, faults>>

\* __get_used_net_vlan: the first VLANs in use from v on.
UsedFrom(v) ==
  LET all == {x \in VlansInUse : x >= v}
  IN  {x \in all : Cardinality({y \in all : y < x}) < ListSize}

\* The list ends before the VLANs in use do.
MustRead(last, used) ==
  \/ used = None
  \/ Cardinality(used) = ListSize /\ \A v \in used : last >= v

\* Mutant: the list is kept when the search starts from the beginning.
KeepList(last) == FALSE

StartsAgain(last) == last + 1 = EndVlan

\* Mutant: the search stays where it was.
SameVlan(last) == IF last < FirstVlan THEN FirstVlan ELSE last

NextVlan(last) == IF last + 1 = EndVlan THEN FirstVlan ELSE last + 1

Turn(h, last, used) ==
  /\ cache' = [cache EXCEPT ![h] = [last |-> last, used |-> used]]
  /\ Continue(h, CASE used = None -> Idle
                   [] used # None /\ last \in used -> http[h]
                   [] OTHER -> [http[h] EXCEPT !.op = "insert", !.row.vlan = last, !.chosen = TRUE])

\* One turn of the loop of get_free_net_vlan.  Nobody looks whether the list
\* could be read: the old one is used once more, and if there is none the
\* TypeError ends the request.
GetFreeNetVlan(h) ==
  /\ http[h].op = "choose"
  /\ LET last == NextVlan(cache[h].last)
         kept == IF StartsAgain(cache[h].last) THEN None ELSE cache[h].used
     IN  IF ~MustRead(last, kept)
         THEN Turn(h, last, kept) /\ UNCHANGED <<unseen, faults>>
         ELSE \/ /\ Turn(h, last, UsedFrom(last))
                 /\ unseen' = [unseen EXCEPT ![h] = {}]
                 /\ UNCHANGED faults
              \/ /\ Turn(h, last, kept)
                 /\ unseen' = [unseen EXCEPT ![h] = @ \cup VlansInUse]
                 /\ Fault
  /\ UNCHANGED <<nets, bridgeNet, dhcpNets, made, raced, moved, dropped, passed>>

\* A VLAN the caches do not know of, but for the one it was chosen with.
Noted(h, r, chosen) ==
  IF r.bridge # None THEN unseen
  ELSE [k \in HttpThreads |-> IF k = h /\ chosen THEN unseen[k] ELSE unseen[k] \cup {r.vlan}]

InsertNet(h) ==
  /\ http[h].op = "insert"
  /\ LET n == http[h].net
         r == http[h].row
     IN  IF Conflicts(n, r)
         THEN Finish(h) /\ UNCHANGED <<nets, unseen>>
         ELSE /\ nets' = [nets EXCEPT ![n] = r]
              /\ unseen' = Noted(h, r, http[h].chosen)
              /\ Continue(h, [http[h] EXCEPT !.op = "mark"])
  /\ UNCHANGED <<bridgeNet, dhcpNets, cache, made, raced, moved, dropped, passed, faults>>

\* Then the configuration in memory follows.
MarkNet(h) ==
  /\ http[h].op = "mark"
  /\ LET n == http[h].net
         r == http[h].row
     IN  /\ bridgeNet' = IF r.bridge = None THEN bridgeNet ELSE [bridgeNet EXCEPT ![r.bridge] = n]
         /\ dhcpNets' = IF DhcpServed(r) THEN [dhcpNets EXCEPT ![n] = @ + 1] ELSE dhcpNets
  /\ Finish(h)
  /\ UNCHANGED <<nets, cache, made, unseen, raced, moved, dropped, passed, faults>>

-----------------------------------------------------------------------------
(* edit_network *)

\* The row is read; the request changes one column of it.  The bridge is not
\* looked for in the configuration.
EditNetwork(h, n, column, value) ==
  /\ Exists(n)
  /\ column = "vlan" => nets[n].bridge = None
  /\ column = "bridge" => nets[n].bridge # None
  /\ Begin(h, [op |-> "update", net |-> n, column |-> column, value |-> value,
               old |-> nets[n]])
  /\ UNCHANGED <<netVars, faults>>

UpdateNet(h) ==
  /\ http[h].op = "update"
  /\ LET n == http[h].net
         c == http[h].column
         r == [nets[n] EXCEPT ![c] = http[h].value]
     IN  IF ~Exists(n) \/ r = nets[n] \/ Conflicts(n, r)
         THEN Finish(h) /\ UNCHANGED <<nets, unseen, moved>>
         ELSE /\ nets' = [nets EXCEPT ![n] = r]
              /\ unseen' = IF c = "vlan" THEN Noted(h, r, FALSE) ELSE unseen
              /\ moved' = IF c = "bridge" THEN moved \cup {n, nets[n].bridge, r.bridge} ELSE moved
              /\ Continue(h, [http[h] EXCEPT !.op = "redhcp"])
  /\ UNCHANGED <<bridgeNet, dhcpNets, cache, made, raced, dropped, passed, faults>>

Disturbed(h, n) ==
  \E k \in HttpThreads \ {h} : http[k].op \in {"mark", "update", "redhcp"} /\ http[k].net = n

\* dhcp_nets is made right for the name the request or the row read had; the
\* bridge is looked for in bind_type, which never names one.
EditDhcpNets(h) ==
  /\ http[h].op = "redhcp"
  /\ LET n == http[h].net
         name == IF http[h].column = "name" THEN http[h].value ELSE http[h].old.name
     IN  /\ dhcpNets' = [Removed(n) EXCEPT ![n] = IF name = None THEN @ ELSE @ + 1]
         /\ dropped' = IF http[h].old.bridge \in DhcpBridges \/ Disturbed(h, n)
                       THEN dropped \cup {n} ELSE dropped
  /\ Finish(h)
  /\ UNCHANGED <<nets, bridgeNet, cache, made, unseen, raced, moved, passed, faults>>

-----------------------------------------------------------------------------
(* delete_network *)

\* The foreign key of ports keeps a network with ports.
DeleteNetwork(h, n) ==
  /\ Exists(n)
  /\ \A m \in Macs : port[m] # None => port[m].net # n
  /\ nets' = [nets EXCEPT ![n] = None]
  /\ Begin(h, [op |-> "free", net |-> n])
  /\ raced' = IF \E k \in HttpThreads : http[k].op = "mark" /\ http[k].net = n
              THEN raced \cup {n} ELSE raced
  /\ UNCHANGED <<bridgeNet, dhcpNets, cache, made, unseen, moved, dropped, passed, faults>>

\* Mutant: the bridge is left to the network.
KeepBridge(h) ==
  /\ http[h].op = "free"
  /\ dhcpNets' = Removed(http[h].net)
  /\ Finish(h)
  /\ UNCHANGED <<nets, bridgeNet, cache, made, unseen, raced, moved, dropped, passed, faults>>

FreeNet(h) ==
  /\ http[h].op = "free"
  /\ bridgeNet' = [b \in Bridges |-> IF bridgeNet[b] = http[h].net THEN None ELSE bridgeNet[b]]
  /\ dhcpNets' = Removed(http[h].net)
  /\ Finish(h)
  /\ UNCHANGED <<nets, cache, made, unseen, raced, moved, dropped, passed, faults>>

-----------------------------------------------------------------------------
(* start_service, after a stop anywhere *)

LoadedBridge(b) ==
  IF \E n \in Nets : Exists(n) /\ nets[n].bridge = b
  THEN CHOOSE n \in Nets : Exists(n) /\ nets[n].bridge = b
  ELSE None

\* nets[0] of the networks with a name, in whatever order the database has them.
NamedFirst(first) ==
  \A x \in ListedNames :
    LET named == {n \in Nets : Exists(n) /\ nets[n].name = x}
    IN  first[x] \in (IF named = {} THEN {None} ELSE named)

OnDhcpBridge(n) == Exists(n) /\ nets[n].bridge \in DhcpBridges

\* How often a start puts n in dhcp_nets: for its bridge and for its name.
TimesLoaded(first, n) ==
  (IF OnDhcpBridge(n) THEN 1 ELSE 0) + (IF \E x \in ListedNames : first[x] = n THEN 1 ELSE 0)

PassedOver(first) ==
  {n \in Nets : Exists(n) /\ DhcpServed(nets[n]) /\ TimesLoaded(first, n) = 0}

LoadNetworks ==
  /\ bridgeNet' = [b \in Bridges |-> LoadedBridge(b)]
  /\ \E first \in [ListedNames -> Nets \cup {None}] :
       /\ NamedFirst(first)
       /\ dhcpNets' = [n \in Nets |-> TimesLoaded(first, n)]
       /\ passed' = PassedOver(first)
  /\ cache' = [h \in HttpThreads |-> [last |-> FirstVlan - 1, used |-> None]]
  /\ unseen' = [h \in HttpThreads |-> {}]
  /\ raced' = {} /\ moved' = {} /\ dropped' = {}
  /\ UNCHANGED <<nets, made>>

\* The first start, with the networks the database has.
NetworksInit(stored) ==
  /\ nets = stored
  /\ made = {n \in Nets : Exists(n)}
  /\ bridgeNet = [b \in Bridges |-> LoadedBridge(b)]
  /\ \E first \in [ListedNames -> Nets \cup {None}] :
       /\ NamedFirst(first)
       /\ dhcpNets = [n \in Nets |-> TimesLoaded(first, n)]
       /\ passed = PassedOver(first)
  /\ cache = [h \in HttpThreads |-> [last |-> FirstVlan - 1, used |-> None]]
  /\ unseen = [h \in HttpThreads |-> {}]
  /\ raced = {} /\ moved = {} /\ dropped = {}

DataRequest(h) ==
  \/ \E v \in Explicit \cup {None} : NewNetwork(h, [bridge |-> None, vlan |-> v, name |-> None])
  \/ \E n \in Nets, v \in Explicit : EditNetwork(h, n, "vlan", v)
  \/ \E n \in Nets : DeleteNetwork(h, n)

BridgeRequest(h) ==
  \/ \E b \in Bridges, x \in Names :
       NewNetwork(h, [bridge |-> b, vlan |-> None, name |-> x])
  \/ \E n \in Nets, b \in Bridges : EditNetwork(h, n, "bridge", b)
  \/ \E n \in Nets, x \in Names : EditNetwork(h, n, "name", x)
  \/ \E n \in Nets : DeleteNetwork(h, n)

NetworkStep(h) ==
  GetFreeNetVlan(h) \/ InsertNet(h) \/ MarkNet(h) \/ UpdateNet(h) \/ EditDhcpNets(h) \/ FreeNet(h)

-----------------------------------------------------------------------------
(* Properties *)

NetworksTypeOK ==
  /\ nets \in [Nets -> Row \cup {None}]
  /\ bridgeNet \in [Bridges -> Nets \cup {None}]
  /\ dhcpNets \in [Nets -> Nat]
  /\ \A h \in HttpThreads : cache[h].last \in (FirstVlan - 1)..(EndVlan - 1)

\* When all requests are answered the bridges in memory are taken as a start
\* of the service would find them.  The exceptions: a network deleted before
\* new_network marked its bridge keeps it, and edit_network does not look at
\* bridges at all.
BridgesAsLoaded ==
  AllAnswered =>
    \A b \in Bridges \ moved :
      bridgeNet[b] = LoadedBridge(b) \/ bridgeNet[b] \in raced \cup moved

\* And a network is in dhcp_nets if the configuration wants a dhcp server for
\* its bridge or its name.  The exceptions: one moved to another bridge, one on
\* a dhcp bridge that was edited in any way, one edited while another request
\* was at work on it, and one that the last start passed over because another
\* network had its name (a start takes one for each name, new_network all).
DhcpNetsAsLoaded ==
  AllAnswered =>
    \A n \in Nets \ (moved \cup dropped \cup passed) :
      Exists(n) => (dhcpNets[n] > 0 <=> DhcpServed(nets[n]))

\* The VLAN that get_free_net_vlan gives is free, or somebody else has taken
\* it since the thread read the list, or it was in use when the list was to be
\* read and the database failed: what the thread gave itself it never gives
\* again otherwise, not even when it starts from the beginning.
ChosenVlanIsFree ==
  \A h \in HttpThreads :
    (http[h].op = "insert" /\ http[h].chosen /\ http[h].row.vlan \in VlansInUse)
      => http[h].row.vlan \in unseen[h]

\* The search for a VLAN ends, unless there comes a time when all are in use.
VlanIsFound ==
  \A h \in HttpThreads :
    http[h].op = "choose" ~> (http[h].op # "choose" \/ FirstVlan..(EndVlan - 1) \subseteq VlansInUse)
=============================================================================
