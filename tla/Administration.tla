--------------------------- MODULE Administration ---------------------------
(***************************************************************************)
(* The requests of the two http threads together with the dhcp thread, on  *)
(* one database, and stops of the process at any point.  What the requests *)
(* of one area touch those of another do not look at, so that a behaviour  *)
(* keeps to one of them: "data", networks that get VLANs; "bridges",       *)
(* networks of bridges; "servers", servers on such a network with the dhcp *)
(* thread; "catalogue", tenants with their flavors and images;             *)
(* "controllers", openflow controllers and the ports at their switches.    *)
(***************************************************************************)
EXTENDS DhcpThread, Catalogue, Controllers

CONSTANTS Areas

VARIABLES area

vars == <<http, ops, faults, netVars, dhcpVars, catVars, ofcVars, area>>

\* What the database has at the first start: nothing, or a network whose
\* bridge or name has a dhcp server.
Stored(a) ==
  LET first == CHOOSE n \in Nets : TRUE
      rows == {r \in [bridge : Bridges, vlan : {None}, name : Names] :
                 (r.name = None) <=> (r.bridge \in DhcpBridges)}
  IN  IF a = "servers" THEN {[n \in Nets |-> IF n = first THEN r ELSE None] : r \in rows}
      ELSE {[n \in Nets |-> None]}

FirstOfc == CHOOSE c \in Ofcs : TRUE

Init ==
  /\ http = [h \in HttpThreads |-> Idle]
  /\ area \in Areas
  /\ ops = IF area \in {"bridges", "servers", "controllers"} THEN 1 ELSE 0
  /\ faults = 0
  /\ \E rows \in Stored(area) : NetworksInit(rows)
  /\ DhcpInit
  /\ CatalogueInit({CHOOSE t \in Tenants : TRUE})
  /\ \E d \in Dpids : ControllersInit([c \in Ofcs |-> IF area = "controllers" /\ c = FirstOfc THEN d ELSE Nothing])

Restart ==
  /\ Fault
  /\ http' = [h \in HttpThreads |-> Idle]
  /\ LoadNetworks
  /\ DhcpStart
  /\ CatalogueStop
  /\ StartOfcs
  /\ UNCHANGED <<ops, area>>

NetworkRequest(h) ==
  \/ area = "data" /\ DataRequest(h)
  \/ area = "bridges" /\ BridgeRequest(h)
  \/ /\ area = "servers"
     /\ \E n \in Nets :
          \/ DeleteNetwork(h, n)
          \/ \E x \in Names :
               Exists(n) /\ x # nets[n].name /\ EditNetwork(h, n, "name", x)

Next ==
  \/ \E h \in HttpThreads :
       /\ NetworkRequest(h) \/ NetworkStep(h)
       /\ UNCHANGED <<dhcpVars, catVars, ofcVars, area>>
  \/ /\ \/ \E h \in HttpThreads : (area = "servers" /\ DhcpRequest(h)) \/ DhcpStep(h)
        \/ \E m \in Macs : MacStep(m)
        \/ ThreadStep
        \/ DhcpEnvironment
     /\ UNCHANGED <<netVars, catVars, ofcVars, area>>
  \/ \E h \in HttpThreads :
       /\ (area = "catalogue" /\ CatalogueRequest(h)) \/ CatalogueStep(h)
       /\ UNCHANGED <<netVars, dhcpVars, ofcVars, area>>
  \/ /\ \/ \E h \in HttpThreads : (area = "controllers" /\ OfcRequest(h)) \/ OfcStep(h)
        \/ \E c \in Known : TakeOfTask(c)
     /\ UNCHANGED <<netVars, dhcpVars, catVars, area>>
  \/ Restart

\* A request under way goes on, and the dhcp thread too, which comes to every
\* mac that is due, whatever else it does.
Fairness ==
  /\ \A h \in HttpThreads :
       WF_vars(\/ NetworkStep(h) /\ UNCHANGED <<dhcpVars, catVars, ofcVars, area>>
               \/ DhcpStep(h) /\ UNCHANGED <<netVars, catVars, ofcVars, area>>)
  /\ WF_vars(ThreadStep /\ UNCHANGED <<netVars, catVars, ofcVars, area>>)
  /\ \A m \in Macs : SF_vars(MacStep(m) /\ UNCHANGED <<netVars, catVars, ofcVars, area>>)

Spec == Init /\ [][Next]_vars /\ Fairness

TypeOK == NetworksTypeOK /\ DhcpTypeOK /\ CatalogueTypeOK /\ ControllersTypeOK

\* What the threads share in config_dic is what the database and the
\* configuration ask for, whenever all requests are answered, but for what
\* each part names.
ConfigAsLoaded == BridgesAsLoaded /\ DhcpNetsAsLoaded /\ ControllersAsLoaded
=============================================================================
