--------------------------- MODULE OpenflowThread ---------------------------
(***************************************************************************)
(* The openflow_thread of each controller, with the http requests that     *)
(* give it work.  A request changes the tables nets and ports and then     *)
(* inserts an 'update-net' task; the thread recomputes the flows of the    *)
(* network from the tables and moves two stores towards them, one remote   *)
(* call or one locked database access at a time: the rules at the          *)
(* controller and the table of_flows that remembers their names.           *)
(*                                                                         *)
(* Kept: the order of all accesses, every return and error path of run,    *)
(* update_of_flows and clear_all_flows, requests that read a row and write *)
(* it later, foreign keys (ports keep a network alive, of_flows.net_id is  *)
(* set to null with its network), faults of controller and database,       *)
(* restarts of the process.                                                *)
(*                                                                         *)
(* Abstracted: the flows of a set of ports are the constant operator       *)
(* NetFlows; a flow is its network, the compared fields (match) and the    *)
(* VLAN, which _check_flow_already_present does not compare; all ports are *)
(* dataplane ports that are up; bindings between networks are fixed; the   *)
(* rows read have no order but that of the reads; the task queue is a      *)
(* TaskChannel without the bound of 2000 tasks.                            *)
(***************************************************************************)
EXTENDS Naturals, Sequences, FiniteSets

CONSTANTS
  Ofcs,         \* openflow controllers, one thread each
  Default,      \* the controller of a network without ports
  Nets, Ports,
  NoNet,        \* null in a net_id
  NoPort,       \* portNet of a port that does not exist
  Match, Vlan,  \* what a flow compares, and its vlan_id
  NoFlow,       \* no row, no rule
  NameIdx,      \* bound: numbers that end the name of a flow
  NetType,      \* NetType[n]: "ptp" or "data"
  Bind,         \* Bind[n]: the bind_net of n or NoNet
  PortOfc,      \* PortOfc[p]: the controller of the switch of p
  External,     \* ports of type 'external'; the others are instance:data
  InitNet,      \* InitNet[p]: portNet[p] left by earlier runs of the process
  InitRows,     \* InitRows[name]: rows[name] left by them
  InitRules,    \* InitRules[c][name]: rules[c][name] left by them
  NetFlows(_),  \* the flows of the networks with the given ports
  Breaks(_),    \* with these ports their computation raises a KeyError
  HttpThreads,  \* http and http-admin
  Requests,     \* bound: the kinds of requests made
  ClearAll,     \* the 'clear-all' task
  Anywhere,     \* no controller given to net_update_ofc_thread
  MaxOps,       \* bound: number of requests
  MaxFaults,    \* bound: number of failed remote and database calls
  MaxRestarts   \* bound: number of restarts of the process

Body == [match : Match, vlan : Vlan]
Flow == [net : Nets \cup {NoNet}, match : Match, vlan : Vlan]
BodyOf(f) == [match |-> f.match, vlan |-> f.vlan]

\* No request between its reading and its writing of a row.
Idle == [op |-> "idle"]

Names == Nets \X NameIdx
Snapshots == [Nets -> SUBSET Ports]
NoNames == [nm \in Names |-> NoFlow]
NoPorts == [n \in Nets |-> {}]

ASSUME SentinelsAreDistinct ==
  /\ NoNet \notin Nets
  /\ NoPort \notin Nets \cup {NoNet}
  /\ NoFlow \notin Flow \cup Body
  /\ ClearAll \notin Nets
  /\ Anywhere \notin Ofcs

ASSUME TopologyIsTyped ==
  /\ Default \in Ofcs
  /\ NetType \in [Nets -> {"ptp", "data"}]
  /\ Bind \in [Nets -> Nets \cup {NoNet}]
  /\ PortOfc \in [Ports -> Ofcs]
  /\ InitNet \in [Ports -> Nets \cup {NoNet, NoPort}]
  /\ External \subseteq Ports
  /\ MaxFaults \in Nat

ASSUME NetFlowsIsTyped ==
  \A s \in Snapshots : \A f \in NetFlows(s) : f \in Flow /\ f.net \in Nets

\* The network of a flow is that of the port it comes from.
ASSUME FlowsHaveSource == \A s \in Snapshots : \A f \in NetFlows(s) : s[f.net] # {}

\* Each row left is of a flow computed then, and no flow has two; a controller
\* has its rule or has lost it.
ASSUME InitRowsAreSound ==
  /\ InitRows \in [Names -> Flow \cup {NoFlow}]
  /\ \A nm \in Names : InitRows[nm] # NoFlow =>
       InitRows[nm].net = nm[1] /\ \E s \in Snapshots : InitRows[nm] \in NetFlows(s)
  /\ \A nm, k \in Names : InitRows[nm] # NoFlow /\ InitRows[k] = InitRows[nm] => k = nm
  /\ InitRules \in [Ofcs -> [Names -> Body \cup {NoFlow}]]
  /\ \A c \in Ofcs, nm \in Names : InitRules[c][nm] # NoFlow =>
       InitRows[nm] # NoFlow /\ InitRules[c][nm] = BodyOf(InitRows[nm])

ASSUME BreaksIsTyped == \A s \in Snapshots : Breaks(s) \in BOOLEAN

VARIABLES
  (* database *)
  netAlive,   \* networks with a row in nets
  netUp,      \* netUp[n]: admin_state_up
  netStatus,  \* netStatus[n]: nets.status
  portNet,    \* portNet[p]: ports.net_id, NoNet, or NoPort
  rows,       \* rows[name]: the row of of_flows with that name
  ofcStatus,  \* ofcStatus[c]: ofcs.status
  (* controllers *)
  rules,      \* rules[c][name]: the rule with that name at c
  (* openflow threads *)
  queue,      \* queue[c]: its tasks
  pc,         \* pc[c]: what it does next
  cur,        \* cur[c]: the network of its update-net task
  group,      \* group[c]: networks read, those bound together with cur
  upNets,     \* upNets[c]: those of them that were up when read
  toRead,     \* toRead[c]: networks whose ports or flows are still to read
  reading,    \* reading[c]: the one whose ports were read last
  snap,       \* snap[c]: the ports read
  db,         \* db[c]: the rows read (database_flows), by name
  atOfc,      \* atOfc[c]: names of the rules read from c (of_flows)
  new,        \* new[c]: computed flows still to be inserted
  keep,       \* keep[c]: names marked "not delete"
  prune,      \* prune[c]: names of db still to be looked at
  again,      \* again[c]: names read with their network and then, as it was
              \* deleted, without: their second entry is still to be looked at
  hand,       \* hand[c]: the flow between its two stores, by name
  handFlow,   \* handFlow[c]: its contents
  ok,         \* ok[c]: update_of_flows returned 0
  (* http threads *)
  request,    \* request[h]: the row read by the request in progress
  toQueue,    \* toQueue[h]: the tasks it still has to insert
  (* bounds and history *)
  ops, faults, restarts,
  unrecorded, \* names given to a controller and not written to of_flows
  relaid,     \* names given to it by an update that had read their row twice
              \* and goes on to delete it
  clean,      \* clean[c]: no deletion failed in this update
  excused,    \* networks that may be out of sync and show no error
  missed      \* networks changed by a request that took them for unchanged or
              \* failed half way, or bound with one that was gone when its
              \* update ran

dbVars     == <<netAlive, netUp, netStatus, portNet, rows, ofcStatus>>
readVars   == <<cur, group, upNets, toRead, reading, snap, db, atOfc>>
planVars   == <<new, keep, prune, again, hand, handFlow, ok>>
httpVars   == <<request, toQueue, ops, missed>>
histVars   == <<faults, restarts, unrecorded, relaid, clean, excused>>
vars == <<dbVars, rules, queue, pc, readVars, planVars, httpVars, histVars>>

-----------------------------------------------------------------------------
(* Operators *)

\* bind_id of update_of_flows: the network the others are bound to.
BindId(n) == IF Bind[n] = NoNet THEN n ELSE Bind[n]

\* WHERE bind_net=bind_id OR uuid=bind_id.
BoundTogether(n) == {m \in Nets : m = BindId(n) \/ Bind[m] = BindId(n)}

Attached(n) == {p \in Ports : portNet[p] = n}

\* Every compared field is equal; 'vlan' is compared where 'vlan_id' is meant.
AlreadyPresent(f, g) == f.net = g.net /\ f.match = g.match

RowsOf(n) == {nm \in Names : rows[nm] # NoFlow /\ rows[nm].net = n}

Interfaces(s) == Cardinality({np \in Nets \X Ports : np[2] \in s[np[1]]})

\* net_update_ofc_thread: the controller whose thread gets the task.
TargetsOf(n, c) ==
  CASE c # Anywhere        -> {c}
    [] Attached(n) # {}    -> {PortOfc[p] : p \in Attached(n)}
    [] OTHER               -> {Default}

Init ==
  /\ netAlive = Nets
  /\ netUp = [n \in Nets |-> TRUE]
  /\ netStatus = [n \in Nets |-> "ACTIVE"]
  /\ portNet = InitNet
  /\ rows = InitRows
  /\ ofcStatus = [c \in Ofcs |-> "ACTIVE"]
  /\ rules = InitRules
  /\ queue = [c \in Ofcs |-> << >>]
  /\ pc = [c \in Ofcs |-> "idle"]
  /\ cur = [c \in Ofcs |-> NoNet]
  /\ group = [c \in Ofcs |-> {}]
  /\ upNets = [c \in Ofcs |-> {}]
  /\ toRead = [c \in Ofcs |-> {}]
  /\ reading = [c \in Ofcs |-> NoNet]
  /\ snap = [c \in Ofcs |-> NoPorts]
  /\ db = [c \in Ofcs |-> NoNames]
  /\ atOfc = [c \in Ofcs |-> {}]
  /\ new = [c \in Ofcs |-> {}]
  /\ keep = [c \in Ofcs |-> {}]
  /\ prune = [c \in Ofcs |-> {}]
  /\ again = [c \in Ofcs |-> {}]
  /\ hand = [c \in Ofcs |-> NoFlow]
  /\ handFlow = [c \in Ofcs |-> NoFlow]
  /\ ok = [c \in Ofcs |-> TRUE]
  /\ request = [h \in HttpThreads |-> Idle]
  /\ toQueue = [h \in HttpThreads |-> << >>]
  /\ ops = 0 /\ faults = 0 /\ restarts = 0
  /\ unrecorded = {} /\ relaid = {}
  /\ clean = [c \in Ofcs |-> TRUE]
  /\ excused = Nets
  /\ missed = {}

-----------------------------------------------------------------------------
(* http requests (ovim.py): read, write the database, insert the tasks *)

threadSide == <<rules, pc, readVars, planVars, histVars, ofcStatus, netStatus>>
ofcSide    == <<threadSide, missed>>

\* A request starts in a thread that has ended the one before.
Begin(h, op) ==
  /\ op \in Requests
  /\ request[h] = Idle
  /\ toQueue[h] = << >>
  /\ ops < MaxOps
  /\ ops' = ops + 1

UpdateNet(n, c) == [task |-> n, ofc |-> c]

\* Mutant: no test for null.
UpdateOfAny(n, p) == <<UpdateNet(n, PortOfc[p])>>

\* The task for a network that a port has or had, if it is one.
UpdateOf(n, p) == IF n = NoNet THEN << >> ELSE <<UpdateNet(n, PortOfc[p])>>

\* History: these networks change and get no task, because the request
\* decided with a row that another request has written since, or has no row.
Misses(ns) == missed' = missed \cup UNION {BoundTogether(n) : n \in ns \cap Nets}

\* check_target_net: the network exists, and a ptp network has room.
HasRoom(n) == n \in netAlive /\ (NetType[n] = "ptp" => Cardinality(Attached(n)) < 2)

\* new_port and new_external_port look at the network first.
CheckNewPort(h, p, n) ==
  /\ Begin(h, "new")
  /\ p \in External
  /\ portNet[p] = NoPort
  /\ \A g \in HttpThreads : request[g].op = "new" => request[g].port # p
  /\ n = NoNet \/ HasRoom(n)
  /\ request' = [request EXCEPT ![h] = [op |-> "new", port |-> p, net |-> n]]
  /\ UNCHANGED <<netAlive, netUp, portNet, rows, queue, toQueue, ofcSide>>

\* new_row: the network must still exist (foreign key).  new_port does not
\* name a controller, new_external_port does.
NewPort(h) ==
  LET r == request[h] IN
  /\ r.op = "new"
  /\ request' = [request EXCEPT ![h] = Idle]
  /\ IF r.net \in netAlive \cup {NoNet}
       THEN /\ portNet' = [portNet EXCEPT ![r.port] = r.net]
            /\ \E c \in {PortOfc[r.port], Anywhere} :
                 toQueue' = [toQueue EXCEPT ![h] =
                   IF r.net = NoNet THEN << >> ELSE <<UpdateNet(r.net, c)>>]
       ELSE UNCHANGED <<portNet, toQueue>>
  /\ UNCHANGED <<ops, netAlive, netUp, rows, queue, ofcSide>>

\* edit_port reads the port, and its present network, first.
ReadPortToEdit(h, p, n) ==
  /\ Begin(h, "edit")
  /\ portNet[p] # NoPort
  /\ n = NoNet \/ HasRoom(n)
  /\ n # portNet[p]
  /\ request' = [request EXCEPT ![h] =
                   [op |-> "edit", port |-> p, old |-> portNet[p], new |-> n]]
  /\ UNCHANGED <<netAlive, netUp, portNet, rows, queue, toQueue, ofcSide>>

\* update_rows changes no row if the port is gone or has that net by now, and
\* fails if the new network is gone (foreign key); otherwise the tasks
\* follow, the new net first.
EditPort(h) ==
  LET r == request[h]
      found == /\ portNet[r.port] \notin {NoPort, r.new}
               /\ r.new \in netAlive \cup {NoNet}
      tasks == UpdateOf(r.new, r.port) \o UpdateOf(r.old, r.port)
  IN
  /\ r.op = "edit"
  /\ request' = [request EXCEPT ![h] = Idle]
  /\ IF found
       THEN /\ portNet' = [portNet EXCEPT ![r.port] = r.new]
            /\ toQueue' = [toQueue EXCEPT ![h] = tasks]
            /\ Misses({portNet[r.port]} \ {r.old, r.new})
       ELSE UNCHANGED <<portNet, toQueue, missed>>
  /\ UNCHANGED <<ops, netAlive, netUp, rows, queue, threadSide>>

\* delete_port reads the port, asking for an external one.
ReadPortToDelete(h, p) ==
  /\ Begin(h, "delete")
  /\ portNet[p] # NoPort
  /\ request' = [request EXCEPT ![h] =
       [op |-> "delete", port |-> p,
        old |-> IF p \in External THEN portNet[p] ELSE NoPort]]
  /\ UNCHANGED <<netAlive, netUp, portNet, rows, queue, toQueue, ofcSide>>

\* It deletes the port by uuid, whatever its type, and refreshes the network
\* it had read; if no row was read, ports[0] raises an IndexError here.
DeletePort(h) ==
  LET r == request[h] IN
  /\ r.op = "delete"
  /\ request' = [request EXCEPT ![h] = Idle]
  /\ portNet' = [portNet EXCEPT ![r.port] = NoPort]
  /\ IF portNet[r.port] # NoPort /\ r.old # NoPort
       THEN toQueue' = [toQueue EXCEPT ![h] = UpdateOf(r.old, r.port)]
       ELSE UNCHANGED toQueue
  /\ Misses({portNet[r.port]} \ {r.old})
  /\ UNCHANGED <<ops, netAlive, netUp, rows, queue, threadSide>>

\* edit_network with admin_state_up; the ports are counted first.
ReadNetToEdit(h, n) ==
  /\ Begin(h, "admin")
  /\ n \in netAlive
  /\ request' = [request EXCEPT ![h] =
                   [op |-> "admin", net |-> n, up |-> ~netUp[n],
                    hasPorts |-> Attached(n) # {}]]
  /\ UNCHANGED <<netAlive, netUp, portNet, rows, queue, toQueue, ofcSide>>

EditNet(h) ==
  LET r == request[h] IN
  /\ r.op = "admin"
  /\ request' = [request EXCEPT ![h] = Idle]
  /\ IF r.net \in netAlive /\ netUp[r.net] # r.up
       THEN /\ netUp' = [netUp EXCEPT ![r.net] = r.up]
            /\ toQueue' = [toQueue EXCEPT ![h] =
                 IF r.hasPorts THEN <<UpdateNet(r.net, Anywhere)>> ELSE << >>]
            /\ Misses(IF ~r.hasPorts /\ Attached(r.net) # {} THEN {r.net} ELSE {})
       ELSE UNCHANGED <<netUp, toQueue, missed>>
  /\ UNCHANGED <<ops, netAlive, portNet, rows, queue, threadSide>>

\* delete_network: refused while ports refer to the network; its rows of
\* of_flows lose their net_id.  No task is inserted.
DeleteNet(h, n) ==
  /\ Begin(h, "delnet")
  /\ n \in netAlive
  /\ Attached(n) = {}
  /\ netAlive' = netAlive \ {n}
  /\ rows' = [nm \in Names |->
               IF nm \in RowsOf(n) THEN [rows[nm] EXCEPT !.net = NoNet]
                                   ELSE rows[nm]]
  /\ UNCHANGED <<request, netUp, portNet, queue, toQueue, ofcSide>>

\* edit_openflow_rules: reinstall the rules of a network.
ReinstallNet(h, n) ==
  /\ Begin(h, "reinstall")
  /\ n \in netAlive
  /\ toQueue' = [toQueue EXCEPT ![h] = <<UpdateNet(n, Anywhere)>>]
  /\ UNCHANGED <<request, netAlive, netUp, portNet, rows, queue, ofcSide>>

\* delete_openflow_rules.
ClearRules(h, c) ==
  /\ Begin(h, "clear")
  /\ toQueue' = [toQueue EXCEPT ![h] = <<UpdateNet(ClearAll, c)>>]
  /\ UNCHANGED <<request, netAlive, netUp, portNet, rows, queue, ofcSide>>

\* net_update_ofc_thread (or insert_task for clear-all): one task inserted.
InsertTask(h) ==
  /\ toQueue[h] # << >>
  /\ LET t == Head(toQueue[h]) IN
     \E c \in TargetsOf(t.task, t.ofc) :
       queue' = [queue EXCEPT ![c] = Append(@, t.task)]
  /\ toQueue' = [toQueue EXCEPT ![h] = Tail(@)]
  /\ UNCHANGED <<request, ops, netAlive, netUp, portNet, rows, ofcSide>>

Request(h) ==
  \/ \E p \in Ports, n \in Nets \cup {NoNet} :
       CheckNewPort(h, p, n) \/ ReadPortToEdit(h, p, n)
  \/ \E p \in Ports : ReadPortToDelete(h, p)
  \/ \E n \in Nets : ReadNetToEdit(h, n) \/ DeleteNet(h, n) \/ ReinstallNet(h, n)
  \/ \E c \in Ofcs : ClearRules(h, c)

Proceed(h) ==
  NewPort(h) \/ EditPort(h) \/ DeletePort(h) \/ EditNet(h) \/ InsertTask(h)

-----------------------------------------------------------------------------
(* run: take a task *)

\* The local variables of run and update_of_flows, at Init and at a return.
Forget(cs) ==
  /\ cur' = [c \in Ofcs |-> IF c \in cs THEN NoNet ELSE cur[c]]
  /\ group' = [c \in Ofcs |-> IF c \in cs THEN {} ELSE group[c]]
  /\ upNets' = [c \in Ofcs |-> IF c \in cs THEN {} ELSE upNets[c]]
  /\ toRead' = [c \in Ofcs |-> IF c \in cs THEN {} ELSE toRead[c]]
  /\ reading' = [c \in Ofcs |-> IF c \in cs THEN NoNet ELSE reading[c]]
  /\ snap' = [c \in Ofcs |-> IF c \in cs THEN NoPorts ELSE snap[c]]
  /\ db' = [c \in Ofcs |-> IF c \in cs THEN NoNames ELSE db[c]]
  /\ atOfc' = [c \in Ofcs |-> IF c \in cs THEN {} ELSE atOfc[c]]
  /\ new' = [c \in Ofcs |-> IF c \in cs THEN {} ELSE new[c]]
  /\ keep' = [c \in Ofcs |-> IF c \in cs THEN {} ELSE keep[c]]
  /\ prune' = [c \in Ofcs |-> IF c \in cs THEN {} ELSE prune[c]]
  /\ again' = [c \in Ofcs |-> IF c \in cs THEN {} ELSE again[c]]
  /\ hand' = [c \in Ofcs |-> IF c \in cs THEN NoFlow ELSE hand[c]]
  /\ handFlow' = [c \in Ofcs |-> IF c \in cs THEN NoFlow ELSE handFlow[c]]
  /\ ok' = [c \in Ofcs |-> IF c \in cs THEN TRUE ELSE ok[c]]
  /\ clean' = [c \in Ofcs |-> IF c \in cs THEN TRUE ELSE clean[c]]

requestSide == <<netAlive, netUp, portNet, httpVars>>
dbSide      == <<requestSide, netStatus, ofcStatus>>

Goto(c, step) == pc' = [pc EXCEPT ![c] = step]

\* A remote or database call may fail while the bound allows it.
MayFail == faults < MaxFaults
Fails   == MayFail /\ faults' = faults + 1
Works   == UNCHANGED faults

TakeTask(c) ==
  /\ pc[c] = "idle"
  /\ queue[c] # << >>
  /\ queue' = [queue EXCEPT ![c] = Tail(@)]
  /\ IF Head(queue[c]) = ClearAll
       THEN Goto(c, "clear") /\ UNCHANGED cur
       ELSE Goto(c, "nets") /\ cur' = [cur EXCEPT ![c] = Head(queue[c])]
  /\ UNCHANGED <<dbVars, rules, httpVars, group, upNets, toRead, reading, snap,
                 db, atOfc, planVars, histVars>>

-----------------------------------------------------------------------------
(* update_of_flows: read the database *)

\* Mutant: returns 0.
GiveUpSilently(c) ==
  /\ Goto(c, "report")
  /\ UNCHANGED <<dbVars, rules, queue, readVars, planVars, httpVars, restarts,
                 unrecorded, relaid, clean, excused>>

\* Mutant: tries again at once.
TryAgain(c) ==
  /\ Goto(c, "nets")
  /\ UNCHANGED <<dbVars, rules, queue, readVars, planVars, httpVars, restarts,
                 unrecorded, relaid, clean, excused>>

\* Every "return -1" before the flows are touched.
GiveUp(c) ==
  /\ Goto(c, "report")
  /\ ok' = [ok EXCEPT ![c] = FALSE]
  /\ UNCHANGED <<dbVars, rules, queue, readVars, new, keep, prune, again, hand,
                 handFlow, httpVars, restarts, unrecorded, relaid, clean, excused>>

\* Mutant: the bindings are not followed.
ReadNetAlone(c) ==
  /\ pc[c] = "nets"
  /\ LET found == {cur[c]} \cap netAlive
     IN  /\ group' = [group EXCEPT ![c] = found]
         /\ upNets' = [upNets EXCEPT ![c] = {n \in found : netUp[n]}]
         /\ toRead' = [toRead EXCEPT ![c] = found]
         /\ missed' = missed \ found
  /\ snap' = [snap EXCEPT ![c] = NoPorts]
  /\ db' = [db EXCEPT ![c] = NoNames]
  /\ Goto(c, "ports")
  /\ UNCHANGED <<dbVars, rules, queue, cur, reading, atOfc, planVars, request,
                 toQueue, ops, histVars>>

\* The network and those bound with it, in one locked access.  When it is gone
\* nothing is read: those bound with it keep the flows to its ports.
ReadNets(c) ==
  /\ pc[c] = "nets"
  /\ LET found == IF cur[c] \in netAlive
                    THEN BoundTogether(cur[c]) \cap netAlive ELSE {}
     IN  /\ group' = [group EXCEPT ![c] = found]
         /\ upNets' = [upNets EXCEPT ![c] = {n \in found : netUp[n]}]
         /\ toRead' = [toRead EXCEPT ![c] = found]
         /\ missed' = (missed \ found) \cup
              IF cur[c] \in netAlive THEN {} ELSE BoundTogether(cur[c]) \ {cur[c]}
  /\ snap' = [snap EXCEPT ![c] = NoPorts]
  /\ db' = [db EXCEPT ![c] = NoNames]
  /\ Goto(c, "ports")
  /\ UNCHANGED <<dbVars, rules, queue, cur, reading, atOfc, planVars, request,
                 toQueue, ops, histVars>>

\* The ports of one network; none are read if it is down.
ReadPorts(c) ==
  /\ pc[c] = "ports"
  /\ \E n \in toRead[c] :
       /\ snap' = [snap EXCEPT ![c][n] = IF n \in upNets[c] THEN Attached(n) ELSE {}]
       /\ reading' = [reading EXCEPT ![c] = n]
  /\ Goto(c, "flows")
  /\ UNCHANGED <<dbVars, rules, queue, cur, group, upNets, toRead, db, atOfc,
                 planVars, httpVars, histVars>>

\* database_flows gets the rows selected; of a row read twice this is the first
\* entry.
Select(c, selected) ==
  db' = [db EXCEPT ![c] =
          [nm \in Names |->
            IF nm \in selected /\ @[nm] = NoFlow THEN rows[nm] ELSE @[nm]]]

\* The rows of that network, in another locked access.
ReadFlows(c) ==
  /\ pc[c] = "flows"
  /\ Select(c, RowsOf(reading[c]))
  /\ toRead' = [toRead EXCEPT ![c] = @ \ {reading[c]}]
  /\ Goto(c, "ports")
  /\ UNCHANGED <<dbVars, rules, queue, cur, group, upNets, reading, snap,
                 atOfc, planVars, httpVars, histVars>>

\* Mutant: does not look for them.
ReadOwnFlowsOnly(c) ==
  /\ pc[c] = "ports"
  /\ toRead[c] = {}
  /\ Goto(c, "rules")
  /\ UNCHANGED <<dbVars, rules, queue, readVars, planVars, httpVars, histVars>>

\* The rows left behind by deleted networks.  Those of a network deleted after
\* ReadFlows are in database_flows already and get a second entry.
ReadNullFlows(c) ==
  /\ pc[c] = "ports"
  /\ toRead[c] = {}
  /\ Select(c, RowsOf(NoNet))
  /\ again' = [again EXCEPT ![c] = {nm \in RowsOf(NoNet) : db[c][nm] # NoFlow}]
  /\ Goto(c, "rules")
  /\ UNCHANGED <<dbVars, rules, queue, cur, group, upNets, toRead, reading, snap,
                 atOfc, new, keep, prune, hand, handFlow, ok, httpVars, histVars>>

ReadFails(c) ==
  /\ pc[c] \in {"nets", "ports", "flows", "rules"}
  /\ Fails
  /\ GiveUp(c)

-----------------------------------------------------------------------------
(* update_of_flows: compare with the controller *)

\* A port whose switch is not one of this controller (pp2ofi).
WrongSwitch(c) == \E n \in Nets : \E p \in snap[c][n] : PortOfc[p] # c

\* More than two interfaces in ptp networks; the type that counts is that
\* of the network read last.
Refused(c) ==
  \/ WrongSwitch(c)
  \/ Interfaces(snap[c]) > 2 /\ \E n \in group[c] : NetType[n] = "ptp"

Supported(c) ==
  /\ ~WrongSwitch(c)
  /\ Interfaces(snap[c]) > 2 => \E n \in group[c] : NetType[n] = "data"

Known(c) == {nm \in Names : db[c][nm] # NoFlow}

\* Mutant: the name is compared too; a computed flow has none yet.
EqualWithName(c, f) == {}

\* Rows equal to a computed flow; one of them is marked "not delete".  The
\* second entry of a row read twice has no network and equals none.
Equal(c, f) == {nm \in Known(c) : AlreadyPresent(f, db[c][nm])}

ReadRules(c) ==
  LET flows == NetFlows(snap[c])
      found == {nm \in Names : rules[c][nm] # NoFlow}
      kept  == {CHOOSE nm \in Equal(c, f) : TRUE : f \in
                  {g \in flows : Equal(c, g) # {}}}
  IN
  /\ pc[c] = "rules"
  /\ Supported(c)
  /\ ~Breaks(snap[c])
  /\ atOfc' = [atOfc EXCEPT ![c] = found]
  /\ new' = [new EXCEPT ![c] = {f \in flows : Equal(c, f) = {}}]
  /\ keep' = [keep EXCEPT ![c] = kept]
  /\ prune' = [prune EXCEPT ![c] = Known(c) \ (kept \cap found)]
  /\ Goto(c, "insert")
  /\ UNCHANGED <<dbVars, rules, queue, cur, group, upNets, toRead, reading,
                 snap, db, again, hand, handFlow, ok, httpVars, histVars>>

\* pop('dst_mac') of _compute_net_flows raises a KeyError, which the last
\* handler of run logs: the task is over and no status is written.
Raise(c) ==
  /\ pc[c] = "rules"
  /\ Supported(c)
  /\ Breaks(snap[c])
  /\ excused' = excused \cup BoundTogether(cur[c])
  /\ Forget({c})
  /\ Goto(c, "idle")
  /\ UNCHANGED <<dbVars, rules, queue, httpVars, faults, restarts, unrecorded,
                 relaid>>

Refuse(c) ==
  /\ pc[c] = "rules"
  /\ Refused(c)
  /\ Works
  /\ GiveUp(c)

-----------------------------------------------------------------------------
(* update_of_flows: insert what is missing *)

\* The first number that makes a name neither of_flows (as read) nor the
\* controller (as read) uses, nor this update has used.
FreshName(c, n, i) ==
  LET used == Known(c) \cup atOfc[c] \cup {nm \in Names : rules[c][nm] # NoFlow}
  IN  /\ <<n, i>> \notin used
      /\ \A j \in NameIdx : <<n, j>> \notin used => i <= j

SetRule(c, nm, body) == rules' = [rules EXCEPT ![c][nm] = body]

\* new_flow at the controller.  A call that fails may have been carried out.
NewFlow(c) ==
  /\ pc[c] = "insert"
  /\ \E f \in new[c], i \in NameIdx :
       /\ FreshName(c, f.net, i)
       /\ \/ /\ Works
             /\ SetRule(c, <<f.net, i>>, BodyOf(f))
             /\ new' = [new EXCEPT ![c] = @ \ {f}]
             /\ hand' = [hand EXCEPT ![c] = <<f.net, i>>]
             /\ handFlow' = [handFlow EXCEPT ![c] = f]
             /\ Goto(c, "row")
             /\ UNCHANGED <<ok, unrecorded>>
          \/ /\ Fails
             /\ \/ /\ SetRule(c, <<f.net, i>>, BodyOf(f))
                   /\ unrecorded' = unrecorded \cup {<<f.net, i>>}
                \/ UNCHANGED <<rules, unrecorded>>
             /\ ok' = [ok EXCEPT ![c] = FALSE]
             /\ Goto(c, "report")
             /\ UNCHANGED <<new, hand, handFlow>>
  /\ UNCHANGED <<dbVars, queue, readVars, keep, prune, again, httpVars,
                 restarts, relaid, clean, excused>>

\* new_row at of_flows: fails if the network is gone (foreign key) or the
\* name is taken (unique key); the rule stays at the controller.
NewRow(c) ==
  LET nm == hand[c]
      f == handFlow[c]
      accepted == f.net \in netAlive /\ rows[nm] = NoFlow
  IN
  /\ pc[c] = "row"
  /\ \/ /\ accepted
        /\ Works
        /\ rows' = [rows EXCEPT ![nm] = f]
        /\ Goto(c, "insert")
        /\ UNCHANGED <<ok, unrecorded>>
     \/ /\ IF accepted THEN Fails ELSE Works
        /\ unrecorded' = unrecorded \cup {nm}
        /\ ok' = [ok EXCEPT ![c] = FALSE]
        /\ Goto(c, "report")
        /\ UNCHANGED rows
  /\ hand' = [hand EXCEPT ![c] = NoFlow]
  /\ handFlow' = [handFlow EXCEPT ![c] = NoFlow]
  /\ UNCHANGED <<requestSide, netStatus, ofcStatus, rules, queue, readVars,
                 new, keep, prune, again, restarts, relaid, clean, excused>>

-----------------------------------------------------------------------------
(* update_of_flows: delete what is not needed, repair what was kept *)

\* Marked "not delete" but not at the controller: insert it again, even if
\* there is a second entry of the row that is not marked.
Reinsert(c) ==
  /\ pc[c] = "insert"
  /\ new[c] = {}
  /\ \E nm \in prune[c] \cap keep[c] :
       \/ /\ Works
          /\ SetRule(c, nm, BodyOf(db[c][nm]))
          /\ relaid' = relaid \cup ({nm} \cap again[c])
          /\ prune' = [prune EXCEPT ![c] = @ \ {nm}]
          /\ UNCHANGED <<pc, ok>>
       \/ /\ Fails
          /\ SetRule(c, nm, BodyOf(db[c][nm])) \/ UNCHANGED rules
          /\ ok' = [ok EXCEPT ![c] = FALSE]
          /\ Goto(c, "report")
          /\ UNCHANGED <<prune, relaid>>
  /\ UNCHANGED <<dbVars, queue, readVars, new, keep, again, hand, handFlow,
                 httpVars, restarts, unrecorded, clean, excused>>

\* Second entries, once no entry with a network is left.
SecondEntries(c) ==
  IF \A nm \in prune[c] : db[c][nm].net = NoNet THEN again[c] ELSE {}

\* The entries to delete, and the one looked at.
Unmarked(c) == (prune[c] \ keep[c]) \cup SecondEntries(c)

LookAt(c, nm) ==
  /\ prune' = [prune EXCEPT ![c] = @ \ {nm}]
  /\ again' = [again EXCEPT ![c] = @ \ ({nm} \ prune[c])]

\* Mutant: a failure is not noticed.
DelFlowUnchecked(c) ==
  /\ pc[c] = "insert"
  /\ new[c] = {}
  /\ \E nm \in Unmarked(c) \cap atOfc[c] :
       /\ LookAt(c, nm)
       /\ \/ Works /\ SetRule(c, nm, NoFlow)
          \/ Fails /\ UNCHANGED rules
       /\ hand' = [hand EXCEPT ![c] = nm]
  /\ Goto(c, "unrow")
  /\ UNCHANGED <<dbVars, queue, readVars, new, keep, handFlow, ok, httpVars,
                 restarts, unrecorded, relaid, clean, excused>>

\* del_flow; if it fails the row is kept and the loop goes on.  A controller
\* may refuse to delete a rule that the first entry has deleted.
DelFlow(c) ==
  /\ pc[c] = "insert"
  /\ new[c] = {}
  /\ \E nm \in Unmarked(c) \cap atOfc[c] :
       /\ LookAt(c, nm)
       /\ \/ /\ Works
             /\ SetRule(c, nm, NoFlow)
             /\ hand' = [hand EXCEPT ![c] = nm]
             /\ Goto(c, "unrow")
             /\ UNCHANGED clean
          \/ /\ Fails
             /\ SetRule(c, nm, NoFlow) \/ UNCHANGED rules
             /\ clean' = [clean EXCEPT ![c] = FALSE]
             /\ UNCHANGED <<pc, hand>>
          \/ /\ nm \notin prune[c] /\ rules[c][nm] = NoFlow
             /\ Works
             /\ UNCHANGED <<rules, pc, hand, clean>>
  /\ UNCHANGED <<dbVars, queue, readVars, new, keep, handFlow, ok, httpVars,
                 restarts, unrecorded, relaid, excused>>

\* Not at the controller when it was read: only the row is deleted.
SkipDelFlow(c) ==
  /\ pc[c] = "insert"
  /\ new[c] = {}
  /\ \E nm \in Unmarked(c) \ atOfc[c] :
       /\ LookAt(c, nm)
       /\ hand' = [hand EXCEPT ![c] = nm]
  /\ Goto(c, "unrow")
  /\ UNCHANGED <<dbVars, rules, queue, readVars, new, keep, handFlow, ok,
                 httpVars, histVars>>

\* delete_row_by_key; an error is only logged.
DeleteRow(c) ==
  /\ pc[c] = "unrow"
  /\ \/ /\ Works
        /\ rows' = [rows EXCEPT ![hand[c]] = NoFlow]
        /\ UNCHANGED clean
     \/ /\ Fails
        /\ clean' = [clean EXCEPT ![c] = FALSE]
        /\ UNCHANGED rows
  /\ hand' = [hand EXCEPT ![c] = NoFlow]
  /\ Goto(c, "insert")
  /\ UNCHANGED <<requestSide, netStatus, ofcStatus, rules, queue, readVars, new,
                 keep, prune, again, handFlow, ok, restarts, unrecorded, relaid,
                 excused>>

\* return 0, 'Success'
AllDone(c) ==
  /\ pc[c] = "insert"
  /\ new[c] = {} /\ prune[c] = {} /\ again[c] = {}
  /\ Goto(c, "report")
  /\ UNCHANGED <<dbVars, rules, queue, readVars, planVars, httpVars, histVars>>

-----------------------------------------------------------------------------
(* run: the result of a task; clear_all_flows *)

\* set_openflow_controller_status: the default controller has no row in ofcs.
SetOfcStatus(c, status) ==
  ofcStatus' = IF c = Default THEN ofcStatus ELSE [ofcStatus EXCEPT ![c] = status]

\* The status of the controller, then nets.status (no row: no effect).
\* A failure is shown by the network of the task, not by those bound with it;
\* a deletion that failed is not shown.
Report(c) ==
  LET status == IF ok[c] THEN "ACTIVE" ELSE "ERROR" IN
  /\ pc[c] = "report"
  /\ SetOfcStatus(c, status)
  /\ netStatus' = IF cur[c] \in netAlive
                    THEN [netStatus EXCEPT ![cur[c]] = status] ELSE netStatus
  /\ excused' =
       IF ok[c] THEN IF clean[c] THEN excused \ (group[c] \cup {cur[c]})
                                 ELSE excused \cup BoundTogether(cur[c])
                ELSE (excused \cup BoundTogether(cur[c])) \ ({cur[c]} \cap netAlive)
  /\ Forget({c})
  /\ Goto(c, "idle")
  /\ UNCHANGED <<requestSide, rows, rules, queue, faults, restarts, unrecorded,
                 relaid>>

\* The controller first; if it fails the rows stay.
ClearController(c) ==
  /\ pc[c] = "clear"
  /\ \/ /\ Works
        /\ rules' = [rules EXCEPT ![c] = NoNames]
        /\ Goto(c, "clearrows")
        /\ UNCHANGED ofcStatus
     \/ /\ Fails
        /\ \E left \in SUBSET {nm \in Names : rules[c][nm] # NoFlow} :
             rules' = [rules EXCEPT ![c] =
                        [nm \in Names |-> IF nm \in left THEN @[nm] ELSE NoFlow]]
        /\ SetOfcStatus(c, "ERROR")
        /\ Goto(c, "idle")
  /\ excused' = Nets
  /\ UNCHANGED <<requestSide, netStatus, rows, queue, readVars, planVars,
                 restarts, unrecorded, relaid, clean>>

\* Every row of of_flows, whatever its controller; the result is not looked at.
ClearRows(c) ==
  /\ pc[c] = "clearrows"
  /\ \/ Works /\ rows' = NoNames
     \/ Fails /\ UNCHANGED rows
  /\ SetOfcStatus(c, "ACTIVE")
  /\ Goto(c, "idle")
  /\ UNCHANGED <<requestSide, netStatus, rules, queue, readVars, planVars,
                 restarts, unrecorded, relaid, clean, excused>>

ReadStep(c) ==
  \/ TakeTask(c) \/ ReadNets(c) \/ ReadPorts(c) \/ ReadFlows(c)
  \/ ReadNullFlows(c) \/ ReadFails(c) \/ ReadRules(c) \/ Raise(c) \/ Refuse(c)

WriteStep(c) ==
  \/ NewFlow(c) \/ NewRow(c) \/ Reinsert(c) \/ DelFlow(c) \/ SkipDelFlow(c)
  \/ DeleteRow(c) \/ AllDone(c) \/ Report(c)
  \/ ClearController(c) \/ ClearRows(c)

Thread(c) == ReadStep(c) \/ WriteStep(c)

\* The process is stopped and started again: the tasks and the requests in
\* progress are lost, the threads report ACTIVE when they start.
Restart ==
  /\ restarts < MaxRestarts
  /\ restarts' = restarts + 1
  /\ queue' = [c \in Ofcs |-> << >>]
  /\ pc' = [c \in Ofcs |-> "idle"]
  /\ Forget(Ofcs)
  /\ unrecorded' = unrecorded \cup {hand[c] : c \in {o \in Ofcs : pc[o] = "row"}}
  /\ excused' = Nets
  /\ ofcStatus' = [c \in Ofcs |-> "ACTIVE"]
  /\ request' = [h \in HttpThreads |-> Idle]
  /\ toQueue' = [h \in HttpThreads |-> << >>]
  /\ UNCHANGED <<netAlive, netUp, netStatus, portNet, rows, rules, ops, faults,
                 relaid, missed>>

Next ==
  \/ \E h \in HttpThreads : Request(h) \/ Proceed(h)
  \/ \E c \in Ofcs : Thread(c)
  \/ Restart

\* A request that was started goes on and a thread with work does it; new
\* requests, faults and restarts need not happen.
Fairness ==
  /\ \A h \in HttpThreads : WF_vars(Proceed(h))
  /\ \A c \in Ofcs : WF_vars(Thread(c))

Spec == Init /\ [][Next]_vars
FairSpec == Spec /\ Fairness

-----------------------------------------------------------------------------
(* Properties *)

Steps == {"idle", "nets", "ports", "flows", "rules", "insert", "row", "unrow",
          "report", "clear", "clearrows"}

NameOrNone == Names \cup {NoFlow}
FlowOrNone == Flow \cup {NoFlow}
Task == Nets \cup {ClearAll}
Insertion == [task : Task, ofc : Ofcs \cup {Anywhere}]
RowRead ==
  {Idle}
  \cup [op : {"new"}, port : Ports, net : Nets \cup {NoNet}]
  \cup [op : {"edit"}, port : Ports, old : Nets \cup {NoNet}, new : Nets \cup {NoNet}]
  \cup [op : {"delete"}, port : Ports, old : Nets \cup {NoNet, NoPort}]
  \cup [op : {"admin"}, net : Nets, up : BOOLEAN, hasPorts : BOOLEAN]

TablesTyped ==
  /\ netAlive \subseteq Nets
  /\ netUp \in [Nets -> BOOLEAN]
  /\ netStatus \in [Nets -> {"ACTIVE", "ERROR"}]
  /\ portNet \in [Ports -> Nets \cup {NoNet, NoPort}]
  /\ rows \in [Names -> FlowOrNone]
  /\ ofcStatus \in [Ofcs -> {"ACTIVE", "ERROR"}]
  /\ rules \in [Ofcs -> [Names -> Body \cup {NoFlow}]]

HttpTyped ==
  /\ queue \in [Ofcs -> Seq(Task)]
  /\ request \in [HttpThreads -> RowRead]
  /\ toQueue \in [HttpThreads -> Seq(Insertion)]

ReadTyped ==
  /\ cur \in [Ofcs -> Nets \cup {NoNet}]
  /\ group \in [Ofcs -> SUBSET Nets]
  /\ upNets \in [Ofcs -> SUBSET Nets]
  /\ toRead \in [Ofcs -> SUBSET Nets]
  /\ reading \in [Ofcs -> Nets \cup {NoNet}]
  /\ snap \in [Ofcs -> Snapshots]
  /\ db \in [Ofcs -> [Names -> FlowOrNone]]
  /\ atOfc \in [Ofcs -> SUBSET Names]

PlanTyped ==
  /\ pc \in [Ofcs -> Steps]
  /\ new \in [Ofcs -> SUBSET {f \in Flow : f.net \in Nets}]
  /\ keep \in [Ofcs -> SUBSET Names]
  /\ prune \in [Ofcs -> SUBSET Names]
  /\ again \in [Ofcs -> SUBSET Names]
  /\ hand \in [Ofcs -> NameOrNone]
  /\ handFlow \in [Ofcs -> FlowOrNone]
  /\ ok \in [Ofcs -> BOOLEAN]

HistoryTyped ==
  /\ unrecorded \subseteq Names
  /\ relaid \subseteq Names
  /\ clean \in [Ofcs -> BOOLEAN]
  /\ excused \subseteq Nets
  /\ missed \subseteq Nets

\* Types of the tables, the requests, the threads and the history.
TypeOK == TablesTyped /\ HttpTyped /\ ReadTyped /\ PlanTyped /\ HistoryTyped

(***************************************************************************)
(* A rule that no row of of_flows names stays at the controller for ever:  *)
(* update_of_flows deletes by row and never reuses a name it sees there.   *)
(* There are no such rules but those whose insertion failed half way, the  *)
(* one between its two stores, and those an update inserted again for the  *)
(* first of two entries of their row and left for the second, when their   *)
(* network was deleted between its reads.  In particular rows are never    *)
(* deleted before their rule otherwise.                                    *)
(***************************************************************************)
NoOrphanRule ==
  \A c \in Ofcs, nm \in Names :
    rules[c][nm] # NoFlow /\ rows[nm] = NoFlow
      => nm \in unrecorded \cup relaid \/ (pc[c] = "row" /\ hand[c] = nm)

(***************************************************************************)
(* NoOrphanRule as an inductive invariant of a process with one thread, in *)
(* parts: what a thread has in hand; the names it will still look at are   *)
(* of rows, and of rules it knows; the database is cleared last.           *)
(***************************************************************************)
Inserting == {"insert", "row", "unrow"}

HandIsName ==
  \A c \in Ofcs :
    /\ pc[c] \in {"row", "unrow"} => hand[c] \in Names
    /\ pc[c] = "row" => handFlow[c] \in Flow

RuleGoesFirst ==
  \A c \in Ofcs : pc[c] = "unrow" => rules[c][hand[c]] = NoFlow \/ hand[c] \in relaid

PrunedIsKnown ==
  \A c \in Ofcs : pc[c] \in Inserting => prune[c] \subseteq Known(c)

PrunedHasRow ==
  \A c \in Ofcs : pc[c] \in Inserting => \A nm \in prune[c] : rows[nm] # NoFlow

HandIsNotPruned ==
  \A c \in Ofcs : pc[c] = "unrow" => hand[c] \notin prune[c]

UnseenHasNoRule ==
  \A c \in Ofcs : pc[c] \in Inserting =>
    \A nm \in prune[c] \ (keep[c] \cup atOfc[c]) : rules[c][nm] = NoFlow

\* Second entries are of rows first read with a network; a rule that was not
\* at the controller is there only if it was inserted again.
SecondEntriesAreSound ==
  \A c \in Ofcs :
    /\ pc[c] = "flows" => reading[c] \in Nets
    /\ pc[c] \in {"ports", "flows"} => \A nm \in Known(c) : db[c][nm].net # NoNet
    /\ pc[c] \in {"rules"} \cup Inserting =>
         \A nm \in again[c] : nm \in Known(c) /\ db[c][nm].net # NoNet
    /\ pc[c] \in Inserting =>
         \A nm \in again[c] \ atOfc[c] : rules[c][nm] = NoFlow \/ nm \in relaid

ClearedHasNoRule ==
  \A c \in Ofcs : pc[c] = "clearrows" => rules[c] = NoNames

\* database_flows are rows: no other thread deletes them meanwhile.
ReadRowsExist ==
  \A c \in Ofcs : pc[c] \in {"ports", "flows", "rules"} =>
    \A nm \in Names : db[c][nm] # NoFlow => rows[nm] # NoFlow

\* What the types rest on; this part holds with any number of threads.
TypeInv == TypeOK /\ HandIsName /\ PrunedIsKnown

IInv ==
  /\ TypeInv
  /\ NoOrphanRule
  /\ RuleGoesFirst
  /\ PrunedHasRow
  /\ HandIsNotPruned
  /\ UnseenHasNoRule
  /\ SecondEntriesAreSound
  /\ ClearedHasNoRule
  /\ ReadRowsExist

\* No request, no task, no update in progress.
Quiescent ==
  /\ \A h \in HttpThreads : request[h] = Idle /\ toQueue[h] = << >>
  /\ \A c \in Ofcs : pc[c] = "idle" /\ queue[c] = << >>

\* The ports that an update of the network is to see, and the flows the tables
\* call for now.
Sight(n) ==
  [m \in Nets |-> IF m \in BoundTogether(n) \cap netAlive /\ netUp[m] THEN Attached(m) ELSE {}]

Wanted(n) == {f \in NetFlows(Sight(n)) : f.net = n}

InSync(n) ==
  /\ {rows[nm] : nm \in RowsOf(n)} = Wanted(n)
  /\ \A nm \in RowsOf(n) : \E c \in Ofcs : rules[c][nm] = BodyOf(rows[nm])

(***************************************************************************)
(* When everything is quiet, the rules of every network are exactly those  *)
(* its ports call for, and a deleted network has none, or its status says  *)
(* ERROR: no change is lost between the tables and the thread whatever the *)
(* order of requests and updates was, and no update that failed is shown   *)
(* as a success, with these exceptions.  Excused are networks of which     *)
(* something was lost in a restart, undone by clear-all, not deleted by a  *)
(* call that failed (the loop goes on and reports ACTIVE) or not computed  *)
(* because of the KeyError (nothing is reported), and those that do not    *)
(* exist or are only bound with the network whose update failed.  Missed   *)
(* are those that a request changed without a task, because it had read a  *)
(* row that another request wrote meanwhile or because delete_port does    *)
(* not read a port that is not external, and those bound with a network    *)
(* that was deleted before its update ran.                                 *)
(***************************************************************************)
QuiescentSync ==
  Quiescent =>
    \A n \in Nets \ (excused \cup missed) :
      \/ netStatus[n] = "ERROR"
      \/ IF n \in netAlive THEN InSync(n)
                            ELSE \A nm \in Names : nm[1] = n => rows[nm] = NoFlow

\* An update that reads n is queued or about to be queued.
RefreshPending(n) ==
  \/ \E h \in HttpThreads : \E i \in DOMAIN toQueue[h] : toQueue[h][i].task \in BoundTogether(n)
  \/ \E c \in Ofcs, m \in BoundTogether(n) : \E i \in DOMAIN queue[c] : queue[c][i] = m

(***************************************************************************)
(* A rule that the tables still call for is taken from a controller only   *)
(* by clear-all, or by an update that read the tables before they changed; *)
(* then another update that will put it back is already on its way.        *)
(***************************************************************************)
WantedRuleComesBack ==
  [][\A c \in Ofcs, nm \in Names :
       /\ rules[c][nm] # NoFlow /\ rules'[c][nm] = NoFlow
       /\ pc[c] # "clear"
       /\ rows[nm] # NoFlow /\ rows[nm].net \in netAlive \ (excused \cup missed)
       /\ rows[nm] \in Wanted(rows[nm].net)
       => RefreshPending(rows[nm].net)]_vars

(***************************************************************************)
(* "delete not needed old flows from openflow and from DDBB": when all is  *)
(* quiet every rule has a row, through which an update can still find it.  *)
(* Violated: new_flow of a network that is deleted before new_row.         *)
(***************************************************************************)
NoStrayRule ==
  Quiescent => \A c \in Ofcs, nm \in Names : rules[c][nm] # NoFlow => rows[nm] # NoFlow

(***************************************************************************)
(* "The flow is repeated if all the fields, apart from name, are equal":   *)
(* a row that is kept is one of the flows computed, vlan_id included.      *)
(* Violated: a port replaced by one with another VLAN.                     *)
(***************************************************************************)
RepeatedIsEqual ==
  \A c \in Ofcs : pc[c] = "insert" =>
    \A nm \in keep[c] : db[c][nm] \in NetFlows(snap[c])

(***************************************************************************)
(* The requests and the updates they cause come to an end: no update works *)
(* for ever or waits for something, whatever fails under it.               *)
(***************************************************************************)
Settles == <>[]Quiescent
=============================================================================
