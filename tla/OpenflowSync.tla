---------------------------- MODULE OpenflowSync ----------------------------
(***************************************************************************)
(* The inductive invariants of OpenflowThread behind QuiescentSync and     *)
(* WantedRuleComesBack, in a process with one controller.  They relate     *)
(* what an update in progress has read and has still to write to what the  *)
(* tables say now and to the updates that are still to come.               *)
(* OpenflowProofs proves that every step keeps them.                       *)
(***************************************************************************)
EXTENDS OpenflowThread

\* A network is bound to one that is not bound itself.
OneLevel == \A n \in Nets : Bind[n] \in Nets => Bind[Bind[n]] = NoNet

\* The fields that are compared tell the VLAN.
VlanIsMatched ==
  \A s, t \in Snapshots : \A f \in NetFlows(s), g \in NetFlows(t) : AlreadyPresent(f, g) => f = g

\* An update has read the networks, and did not fail.
Updating ==
  \/ pc[Default] \in {"ports", "flows", "rules"} \cup Inserting
  \/ pc[Default] = "report" /\ ok[Default]

\* The networks that the update in progress leaves right, or reports as failed.
Affected ==
  IF Updating THEN group[Default] \cup {cur[Default]}
  ELSE IF pc[Default] = "report" THEN BoundTogether(cur[Default]) ELSE {}

\* An update of the network itself is to come, or has not read anything yet.
Told(n) ==
  \/ \E h \in HttpThreads : \E i \in DOMAIN toQueue[h] : toQueue[h][i].task = n
  \/ \E i \in DOMAIN queue[Default] : queue[Default][i] = n
  \/ pc[Default] = "nets" /\ cur[Default] = n

\* No update is to come that reads the network, and none was missed.
Calm(n) == n \in netAlive \ missed /\ \A m \in BoundTogether(n) : ~Told(m)

\* No ports, and no update to come because of that.
Bare(n) == n \in Nets \ missed /\ Attached(n) = {} /\ ~Told(n)

\* What an update reads of the ports of a network now.
SeenNow(n) == IF netUp[n] THEN Attached(n) ELSE {}

\* The flow of a row, if its network is gone too.
FlowOf(nm) == [net |-> nm[1], match |-> rows[nm].match, vlan |-> rows[nm].vlan]

\* A row that the update is about to delete (by its first entry).
Going(nm) ==
  \/ nm \in prune[Default] \ keep[Default]
  \/ pc[Default] = "unrow" /\ hand[Default] = nm

\* The tables: ports are of networks that exist, a row outlives its network
\* without net_id, its flow was computed once, its rule is its own.
TablesAreSound ==
  /\ \A p \in Ports : portNet[p] \in Nets => portNet[p] \in netAlive
  /\ \A nm \in Names : rows[nm] # NoFlow =>
       rows[nm].net = IF nm[1] \in netAlive THEN nm[1] ELSE NoNet
  /\ \A nm \in Names : rows[nm] # NoFlow => \E s \in Snapshots : FlowOf(nm) \in NetFlows(s)
  /\ \A nm \in Names : rows[nm] # NoFlow /\ rules[Default][nm] # NoFlow =>
       rules[Default][nm] = BodyOf(rows[nm])

\* A request that has read a row has no tasks yet; a new port is new.
RequestsAreSound ==
  /\ \A h \in HttpThreads : request[h] # Idle => toQueue[h] = << >>
  /\ \A h \in HttpThreads : request[h].op = "new" => portNet[request[h].port] = NoPort
  /\ \A g, h \in HttpThreads :
       request[g].op = "new" /\ request[h].op = "new" /\ request[g].port = request[h].port => g = h

\* An update-net task is of a network.
CurIsNet == pc[Default] \notin {"idle", "clear", "clearrows"} => cur[Default] \in Nets

\* The rules are gone and the rows not yet: every network is excused.
ClearedIsExcused == pc[Default] = "clearrows" => excused = Nets

\* What was read are networks bound together, all that existed then.
GroupIsBound ==
  LET c == Default IN
  Updating =>
    /\ group[c] \subseteq BoundTogether(cur[c])
    /\ toRead[c] \subseteq group[c]
    /\ group[c] # {} => BoundTogether(cur[c]) \cap netAlive \subseteq group[c]
    /\ cur[c] \in netAlive => cur[c] \in group[c]
    /\ \A m \in Nets \ group[c] : snap[c][m] = {}
    /\ pc[c] = "flows" => reading[c] \in toRead[c]
    /\ pc[c] \notin {"ports", "flows"} => toRead[c] = {}

\* The ports of the network were read, in this update.
WasRead(m) ==
  m \in group[Default] /\ (m \in toRead[Default] => pc[Default] = "flows" /\ m = reading[Default])

\* Of a network to which no update is to come, what was read of its ports is
\* what a reader sees now.
SnapIsRight ==
  LET c == Default IN
  Updating =>
    /\ \A n \in group[c] : Calm(n) => \A m \in group[c] :
         IF WasRead(m) THEN snap[c][m] = SeenNow(m)
                       ELSE Attached(m) = {} \/ (m \in upNets[c] <=> netUp[m])
    /\ \A n \in group[c] \cup {cur[c]} : Bare(n) => snap[c][n] = {}

\* The rows read (database_flows) are of the networks read, or of none.
DbIsRight ==
  LET c == Default IN
  Updating => \A nm \in Known(c) :
    /\ nm[1] \in group[c] \cup (Nets \ netAlive)
    /\ db[c][nm].net \in {nm[1], NoNet}
    /\ db[c][nm].net = NoNet => nm[1] \notin netAlive
    /\ rows[nm] # NoFlow => BodyOf(db[c][nm]) = BodyOf(rows[nm])
    /\ \E s \in Snapshots :
         [net |-> nm[1], match |-> db[c][nm].match, vlan |-> db[c][nm].vlan] \in NetFlows(s)

\* What was read twice is of networks deleted meanwhile.
TwiceIsDead ==
  LET c == Default IN
  /\ pc[c] \in {"rules"} \cup Inserting => \A nm \in again[c] : nm[1] \notin netAlive
  /\ pc[c] = "report" /\ ok[c] => again[c] = {}

\* The rows of the networks that were read are among them, but for those this
\* update inserted.
RowsAreKnown ==
  LET c == Default IN
  \A nm \in Names : rows[nm] # NoFlow =>
    /\ pc[c] \in {"ports", "flows"} /\ nm[1] \in (group[c] \ toRead[c]) \cap netAlive =>
         nm \in Known(c)
    /\ pc[c] = "rules" /\ nm[1] \in Affected => nm \in Known(c)
    /\ pc[c] \in Inserting /\ nm[1] \in Affected => nm \in Known(c) \/ rules[c][nm] # NoFlow

\* The flow between the two stores.
HandIsRight ==
  LET c == Default IN
  /\ pc[c] \in Inserting => new[c] \subseteq NetFlows(snap[c])
  /\ pc[c] = "row" =>
       /\ hand[c][1] = handFlow[c].net
       /\ hand[c] \notin Known(c)
       /\ rules[c][hand[c]] = BodyOf(handFlow[c])
       /\ handFlow[c] \in NetFlows(snap[c])
  /\ pc[c] = "unrow" =>
       hand[c] \in Known(c) /\ (hand[c] \in keep[c] => hand[c][1] \notin netAlive)
  /\ pc[c] = "report" /\ ok[c] => new[c] = {} /\ prune[c] = {}

\* The update works towards the flows of what it has read.
WorkIsRight ==
  LET c == Default
      flows == NetFlows(snap[c])
  IN
  pc[c] \in Inserting \/ (pc[c] = "report" /\ ok[c]) =>
    /\ \A f \in flows : f.net \in netAlive =>
         \/ f \in new[c]
         \/ pc[c] = "row" /\ handFlow[c] = f
         \/ \E nm \in Names : nm[1] = f.net /\ rows[nm] = f /\ ~Going(nm)
    /\ clean[c] => \A nm \in Names : rows[nm] # NoFlow /\ nm[1] \in Affected /\ ~Going(nm) =>
         /\ FlowOf(nm) \in flows
         /\ nm \in prune[c] \/ rules[c][nm] # NoFlow

\* The rows of a network are the flows the tables call for, and installed.
HasItsFlows(n) ==
  /\ \A f \in Wanted(n) : \E nm \in Names : nm[1] = n /\ rows[nm] = f
  /\ \A nm \in Names : nm[1] = n /\ rows[nm] # NoFlow =>
       rows[nm] \in Wanted(n) /\ rules[Default][nm] = BodyOf(rows[nm])

\* No update works for the network, and none is to come: it has its flows, or
\* shows that its update failed; a network without ports and tasks has none,
\* deleted or not.
Settled ==
  \A n \in Nets \ (Affected \cup excused \cup missed) :
    \/ netStatus[n] = "ERROR"
    \/ /\ Calm(n) => HasItsFlows(n)
       /\ Bare(n) => \A nm \in Names : nm[1] = n => rows[nm] = NoFlow

(***************************************************************************)
(* What makes QuiescentSync hold: at each point of an update, what it has  *)
(* read is what the tables say now unless another update is to come, and   *)
(* the rows it leaves, inserts and deletes make up the flows of that.  A   *)
(* row of a network deleted between two reads has two entries; it may be   *)
(* left for the first and deleted for the second, and its flow is of no    *)
(* network.                                                                *)
(***************************************************************************)
SyncInv ==
  /\ TablesAreSound
  /\ RequestsAreSound
  /\ CurIsNet
  /\ ClearedIsExcused
  /\ GroupIsBound
  /\ SnapIsRight
  /\ DbIsRight
  /\ TwiceIsDead
  /\ RowsAreKnown
  /\ HandIsRight
  /\ WorkIsRight
  /\ Settled

\* A flow of a network has one row.
RowsAreUnique ==
  \A nm, k \in Names : rows[nm] # NoFlow /\ rows[nm].net \in netAlive /\ rows[k] = rows[nm] => k = nm

\* What the update is to insert has no row; what it is to delete is not wanted.
PlanIsRight ==
  LET c == Default IN
  /\ pc[c] \in Inserting =>
       /\ \A f \in new[c], nm \in Names : f.net \in netAlive => rows[nm] # f
       /\ \A nm \in prune[c] \ keep[c] :
            rows[nm] # NoFlow /\ rows[nm].net \in netAlive => rows[nm] \notin NetFlows(snap[c])
  /\ pc[c] = "row" =>
       /\ handFlow[c] \notin new[c]
       /\ \A nm \in Names : handFlow[c].net \in netAlive => rows[nm] # handFlow[c]

(***************************************************************************)
(* What WantedRuleComesBack needs besides: no flow has two rows, and an    *)
(* update deletes no row whose flow it has computed.                       *)
(***************************************************************************)
RowsInv == RowsAreUnique /\ PlanIsRight

(***************************************************************************)
(* The inductive invariant: between any two steps of an update, whatever   *)
(* requests did meanwhile, what is in hand is a name or a flow of the rows *)
(* read, and the update works towards what the tables say, or another one  *)
(* is to come.                                                             *)
(***************************************************************************)
UpdateInv == IInv /\ SyncInv /\ RowsInv
=============================================================================
