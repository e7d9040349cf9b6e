--------------------------- MODULE OpenflowProofs ---------------------------
(***************************************************************************)
(* Theorems about OpenflowThread, for any networks, ports, flows and       *)
(* bounds.  TypeInv is inductive with any number of controllers; IInv is   *)
(* inductive when one thread serves the process, and so are SyncInv and    *)
(* RowsInv of OpenflowSync when networks are bound one level deep.         *)
(***************************************************************************)
EXTENDS OpenflowSync, TLAPS

\* A function that is changed at one point keeps its type.
LEMMA UpdateIsTyped ==
  ASSUME NEW S, NEW T, NEW f \in [S -> T], NEW x, NEW y \in T
  PROVE  [f EXCEPT ![x] = y] \in [S -> T]
OBVIOUS

LEMMA NamesAreTyped ==
  /\ NoNames \in [Names -> FlowOrNone]
  /\ NoNames \in [Names -> Body \cup {NoFlow}]
  /\ NoPorts \in Snapshots
BY DEF NoNames, NoPorts, Snapshots, FlowOrNone

LEMMA BodyIsTyped == \A f \in Flow : BodyOf(f) \in Body
BY DEF Flow, Body, BodyOf

LEMMA OrphanFlow == \A f \in Flow : [f EXCEPT !.net = NoNet] \in Flow
<1> SUFFICES ASSUME NEW f \in Flow PROVE [f EXCEPT !.net = NoNet] \in Flow
  OBVIOUS
<1>1. /\ f.match \in Match /\ f.vlan \in Vlan
      /\ [f EXCEPT !.net = NoNet] = [net |-> NoNet, match |-> f.match, vlan |-> f.vlan]
  BY DEF Flow
<1> QED
  BY <1>1 DEF Flow

\* What a request in progress has read.
LEMMA RequestShape ==
  ASSUME NEW r \in RowRead
  PROVE  /\ r.op = "new" => r.port \in Ports /\ r.net \in Nets \cup {NoNet}
         /\ r.op = "edit" => /\ r.port \in Ports
                             /\ r.old \in Nets \cup {NoNet}
                             /\ r.new \in Nets \cup {NoNet}
         /\ r.op = "delete" => r.port \in Ports /\ r.old \in Nets \cup {NoNet, NoPort}
         /\ r.op = "admin" => r.net \in Nets /\ r.up \in BOOLEAN
BY DEF RowRead, Idle

\* One task to insert.
LEMMA OneTask ==
  ASSUME NEW n \in Task, NEW c \in Ofcs \cup {Anywhere}
  PROVE  <<UpdateNet(n, c)>> \in Seq(Insertion)
<1>1. UpdateNet(n, c) \in Insertion
  BY DEF UpdateNet, Insertion
<1> QED
  BY <1>1

LEMMA InitTypeInv == Init => TypeInv
BY SentinelsAreDistinct, TopologyIsTyped, NamesAreTyped, InitRowsAreSound
   DEF Init, TypeInv, TypeOK, TablesTyped, HttpTyped, ReadTyped, PlanTyped,
       HistoryTyped, HandIsName, PrunedIsKnown, Inserting, Steps, FlowOrNone,
       NameOrNone, RowRead

\* A request leaves the threads alone; it is enough to type what it writes.
LEMMA RequestStep ==
  ASSUME TypeInv, UNCHANGED <<rules, pc, readVars, planVars, histVars>>,
         TablesTyped', HttpTyped', missed' \subseteq Nets
  PROVE  TypeInv'
BY DEF TypeInv, TypeOK, TablesTyped, HttpTyped, ReadTyped, PlanTyped, HistoryTyped,
       HandIsName, PrunedIsKnown, Known, readVars, planVars, histVars

LEMMA RequestTypes ==
  ASSUME TypeInv, NEW h \in HttpThreads, Request(h)
  PROVE  TypeInv'
<1> USE SentinelsAreDistinct, TopologyIsTyped
    DEF TypeInv, TypeOK, TablesTyped, HttpTyped, HistoryTyped, ofcSide, threadSide,
        Begin, Task
<1>1. ASSUME NEW p \in Ports, NEW n \in Nets \cup {NoNet}, CheckNewPort(h, p, n)
      PROVE  TypeInv'
  <2>1. TablesTyped' /\ HttpTyped' /\ missed' \subseteq Nets
    BY <1>1 DEF CheckNewPort, RowRead
  <2> QED
    BY <1>1, <2>1, RequestStep DEF CheckNewPort
<1>2. ASSUME NEW p \in Ports, NEW n \in Nets \cup {NoNet}, ReadPortToEdit(h, p, n)
      PROVE  TypeInv'
  <2>1. TablesTyped' /\ HttpTyped' /\ missed' \subseteq Nets
    BY <1>2 DEF ReadPortToEdit, RowRead
  <2> QED
    BY <1>2, <2>1, RequestStep DEF ReadPortToEdit
<1>3. ASSUME NEW p \in Ports, ReadPortToDelete(h, p) PROVE TypeInv'
  <2>1. TablesTyped' /\ HttpTyped' /\ missed' \subseteq Nets
    BY <1>3 DEF ReadPortToDelete, RowRead
  <2> QED
    BY <1>3, <2>1, RequestStep DEF ReadPortToDelete
<1>4. ASSUME NEW n \in Nets, ReadNetToEdit(h, n) PROVE TypeInv'
  <2>1. TablesTyped' /\ HttpTyped' /\ missed' \subseteq Nets
    BY <1>4 DEF ReadNetToEdit, RowRead
  <2> QED
    BY <1>4, <2>1, RequestStep DEF ReadNetToEdit
<1>5. ASSUME NEW n \in Nets, DeleteNet(h, n) PROVE TypeInv'
  <2>1. \A nm \in RowsOf(n) : [rows[nm] EXCEPT !.net = NoNet] \in Flow
    BY OrphanFlow DEF RowsOf, FlowOrNone
  <2>2. rows' \in [Names -> FlowOrNone]
    BY <1>5, <2>1 DEF DeleteNet, FlowOrNone
  <2>3. TablesTyped' /\ HttpTyped' /\ missed' \subseteq Nets
    BY <1>5, <2>2 DEF DeleteNet
  <2> QED
    BY <1>5, <2>3, RequestStep DEF DeleteNet
<1>6. ASSUME NEW n \in Nets, ReinstallNet(h, n) PROVE TypeInv'
  <2>1. TablesTyped' /\ HttpTyped' /\ missed' \subseteq Nets
    BY <1>6, OneTask DEF ReinstallNet
  <2> QED
    BY <1>6, <2>1, RequestStep DEF ReinstallNet
<1>7. ASSUME NEW c \in Ofcs, ClearRules(h, c) PROVE TypeInv'
  <2>1. TablesTyped' /\ HttpTyped' /\ missed' \subseteq Nets
    BY <1>7, OneTask DEF ClearRules
  <2> QED
    BY <1>7, <2>1, RequestStep DEF ClearRules
<1> QED
  BY <1>1, <1>2, <1>3, <1>4, <1>5, <1>6, <1>7 DEF Request

LEMMA ProceedTypes ==
  ASSUME TypeInv, NEW h \in HttpThreads, Proceed(h)
  PROVE  TypeInv'
<1> USE SentinelsAreDistinct, TopologyIsTyped
    DEF TypeInv, TypeOK, TablesTyped, HttpTyped, HistoryTyped, ofcSide, threadSide,
        Task
<1> DEFINE r == request[h]
<1>1. r \in RowRead /\ Idle \in RowRead
  BY DEF RowRead
<1>2. \A n \in Nets \cup {NoNet}, p \in Ports : UpdateOf(n, p) \in Seq(Insertion)
  BY OneTask DEF UpdateOf
<1>3. ASSUME NEW ns, Misses(ns) PROVE missed' \subseteq Nets
  BY <1>3 DEF Misses, BoundTogether
<1>4. ASSUME EditPort(h) PROVE TypeInv'
  <2>1. r.port \in Ports /\ r.old \in Nets \cup {NoNet} /\ r.new \in Nets \cup {NoNet}
    BY <1>1, <1>4, RequestShape DEF EditPort
  <2>2. UpdateOf(r.new, r.port) \o UpdateOf(r.old, r.port) \in Seq(Insertion)
    BY <1>2, <2>1
  <2>3. missed' \subseteq Nets
    BY <1>3, <1>4 DEF EditPort
  <2>a. /\ request' = [request EXCEPT ![h] = Idle]
        /\ UNCHANGED <<netAlive, netUp, rows, queue, threadSide>>
        /\ portNet' \in {portNet, [portNet EXCEPT ![r.port] = r.new]}
        /\ toQueue' \in {toQueue, [toQueue EXCEPT ![h] =
                               UpdateOf(r.new, r.port) \o UpdateOf(r.old, r.port)]}
    BY <1>4 DEF EditPort
  <2>b. /\ portNet' \in [Ports -> Nets \cup {NoNet, NoPort}]
        /\ toQueue' \in [HttpThreads -> Seq(Insertion)]
        /\ request' \in [HttpThreads -> RowRead]
    BY <1>1, <2>1, <2>2, <2>a, UpdateIsTyped
  <2>4. TablesTyped' /\ HttpTyped' /\ missed' \subseteq Nets
    BY <2>3, <2>a, <2>b
  <2> QED
    BY <1>4, <2>4, RequestStep DEF EditPort
<1>5. ASSUME DeletePort(h) PROVE TypeInv'
  <2>1. r.port \in Ports /\ r.old \in Nets \cup {NoNet, NoPort}
    BY <1>1, <1>5, RequestShape DEF DeletePort
  <2>2. r.old # NoPort => UpdateOf(r.old, r.port) \in Seq(Insertion)
    BY <1>2, <2>1
  <2>3. missed' \subseteq Nets
    BY <1>3, <1>5 DEF DeletePort
  <2>a. /\ request' = [request EXCEPT ![h] = Idle]
        /\ UNCHANGED <<netAlive, netUp, rows, queue, threadSide>>
        /\ portNet' = [portNet EXCEPT ![r.port] = NoPort]
        /\ \/ toQueue' = toQueue
           \/ r.old # NoPort /\ toQueue' = [toQueue EXCEPT ![h] = UpdateOf(r.old, r.port)]
    BY <1>5 DEF DeletePort
  <2>b. /\ portNet' \in [Ports -> Nets \cup {NoNet, NoPort}]
        /\ toQueue' \in [HttpThreads -> Seq(Insertion)]
        /\ request' \in [HttpThreads -> RowRead]
    BY <1>1, <2>1, <2>2, <2>a, UpdateIsTyped
  <2>4. TablesTyped' /\ HttpTyped' /\ missed' \subseteq Nets
    BY <2>3, <2>a, <2>b
  <2> QED
    BY <1>5, <2>4, RequestStep DEF DeletePort
<1>6. ASSUME EditNet(h) PROVE TypeInv'
  <2>1. r.net \in Nets /\ r.up \in BOOLEAN
    BY <1>1, <1>6, RequestShape DEF EditNet
  <2>2. <<UpdateNet(r.net, Anywhere)>> \in Seq(Insertion)
    BY <2>1, OneTask
  <2>3. missed' \subseteq Nets
    BY <1>3, <1>6 DEF EditNet
  <2>a. /\ request' = [request EXCEPT ![h] = Idle]
        /\ UNCHANGED <<netAlive, portNet, rows, queue, threadSide>>
        /\ netUp' \in {netUp, [netUp EXCEPT ![r.net] = r.up]}
        /\ toQueue' \in {toQueue, [toQueue EXCEPT ![h] = << >>],
                         [toQueue EXCEPT ![h] = <<UpdateNet(r.net, Anywhere)>>]}
    BY <1>6 DEF EditNet
  <2>b. /\ netUp' \in [Nets -> BOOLEAN]
        /\ toQueue' \in [HttpThreads -> Seq(Insertion)]
        /\ request' \in [HttpThreads -> RowRead]
    BY <1>1, <2>1, <2>2, <2>a, UpdateIsTyped
  <2>4. TablesTyped' /\ HttpTyped' /\ missed' \subseteq Nets
    BY <2>3, <2>a, <2>b
  <2> QED
    BY <1>6, <2>4, RequestStep DEF EditNet
<1>8. ASSUME NewPort(h) PROVE TypeInv'
  <2>1. r.port \in Ports /\ r.net \in Nets \cup {NoNet}
    BY <1>1, <1>8, RequestShape DEF NewPort
  <2>a. /\ request' = [request EXCEPT ![h] = Idle]
        /\ UNCHANGED <<netAlive, netUp, rows, queue, ofcSide>>
        /\ portNet' \in {portNet, [portNet EXCEPT ![r.port] = r.net]}
        /\ \/ UNCHANGED toQueue
           \/ toQueue' = [toQueue EXCEPT ![h] = << >>]
           \/ r.net # NoNet /\ \E c \in {PortOfc[r.port], Anywhere} :
                toQueue' = [toQueue EXCEPT ![h] = <<UpdateNet(r.net, c)>>]
    BY <1>8 DEF NewPort
  <2>2. r.net # NoNet => \A c \in {PortOfc[r.port], Anywhere} :
                           <<UpdateNet(r.net, c)>> \in Seq(Insertion)
    BY <2>1, OneTask
  <2>b. /\ portNet' \in [Ports -> Nets \cup {NoNet, NoPort}]
        /\ toQueue' \in [HttpThreads -> Seq(Insertion)]
        /\ request' \in [HttpThreads -> RowRead]
    BY <1>1, <2>1, <2>2, <2>a, UpdateIsTyped
  <2>4. TablesTyped' /\ HttpTyped' /\ missed' \subseteq Nets
    BY <2>a, <2>b
  <2> QED
    BY <1>8, <2>4, RequestStep DEF NewPort
<1>7. ASSUME InsertTask(h) PROVE TypeInv'
  <2>1. Head(toQueue[h]) \in Insertion /\ Tail(toQueue[h]) \in Seq(Insertion)
    BY <1>7 DEF InsertTask
  <2>2. Head(toQueue[h]).task \in Nets \cup {ClearAll}
    BY <2>1 DEF Insertion
  <2>a. PICK c : queue' = [queue EXCEPT ![c] = Append(@, Head(toQueue[h]).task)]
    BY <1>7 DEF InsertTask
  <2>b. c \in Ofcs => Append(queue[c], Head(toQueue[h]).task) \in Seq(Task)
    BY <2>2
  <2>c. queue' \in [Ofcs -> Seq(Task)]
    BY <2>a, <2>b
  <2>d. toQueue' \in [HttpThreads -> Seq(Insertion)]
    BY <1>7, <2>1 DEF InsertTask
  <2>3. TablesTyped' /\ HttpTyped' /\ missed' \subseteq Nets
    BY <1>7, <2>c, <2>d DEF InsertTask
  <2> QED
    BY <1>7, <2>3, RequestStep DEF InsertTask
<1> QED
  BY <1>4, <1>5, <1>6, <1>7, <1>8 DEF Proceed
\* A thread that reads changes only what it has read and its pc.
LEMMA ReadingKeepsTypes ==
  ASSUME TypeInv, NEW c \in Ofcs,
         UNCHANGED <<netAlive, netUp, netStatus, portNet, rows, ofcStatus, rules,
                     request, toQueue, unrecorded, relaid, clean, new, keep, prune,
                     hand, handFlow, ok>>,
         again' \in [Ofcs -> SUBSET Names],
         queue' \in [Ofcs -> Seq(Task)], ReadTyped', missed' \subseteq Nets,
         excused' \subseteq Nets,
         \E s \in Steps \ {"insert", "row", "unrow"} : pc' = [pc EXCEPT ![c] = s],
         \A o \in Ofcs \ {c} : db'[o] = db[o]
  PROVE  TypeInv'
<1> USE DEF TypeInv, TypeOK
<1>1. TablesTyped' /\ HttpTyped' /\ HistoryTyped'
  BY DEF TablesTyped, HttpTyped, HistoryTyped
<1>2. PlanTyped'
  BY DEF PlanTyped
<1>3. \A o \in Ofcs : pc'[o] \in {"insert", "row", "unrow"} => o # c /\ pc'[o] = pc[o]
  BY DEF PlanTyped
<1>4. HandIsName' /\ PrunedIsKnown'
  BY <1>3 DEF HandIsName, PrunedIsKnown, Inserting, Known
<1> QED
  BY <1>1, <1>2, <1>4

LEMMA ReadTypes ==
  ASSUME TypeInv, NEW c \in Ofcs,
         \/ TakeTask(c) \/ ReadNets(c) \/ ReadPorts(c) \/ ReadFlows(c)
         \/ ReadNullFlows(c) \/ ReadFails(c) \/ Refuse(c)
  PROVE  TypeInv'
<1> USE SentinelsAreDistinct, TopologyIsTyped, NamesAreTyped
    DEF dbVars, httpVars, readVars, planVars, histVars, Goto, Steps
<1>0. /\ TablesTyped /\ HttpTyped /\ ReadTyped /\ PlanTyped /\ HistoryTyped
  BY DEF TypeInv, TypeOK
<1>1. CASE TakeTask(c)
  <2>1. Head(queue[c]) \in Task /\ Tail(queue[c]) \in Seq(Task)
    BY <1>0, <1>1 DEF HttpTyped, TakeTask
  <2>2. queue' \in [Ofcs -> Seq(Task)]
    BY <1>0, <1>1, <2>1 DEF HttpTyped, TakeTask
  <2>3. ReadTyped'
    BY <1>0, <1>1, <2>1 DEF ReadTyped, TakeTask, Task
  <2> QED
    BY <1>0, <1>1, <2>2, <2>3, ReadingKeepsTypes DEF TakeTask, HistoryTyped, PlanTyped
<1>2. CASE ReadNets(c)
  <2>1. ReadTyped'
    BY <1>0, <1>2 DEF ReadTyped, ReadNets, BoundTogether, TablesTyped
  <2>2. missed' \subseteq Nets
    BY <1>0, <1>2 DEF ReadNets, BoundTogether, HistoryTyped
  <2> QED
    BY <1>0, <1>2, <2>1, <2>2, ReadingKeepsTypes DEF ReadNets, HistoryTyped, HttpTyped, ReadTyped,
       PlanTyped
<1>3. CASE ReadPorts(c)
  <2>1. ReadTyped'
    BY <1>0, <1>3 DEF ReadTyped, ReadPorts, Attached, Snapshots
  <2> QED
    BY <1>0, <1>3, <2>1, ReadingKeepsTypes DEF ReadPorts, HistoryTyped, HttpTyped, ReadTyped,
       PlanTyped
<1>4. ASSUME NEW ns, Select(c, ns) PROVE db' \in [Ofcs -> [Names -> FlowOrNone]]
  BY <1>0, <1>4 DEF Select, ReadTyped, TablesTyped
<1>5. CASE ReadFlows(c)
  <2>1. ReadTyped'
    BY <1>0, <1>4, <1>5 DEF ReadTyped, ReadFlows
  <2> QED
    BY <1>0, <1>5, <2>1, ReadingKeepsTypes DEF ReadFlows, HistoryTyped, HttpTyped, ReadTyped,
       Select, PlanTyped
<1>6. CASE ReadNullFlows(c)
  <2>1. ReadTyped'
    BY <1>0, <1>4, <1>6 DEF ReadTyped, ReadNullFlows
  <2>2. again' \in [Ofcs -> SUBSET Names]
    BY <1>0, <1>6 DEF ReadNullFlows, PlanTyped, RowsOf
  <2> QED
    BY <1>0, <1>6, <2>1, <2>2, ReadingKeepsTypes DEF ReadNullFlows, HistoryTyped, HttpTyped,
       ReadTyped, Select
<1>7. CASE ReadFails(c) \/ Refuse(c)
  <2>1. GiveUp(c)
    BY <1>7 DEF ReadFails, Refuse
  <2>2. pc'[c] = "report" /\ TablesTyped' /\ HttpTyped' /\ ReadTyped' /\ HistoryTyped'
    BY <1>0, <2>1 DEF GiveUp, TablesTyped, HttpTyped, ReadTyped, HistoryTyped, PlanTyped
  <2>3. PlanTyped'
    BY <1>0, <2>1 DEF GiveUp, PlanTyped
  <2>4. HandIsName' /\ PrunedIsKnown'
    BY <1>0, <2>1, <2>2 DEF GiveUp, PlanTyped, TypeInv, HandIsName, PrunedIsKnown, Known,
       Inserting
  <2> QED
    BY <2>2, <2>3, <2>4 DEF TypeInv, TypeOK
<1> QED
  BY <1>1, <1>2, <1>3, <1>5, <1>6, <1>7
\* ReadRules plans the changes: what is computed, kept, and looked at later.
LEMMA PlanTypes ==
  ASSUME TypeInv, NEW c \in Ofcs, ReadRules(c)
  PROVE  TypeInv'
<1> USE DEF dbVars, httpVars, histVars, Goto
<1>0. /\ TablesTyped /\ HttpTyped /\ ReadTyped /\ PlanTyped /\ HistoryTyped
  BY DEF TypeInv, TypeOK
<1> DEFINE flows == NetFlows(snap[c])
           found == {nm \in Names : rules[c][nm] # NoFlow}
           kept == {CHOOSE nm \in Equal(c, f) : TRUE : f \in
                      {g \in flows : Equal(c, g) # {}}}
<1>1. /\ atOfc' = [atOfc EXCEPT ![c] = found]
      /\ new' = [new EXCEPT ![c] = {f \in flows : Equal(c, f) = {}}]
      /\ keep' = [keep EXCEPT ![c] = kept]
      /\ prune' = [prune EXCEPT ![c] = Known(c) \ (kept \cap found)]
      /\ pc' = [pc EXCEPT ![c] = "insert"]
      /\ UNCHANGED <<dbVars, rules, queue, cur, group, upNets, toRead, reading,
                     snap, db, again, hand, handFlow, ok, httpVars, histVars>>
  BY DEF ReadRules
<1>2. flows \subseteq {f \in Flow : f.net \in Nets}
  BY <1>0, NetFlowsIsTyped DEF ReadTyped
<1>3. kept \subseteq Names
  <2>1. ASSUME NEW f \in flows, Equal(c, f) # {}
        PROVE  (CHOOSE nm \in Equal(c, f) : TRUE) \in Equal(c, f)
    BY <2>1
  <2>2. \A f \in flows : Equal(c, f) \subseteq Names
    BY DEF Equal, Known
  <2> QED
    BY <2>1, <2>2
<1>4. Known(c) \subseteq Names /\ found \subseteq Names
  BY DEF Known
<1> HIDE DEF flows, found, kept
<1>5. ReadTyped'
  BY <1>0, <1>1, <1>4 DEF ReadTyped
<1>6. PlanTyped'
  BY <1>0, <1>1, <1>2, <1>3, <1>4 DEF PlanTyped, Steps
<1>7. TablesTyped' /\ HttpTyped' /\ HistoryTyped'
  BY <1>0, <1>1 DEF TablesTyped, HttpTyped, HistoryTyped
<1>8. HandIsName'
  BY <1>0, <1>1 DEF PlanTyped, TypeInv, HandIsName
<1>9. PrunedIsKnown'
  BY <1>0, <1>1, <1>4 DEF PlanTyped, TypeInv, PrunedIsKnown, Known, Inserting
<1> QED
  BY <1>5, <1>6, <1>7, <1>8, <1>9 DEF TypeInv, TypeOK

LEMMA InsertTypes ==
  ASSUME TypeInv, NEW c \in Ofcs, NewFlow(c) \/ NewRow(c)
  PROVE  TypeInv'
<1> USE DEF dbVars, readVars, httpVars, requestSide, Goto, Works, Fails, SetRule
<1>0. /\ TablesTyped /\ HttpTyped /\ ReadTyped /\ PlanTyped /\ HistoryTyped
      /\ HandIsName /\ PrunedIsKnown
  BY DEF TypeInv, TypeOK
<1>1. CASE NewFlow(c)
  <2>1. PICK f \in new[c], i \in NameIdx :
          \/ /\ rules' = [rules EXCEPT ![c][<<f.net, i>>] = BodyOf(f)]
             /\ new' = [new EXCEPT ![c] = @ \ {f}]
             /\ hand' = [hand EXCEPT ![c] = <<f.net, i>>]
             /\ handFlow' = [handFlow EXCEPT ![c] = f]
             /\ pc' = [pc EXCEPT ![c] = "row"]
             /\ UNCHANGED <<ok, unrecorded>>
          \/ /\ \/ /\ rules' = [rules EXCEPT ![c][<<f.net, i>>] = BodyOf(f)]
                   /\ unrecorded' = unrecorded \cup {<<f.net, i>>}
                \/ UNCHANGED <<rules, unrecorded>>
             /\ ok' = [ok EXCEPT ![c] = FALSE]
             /\ pc' = [pc EXCEPT ![c] = "report"]
             /\ UNCHANGED <<new, hand, handFlow>>
    BY <1>1 DEF NewFlow
  <2>2. f \in Flow /\ BodyOf(f) \in Body /\ <<f.net, i>> \in Names
    BY <1>0, BodyIsTyped DEF PlanTyped, Names
  <2>3. PICK x \in Names :
          /\ rules' \in {rules, [rules EXCEPT ![c] = [rules[c] EXCEPT ![x] = BodyOf(f)]]}
          /\ unrecorded' \in {unrecorded, unrecorded \cup {x}}
          /\ hand' \in {hand, [hand EXCEPT ![c] = x]}
    BY <2>1, <2>2
  <2>4. UNCHANGED <<dbVars, queue, readVars, keep, prune, again, httpVars, relaid, clean,
                    excused>>
    BY <1>1 DEF NewFlow
  <2>5. TablesTyped'
    <3>1. [rules[c] EXCEPT ![x] = BodyOf(f)] \in [Names -> Body \cup {NoFlow}]
      BY <1>0, <2>2 DEF TablesTyped
    <3>2. [rules EXCEPT ![c] = [rules[c] EXCEPT ![x] = BodyOf(f)]]
            \in [Ofcs -> [Names -> Body \cup {NoFlow}]]
      BY <1>0, <3>1, UpdateIsTyped DEF TablesTyped
    <3>3. rules' \in [Ofcs -> [Names -> Body \cup {NoFlow}]]
      BY <1>0, <2>3, <3>2 DEF TablesTyped
    <3> QED
      BY <1>0, <2>4, <3>3 DEF TablesTyped
  <2>6. HttpTyped' /\ ReadTyped' /\ HistoryTyped'
    BY <1>0, <2>1, <2>2, <2>3, <2>4 DEF HttpTyped, ReadTyped, HistoryTyped
  <2>7. PlanTyped'
    <3>1. /\ new' \in {new, [new EXCEPT ![c] = @ \ {f}]}
          /\ handFlow' \in {handFlow, [handFlow EXCEPT ![c] = f]}
          /\ pc' \in {[pc EXCEPT ![c] = "row"], [pc EXCEPT ![c] = "report"]}
          /\ ok' \in {ok, [ok EXCEPT ![c] = FALSE]}
      BY <2>1
    <3>2. hand' \in [Ofcs -> NameOrNone]
      BY <1>0, <2>3 DEF PlanTyped, NameOrNone
    <3>3. handFlow' \in [Ofcs -> FlowOrNone]
      BY <1>0, <2>2, <3>1 DEF PlanTyped, FlowOrNone
    <3>4. new' \in [Ofcs -> SUBSET {g \in Flow : g.net \in Nets}]
      BY <1>0, <3>1 DEF PlanTyped
    <3> QED
      BY <1>0, <2>4, <3>1, <3>2, <3>3, <3>4 DEF PlanTyped, Steps
  <2>8. HandIsName'
    BY <1>0, <2>1, <2>2, <2>3 DEF PlanTyped, HandIsName
  <2>9. PrunedIsKnown'
    BY <1>0, <1>1, <2>1, <2>4 DEF NewFlow, PlanTyped, PrunedIsKnown, Known, Inserting
  <2> QED
    BY <2>5, <2>6, <2>7, <2>8, <2>9 DEF TypeInv, TypeOK
<1>2. CASE NewRow(c)
  <2>1. hand[c] \in Names /\ handFlow[c] \in Flow /\ pc[c] = "row"
    BY <1>0, <1>2 DEF NewRow, HandIsName
  <2>2. /\ rows' \in {rows, [rows EXCEPT ![hand[c]] = handFlow[c]]}
        /\ unrecorded' \in {unrecorded, unrecorded \cup {hand[c]}}
        /\ ok' \in {ok, [ok EXCEPT ![c] = FALSE]}
        /\ pc' \in {[pc EXCEPT ![c] = "insert"], [pc EXCEPT ![c] = "report"]}
        /\ hand' = [hand EXCEPT ![c] = NoFlow]
        /\ handFlow' = [handFlow EXCEPT ![c] = NoFlow]
        /\ UNCHANGED <<requestSide, netStatus, ofcStatus, rules, queue, readVars,
                       new, keep, prune, again, relaid, clean, excused>>
    BY <1>2 DEF NewRow
  <2>3. TablesTyped'
    BY <1>0, <2>1, <2>2 DEF TablesTyped, FlowOrNone
  <2>4. HttpTyped' /\ ReadTyped' /\ HistoryTyped'
    BY <1>0, <2>1, <2>2 DEF HttpTyped, ReadTyped, HistoryTyped
  <2>5. PlanTyped'
    BY <1>0, <2>2 DEF PlanTyped, Steps, NameOrNone, FlowOrNone
  <2>6. HandIsName'
    BY <1>0, <2>2 DEF PlanTyped, HandIsName
  <2>7. PrunedIsKnown'
    BY <1>0, <2>1, <2>2 DEF PlanTyped, PrunedIsKnown, Known, Inserting
  <2> QED
    BY <2>3, <2>4, <2>5, <2>6, <2>7 DEF TypeInv, TypeOK
<1> QED
  BY <1>1, <1>2
\* What the steps after the insertions have in common: prune[c] only shrinks.
LEMMA PruningKeepsTypes ==
  ASSUME TypeInv, NEW c \in Ofcs, NEW s \in Steps \ {"row"},
         UNCHANGED <<netAlive, netUp, portNet, queue, readVars, request, toQueue,
                     missed, new, keep, handFlow>>,
         netStatus' \in [Nets -> {"ACTIVE", "ERROR"}],
         ofcStatus' \in [Ofcs -> {"ACTIVE", "ERROR"}],
         rows' \in [Names -> FlowOrNone],
         rules' \in [Ofcs -> [Names -> Body \cup {NoFlow}]],
         HistoryTyped',
         pc' = [pc EXCEPT ![c] = s], s \in Inserting => pc[c] \in Inserting,
         NEW S, prune' = [prune EXCEPT ![c] = @ \ S],
         NEW D, again' = [again EXCEPT ![c] = @ \ D],
         NEW x \in NameOrNone, hand' = [hand EXCEPT ![c] = x], s = "unrow" => x \in Names,
         ok' \in [Ofcs -> BOOLEAN]
  PROVE  TypeInv'
<1>0. /\ TablesTyped /\ HttpTyped /\ ReadTyped /\ PlanTyped /\ HistoryTyped
      /\ HandIsName /\ PrunedIsKnown
  BY DEF TypeInv, TypeOK
<1>1. TablesTyped' /\ HttpTyped' /\ ReadTyped'
  BY <1>0 DEF TablesTyped, HttpTyped, ReadTyped, readVars
<1>2. PlanTyped'
  BY <1>0 DEF PlanTyped
<1>3. HandIsName'
  BY <1>0 DEF PlanTyped, HandIsName
<1>4. PrunedIsKnown'
  BY <1>0 DEF PlanTyped, PrunedIsKnown, Known, readVars
<1> QED
  BY <1>1, <1>2, <1>3, <1>4 DEF TypeInv, TypeOK

LEMMA RuleIsTyped ==
  ASSUME TablesTyped, NEW c \in Ofcs, NEW nm \in Names, NEW b \in Body \cup {NoFlow}
  PROVE  [rules EXCEPT ![c][nm] = b] \in [Ofcs -> [Names -> Body \cup {NoFlow}]]
<1>1. [rules[c] EXCEPT ![nm] = b] \in [Names -> Body \cup {NoFlow}]
  BY DEF TablesTyped
<1> QED
  BY <1>1, UpdateIsTyped DEF TablesTyped

LEMMA UnmarkedIsTyped ==
  ASSUME PlanTyped, NEW c \in Ofcs
  PROVE  Unmarked(c) \subseteq Names
BY DEF PlanTyped, Unmarked, SecondEntries

LEMMA PruneTypes ==
  ASSUME TypeInv, NEW c \in Ofcs,
         \/ Reinsert(c) \/ DelFlow(c) \/ SkipDelFlow(c) \/ DeleteRow(c) \/ AllDone(c)
  PROVE  TypeInv'
<1> USE DEF dbVars, httpVars, requestSide, Goto, SetRule
<1>0. /\ TablesTyped /\ HttpTyped /\ ReadTyped /\ PlanTyped /\ HistoryTyped
      /\ HandIsName /\ PrunedIsKnown
  BY DEF TypeInv, TypeOK
<1>1. /\ prune = [prune EXCEPT ![c] = @ \ {}]
      /\ again = [again EXCEPT ![c] = @ \ {}]
      /\ hand = [hand EXCEPT ![c] = hand[c]] /\ hand[c] \in NameOrNone
      /\ pc = [pc EXCEPT ![c] = pc[c]]
  BY <1>0 DEF PlanTyped
<1>2. /\ netStatus \in [Nets -> {"ACTIVE", "ERROR"}]
      /\ ofcStatus \in [Ofcs -> {"ACTIVE", "ERROR"}]
      /\ rows \in [Names -> FlowOrNone]
      /\ rules \in [Ofcs -> [Names -> Body \cup {NoFlow}]]
      /\ ok \in [Ofcs -> BOOLEAN] /\ [ok EXCEPT ![c] = FALSE] \in [Ofcs -> BOOLEAN]
  BY <1>0 DEF TablesTyped, PlanTyped
<1>3. {"insert", "unrow", "report"} \subseteq Steps \ {"row"}
      /\ {"insert", "unrow"} \subseteq Inserting /\ "report" \notin Inserting
  BY DEF Steps, Inserting
<1>4. CASE Reinsert(c)
  <2>1. PICK nm \in prune[c] \cap keep[c] :
          /\ rules' \in {rules, [rules EXCEPT ![c][nm] = BodyOf(db[c][nm])]}
          /\ \/ /\ prune' = [prune EXCEPT ![c] = @ \ {nm}]
                /\ UNCHANGED <<pc, ok>>
             \/ /\ ok' = [ok EXCEPT ![c] = FALSE]
                /\ pc' = [pc EXCEPT ![c] = "report"]
                /\ UNCHANGED prune
    BY <1>4 DEF Reinsert
  <2>2. pc[c] = "insert" /\ HistoryTyped' /\
        UNCHANGED <<dbVars, queue, readVars, new, keep, again, hand, handFlow, httpVars>>
    <3>1. relaid' \subseteq Names
      BY <1>0, <1>4 DEF Reinsert, HistoryTyped, PlanTyped
    <3> QED
      BY <1>0, <1>4, <3>1 DEF Reinsert, HistoryTyped
  <2>3. nm \in Names /\ db[c][nm] \in Flow
    BY <1>0, <2>2 DEF PlanTyped, ReadTyped, PrunedIsKnown, Known, Inserting, FlowOrNone
  <2>4. rules' \in [Ofcs -> [Names -> Body \cup {NoFlow}]]
    <3>1. [rules EXCEPT ![c][nm] = BodyOf(db[c][nm])]
            \in [Ofcs -> [Names -> Body \cup {NoFlow}]]
      BY <1>0, <2>3, BodyIsTyped, RuleIsTyped
    <3> QED
      BY <1>2, <2>1, <3>1
  <2>5. CASE UNCHANGED <<pc, ok>> /\ prune' = [prune EXCEPT ![c] = @ \ {nm}]
    BY <1>1, <1>2, <1>3, <2>2, <2>4, <2>5, PruningKeepsTypes
  <2>6. CASE /\ UNCHANGED prune /\ ok' = [ok EXCEPT ![c] = FALSE]
             /\ pc' = [pc EXCEPT ![c] = "report"]
    BY <1>1, <1>2, <1>3, <2>2, <2>4, <2>6, PruningKeepsTypes
  <2> QED
    BY <2>1, <2>5, <2>6
<1>5. CASE DelFlow(c)
  <2>1. PICK nm \in Unmarked(c) \cap atOfc[c] :
          /\ prune' = [prune EXCEPT ![c] = @ \ {nm}]
          /\ again' = [again EXCEPT ![c] = @ \ ({nm} \ prune[c])]
          /\ rules' \in {rules, [rules EXCEPT ![c][nm] = NoFlow]}
          /\ \/ hand' = [hand EXCEPT ![c] = nm] /\ pc' = [pc EXCEPT ![c] = "unrow"]
             \/ UNCHANGED <<pc, hand>>
    BY <1>5 DEF DelFlow, LookAt
  <2>2. pc[c] = "insert" /\ HistoryTyped' /\
        UNCHANGED <<dbVars, queue, readVars, new, keep, handFlow, ok, httpVars>>
    BY <1>0, <1>5 DEF DelFlow, HistoryTyped
  <2>3. nm \in Names
    BY <1>0, UnmarkedIsTyped
  <2>4. rules' \in [Ofcs -> [Names -> Body \cup {NoFlow}]]
    <3>1. [rules EXCEPT ![c][nm] = NoFlow] \in [Ofcs -> [Names -> Body \cup {NoFlow}]]
      BY <1>0, <2>3, RuleIsTyped
    <3> QED
      BY <1>2, <2>1, <3>1
  <2>5. CASE hand' = [hand EXCEPT ![c] = nm] /\ pc' = [pc EXCEPT ![c] = "unrow"]
    BY <1>1, <1>2, <1>3, <2>1, <2>2, <2>3, <2>4, <2>5, PruningKeepsTypes DEF NameOrNone
  <2>6. CASE UNCHANGED <<pc, hand>>
    <3>1. pc' = [pc EXCEPT ![c] = "insert"] /\ hand' = [hand EXCEPT ![c] = hand[c]]
      BY <1>1, <2>2, <2>6
    <3>2. "insert" \in Steps \ {"row"} /\ "insert" # "unrow" /\ pc[c] \in Inserting
      BY <1>3, <2>2
    <3>3. /\ netStatus' = netStatus /\ ofcStatus' = ofcStatus /\ rows' = rows /\ ok' = ok
          /\ UNCHANGED <<netAlive, netUp, portNet, queue, readVars, request, toQueue,
                         missed, new, keep, handFlow>>
      BY <2>2
    <3>4. HistoryTyped' /\ hand[c] \in NameOrNone
      BY <1>1, <2>2
    <3> HIDE DEF dbVars, httpVars, requestSide, Goto, SetRule
    <3> QED
      BY <1>2, <2>1, <2>4, <3>1, <3>2, <3>3, <3>4, PruningKeepsTypes
  <2> QED
    BY <2>1, <2>5, <2>6
<1>6. CASE SkipDelFlow(c)
  <2>1. PICK nm \in Unmarked(c) \ atOfc[c] :
          /\ prune' = [prune EXCEPT ![c] = @ \ {nm}]
          /\ again' = [again EXCEPT ![c] = @ \ ({nm} \ prune[c])]
          /\ hand' = [hand EXCEPT ![c] = nm]
    BY <1>6 DEF SkipDelFlow, LookAt
  <2>2. pc[c] = "insert" /\ HistoryTyped' /\ pc' = [pc EXCEPT ![c] = "unrow"] /\
        UNCHANGED <<dbVars, rules, queue, readVars, new, keep, handFlow, ok, httpVars>>
    BY <1>0, <1>6 DEF SkipDelFlow, HistoryTyped, histVars
  <2>3. nm \in Names
    BY <1>0, UnmarkedIsTyped
  <2> QED
    BY <1>1, <1>2, <1>3, <2>1, <2>2, <2>3, PruningKeepsTypes DEF NameOrNone
<1>7. CASE DeleteRow(c)
  <2>1. /\ rows' \in {rows, [rows EXCEPT ![hand[c]] = NoFlow]}
        /\ pc[c] = "unrow" /\ pc' = [pc EXCEPT ![c] = "insert"]
        /\ hand' = [hand EXCEPT ![c] = NoFlow]
        /\ UNCHANGED <<requestSide, netStatus, ofcStatus, rules, queue, readVars, new,
                       keep, prune, again, handFlow, ok>>
    BY <1>7 DEF DeleteRow
  <2>2. rows' \in [Names -> FlowOrNone] /\ HistoryTyped'
    BY <1>0, <1>2, <1>7, <2>1 DEF DeleteRow, FlowOrNone, HistoryTyped
  <2>3. /\ prune' = [prune EXCEPT ![c] = @ \ {}]
        /\ again' = [again EXCEPT ![c] = @ \ {}] /\ NoFlow \in NameOrNone
    BY <1>1, <2>1 DEF NameOrNone
  <2>4. /\ netStatus' \in [Nets -> {"ACTIVE", "ERROR"}]
        /\ ofcStatus' \in [Ofcs -> {"ACTIVE", "ERROR"}]
        /\ rules' \in [Ofcs -> [Names -> Body \cup {NoFlow}]]
        /\ ok' \in [Ofcs -> BOOLEAN]
        /\ UNCHANGED <<netAlive, netUp, portNet, queue, readVars, request, toQueue,
                       missed, new, keep, handFlow>>
    BY <1>2, <2>1
  <2>5. /\ "insert" \in Steps \ {"row"} /\ "insert" # "unrow"
        /\ pc[c] \in Inserting
        /\ pc' = [pc EXCEPT ![c] = "insert"] /\ hand' = [hand EXCEPT ![c] = NoFlow]
    BY <1>3, <2>1
  <2> HIDE DEF dbVars, httpVars, requestSide, Goto, SetRule
  <2> QED
    BY <2>2, <2>3, <2>4, <2>5, PruningKeepsTypes
<1>8. CASE AllDone(c)
  <2>1. /\ pc' = [pc EXCEPT ![c] = "report"] /\ HistoryTyped'
        /\ UNCHANGED <<dbVars, rules, queue, readVars, planVars, httpVars>>
    BY <1>0, <1>8 DEF AllDone, HistoryTyped, histVars
  <2> QED
    BY <1>1, <1>2, <1>3, <2>1, PruningKeepsTypes DEF planVars
<1> QED
  BY <1>4, <1>5, <1>6, <1>7, <1>8
\* A thread that returns forgets its local variables.
LEMMA ForgetTypes ==
  ASSUME ReadTyped, PlanTyped, NEW cs \in SUBSET Ofcs, Forget(cs),
         pc' \in [Ofcs -> Steps]
  PROVE  ReadTyped' /\ PlanTyped'
<1>1. ReadTyped'
  BY NamesAreTyped DEF Forget, ReadTyped
<1>2. PlanTyped'
  BY DEF Forget, PlanTyped, NameOrNone, FlowOrNone
<1> QED
  BY <1>1, <1>2

LEMMA ReturnTypes ==
  ASSUME TypeInv, NEW c \in Ofcs, Report(c) \/ Raise(c) \/ ClearController(c) \/ ClearRows(c)
  PROVE  TypeInv'
<1> USE DEF httpVars, requestSide, readVars, planVars, Goto
<1>0. /\ TablesTyped /\ HttpTyped /\ ReadTyped /\ PlanTyped /\ HistoryTyped
      /\ HandIsName /\ PrunedIsKnown
  BY DEF TypeInv, TypeOK
<1>1. ASSUME NEW status \in {"ACTIVE", "ERROR"}, SetOfcStatus(c, status)
      PROVE  ofcStatus' \in [Ofcs -> {"ACTIVE", "ERROR"}]
  BY <1>0, <1>1 DEF TablesTyped, SetOfcStatus
<1>2. CASE Report(c) \/ Raise(c)
  <2>1. PICK status \in {"ACTIVE", "ERROR"} :
          /\ SetOfcStatus(c, status) \/ UNCHANGED ofcStatus
          /\ netStatus' \in {netStatus, [netStatus EXCEPT ![cur[c]] = status]}
    BY <1>2 DEF Report, Raise, dbVars
  <2>a. /\ Forget({c}) /\ pc' = [pc EXCEPT ![c] = "idle"]
        /\ UNCHANGED <<requestSide, rows, rules, queue, unrecorded, relaid>>
    BY <1>2 DEF Report, Raise, dbVars
  <2>2. excused' \subseteq Nets
    BY <1>0, <1>2 DEF Report, Raise, BoundTogether, HistoryTyped
  <2>4. ofcStatus' \in [Ofcs -> {"ACTIVE", "ERROR"}]
    BY <1>0, <1>1, <2>1 DEF TablesTyped
  <2>5. netStatus' \in [Nets -> {"ACTIVE", "ERROR"}]
    BY <1>0, <2>1, UpdateIsTyped DEF TablesTyped
  <2>6. TablesTyped' /\ HttpTyped'
    BY <1>0, <2>a, <2>4, <2>5 DEF TablesTyped, HttpTyped
  <2>7. ReadTyped' /\ PlanTyped'
    <3>1. pc' \in [Ofcs -> Steps]
      BY <1>0, <2>a DEF PlanTyped, Steps
    <3> QED
      BY <1>0, <2>a, <3>1, ForgetTypes
  <2>8. HistoryTyped'
    BY <1>0, <2>a, <2>2 DEF HistoryTyped, Forget
  <2>9. HandIsName' /\ PrunedIsKnown'
    <3>1. \A o \in Ofcs : pc'[o] \in {"insert", "row", "unrow"} =>
            /\ o # c /\ pc'[o] = pc[o] /\ hand'[o] = hand[o] /\ handFlow'[o] = handFlow[o]
            /\ prune'[o] = prune[o] /\ db'[o] = db[o]
      BY <1>0, <2>a DEF PlanTyped, Forget
    <3> QED
      BY <1>0, <3>1 DEF HandIsName, PrunedIsKnown, Known, Inserting
  <2> QED
    BY <2>6, <2>7, <2>8, <2>9 DEF TypeInv, TypeOK
<1>3. CASE ClearController(c) \/ ClearRows(c)
  <2>1. /\ pc' \in {[pc EXCEPT ![c] = "clearrows"], [pc EXCEPT ![c] = "idle"]}
        /\ excused' \in {excused, Nets} /\ rows' \in {rows, NoNames}
        /\ UNCHANGED <<requestSide, netStatus, queue, readVars, planVars, unrecorded,
                       relaid, clean>>
    BY <1>3 DEF ClearController, ClearRows
  <2>2. rules' \in [Ofcs -> [Names -> Body \cup {NoFlow}]]
    <3>1. CASE ClearRows(c)
      BY <1>0, <3>1 DEF ClearRows, TablesTyped
    <3>2. CASE ClearController(c)
      <4>1. PICK left : rules' \in {[rules EXCEPT ![c] = NoNames],
                 [rules EXCEPT ![c] = [nm \in Names |-> IF nm \in left THEN @[nm] ELSE NoFlow]]}
        BY <3>2 DEF ClearController
      <4>2. [nm \in Names |-> IF nm \in left THEN rules[c][nm] ELSE NoFlow]
              \in [Names -> Body \cup {NoFlow}]
        BY <1>0 DEF TablesTyped
      <4> QED
        BY <1>0, <4>1, <4>2, NamesAreTyped, UpdateIsTyped DEF TablesTyped
    <3> QED
      BY <1>3, <3>1, <3>2
  <2>3. ofcStatus' \in [Ofcs -> {"ACTIVE", "ERROR"}]
    BY <1>0, <1>1, <1>3 DEF ClearController, ClearRows, TablesTyped
  <2>4. TablesTyped' /\ HttpTyped' /\ HistoryTyped'
    BY <1>0, <2>1, <2>2, <2>3, NamesAreTyped DEF TablesTyped, HttpTyped, HistoryTyped
  <2>5. ReadTyped' /\ PlanTyped'
    BY <1>0, <2>1 DEF ReadTyped, PlanTyped, Steps
  <2>6. HandIsName' /\ PrunedIsKnown'
    BY <1>0, <2>1 DEF HandIsName, PrunedIsKnown, Known, Inserting, PlanTyped
  <2> QED
    BY <2>4, <2>5, <2>6 DEF TypeInv, TypeOK
<1> QED
  BY <1>2, <1>3

LEMMA RestartTypes ==
  ASSUME TypeInv, Restart
  PROVE  TypeInv'
<1>0. /\ TablesTyped /\ HttpTyped /\ ReadTyped /\ PlanTyped /\ HistoryTyped
      /\ HandIsName /\ PrunedIsKnown
  BY DEF TypeInv, TypeOK
<1>1. pc' \in [Ofcs -> Steps] /\ \A c \in Ofcs : pc'[c] = "idle"
  BY DEF Restart, Steps
<1>2. ReadTyped' /\ PlanTyped'
  BY <1>0, <1>1, ForgetTypes DEF Restart
<1>3. TablesTyped' /\ HttpTyped'
  BY <1>0 DEF Restart, TablesTyped, HttpTyped, RowRead
<1>4. unrecorded' \subseteq Names
  BY <1>0 DEF Restart, HandIsName, HistoryTyped
<1>5. HistoryTyped'
  BY <1>0, <1>4 DEF Restart, Forget, HistoryTyped
<1>6. HandIsName' /\ PrunedIsKnown'
  BY <1>1 DEF HandIsName, PrunedIsKnown, Inserting
<1> QED
  BY <1>2, <1>3, <1>5, <1>6 DEF TypeInv, TypeOK

\* Every step keeps the types, and what the types rest on.
LEMMA NextTypeInv == TypeInv /\ [Next]_vars => TypeInv'
<1> SUFFICES ASSUME TypeInv, [Next]_vars PROVE TypeInv'
  OBVIOUS
<1>1. ASSUME NEW h \in HttpThreads, Request(h) \/ Proceed(h) PROVE TypeInv'
  BY <1>1, RequestTypes, ProceedTypes
<1>2. ASSUME NEW c \in Ofcs, Thread(c) PROVE TypeInv'
  BY <1>2, ReadTypes, PlanTypes, InsertTypes, PruneTypes, ReturnTypes
     DEF Thread, ReadStep, WriteStep
<1>3. CASE Restart
  BY <1>3, RestartTypes
<1>4. CASE UNCHANGED vars
  BY <1>4 DEF vars, dbVars, readVars, planVars, httpVars, histVars, TypeInv, TypeOK,
     TablesTyped, HttpTyped, ReadTyped, PlanTyped, HistoryTyped, HandIsName,
     PrunedIsKnown, Known
<1> QED
  BY <1>1, <1>2, <1>3, <1>4 DEF Next

\* The tables, the requests in progress and the local variables of the threads
\* keep their types, whatever the networks, ports, flows, controllers and bounds.
THEOREM TypeCorrect == Spec => []TypeOK
<1>1. TypeInv => TypeOK
  BY DEF TypeInv
<1> QED
  BY <1>1, InitTypeInv, NextTypeInv, PTL DEF Spec
-----------------------------------------------------------------------------
(* With one thread: rules without a row are those whose insertion failed    *)

\* The parts of IInv beside the types.
Safe ==
  /\ NoOrphanRule /\ RuleGoesFirst /\ PrunedHasRow /\ HandIsNotPruned
  /\ UnseenHasNoRule /\ SecondEntriesAreSound /\ ClearedHasNoRule /\ ReadRowsExist

LEMMA IInvParts == IInv <=> TypeInv /\ Safe
BY DEF IInv, Safe

LEMMA InitSafe == Init => Safe
BY InitRowsAreSound
   DEF Init, Safe, NoOrphanRule, RuleGoesFirst, PrunedHasRow, HandIsNotPruned, UnseenHasNoRule,
       SecondEntriesAreSound, ClearedHasNoRule, ReadRowsExist, Inserting

\* A step that leaves the threads and the controllers alone, and every row in
\* its place.
LEMMA RowsKept ==
  ASSUME TypeInv, Safe, UNCHANGED <<rules, pc, readVars, planVars, histVars>>,
         \A nm \in Names : rows'[nm] = NoFlow <=> rows[nm] = NoFlow
  PROVE  Safe'
<1> USE DEF Safe, TypeInv, TypeOK, PlanTyped, readVars, planVars, histVars
<1>1. NoOrphanRule'
  BY DEF NoOrphanRule
<1>2. RuleGoesFirst' /\ HandIsNotPruned' /\ ClearedHasNoRule'
  BY DEF RuleGoesFirst, HandIsNotPruned, ClearedHasNoRule
<1>3. PrunedHasRow' /\ UnseenHasNoRule'
  BY DEF PrunedHasRow, UnseenHasNoRule
<1>4. ReadRowsExist'
  BY DEF ReadRowsExist
<1>5. SecondEntriesAreSound'
  BY DEF SecondEntriesAreSound, Known
<1> QED
  BY <1>1, <1>2, <1>3, <1>4, <1>5

LEMMA HttpSafe ==
  ASSUME TypeInv, Safe, NEW h \in HttpThreads, Request(h) \/ Proceed(h)
  PROVE  Safe'
<1> USE DEF ofcSide, threadSide
<1>1. ASSUME NEW n \in Nets, DeleteNet(h, n) PROVE Safe'
  <2>1. \A nm \in RowsOf(n) : [rows[nm] EXCEPT !.net = NoNet] \in Flow
    BY OrphanFlow DEF RowsOf, FlowOrNone, TypeInv, TypeOK, TablesTyped
  <2>2. \A nm \in Names : rows'[nm] = NoFlow <=> rows[nm] = NoFlow
    BY <1>1, <2>1, SentinelsAreDistinct DEF DeleteNet, RowsOf
  <2> QED
    BY <1>1, <2>2, RowsKept DEF DeleteNet
<1>2. CASE UNCHANGED <<rules, pc, readVars, planVars, histVars, rows>>
  BY <1>2, RowsKept
<1> QED
  BY <1>1, <1>2 DEF Request, Proceed, CheckNewPort, NewPort, ReadPortToEdit, ReadPortToDelete,
     ReadNetToEdit, ReinstallNet, ClearRules, EditPort, DeletePort, EditNet, InsertTask

\* Reading the tables, and giving up, touches neither store.
LEMMA ReadSafe ==
  ASSUME Ofcs = {Default}, TypeInv, Safe, NEW c \in Ofcs,
         \/ TakeTask(c) \/ ReadNets(c) \/ ReadPorts(c) \/ ReadFlows(c)
         \/ ReadNullFlows(c) \/ ReadFails(c) \/ Refuse(c)
  PROVE  Safe'
<1> USE DEF dbVars, httpVars, readVars, planVars, histVars, Goto
<1>0. pc \in [Ofcs -> Steps] /\ db \in [Ofcs -> [Names -> FlowOrNone]]
  BY DEF TypeInv, TypeOK, PlanTyped, ReadTyped
<1>1. /\ UNCHANGED <<rules, rows, unrecorded, relaid>>
      /\ pc[c] \in {"idle", "nets", "ports", "flows", "rules"}
      /\ pc'[c] \in {"clear", "nets", "ports", "flows", "rules", "report"}
  BY <1>0 DEF TakeTask, ReadNets, ReadPorts, ReadFlows, ReadNullFlows, ReadFails, Refuse,
     GiveUp
<1>2. NoOrphanRule'
  BY <1>1 DEF Safe, NoOrphanRule
<1>3. /\ RuleGoesFirst' /\ HandIsNotPruned' /\ ClearedHasNoRule' /\ PrunedHasRow'
      /\ UnseenHasNoRule'
  BY <1>1 DEF RuleGoesFirst, HandIsNotPruned, ClearedHasNoRule, PrunedHasRow,
     UnseenHasNoRule, Inserting
<1>4. ASSUME NEW ns, Select(c, ns), pc[c] \in {"ports", "flows", "rules"},
             NEW nm \in Names, db'[c][nm] # NoFlow
      PROVE  rows[nm] # NoFlow
  BY <1>0, <1>4 DEF Select, Safe, ReadRowsExist
<1>5. ReadRowsExist'
  <2>1. CASE ReadFlows(c) \/ ReadNullFlows(c)
    BY <1>1, <1>4, <2>1 DEF ReadFlows, ReadNullFlows, ReadRowsExist
  <2>2. CASE TakeTask(c) \/ ReadFails(c) \/ Refuse(c)
    <3>1. pc'[c] \in {"clear", "nets", "report"}
      BY <1>0, <2>2 DEF TakeTask, ReadFails, Refuse, GiveUp
    <3> QED
      BY <3>1 DEF ReadRowsExist
  <2>3. CASE ReadNets(c)
    BY <1>0, <1>1, <2>3 DEF ReadNets, ReadRowsExist, NoNames
  <2>4. CASE ReadPorts(c)
    BY <1>0, <1>1, <2>4 DEF ReadPorts, ReadRowsExist, Safe
  <2> QED
    BY <2>1, <2>2, <2>3, <2>4
<1>6. SecondEntriesAreSound'
  <2>1. CASE TakeTask(c) \/ ReadFails(c) \/ Refuse(c)
    <3>1. pc'[c] \in {"clear", "nets", "report"}
      BY <1>0, <2>1 DEF TakeTask, ReadFails, Refuse, GiveUp
    <3> QED
      BY <3>1 DEF SecondEntriesAreSound, Inserting
  <2>2. CASE ReadNets(c)
    <3>1. pc'[c] = "ports" /\ db'[c] = NoNames
      BY <1>0, <2>2 DEF ReadNets
    <3> QED
      BY <3>1 DEF SecondEntriesAreSound, Known, NoNames, Inserting
  <2>3. CASE ReadPorts(c)
    <3>1. pc[c] = "ports" /\ pc'[c] = "flows" /\ reading'[c] \in Nets /\ db' = db
      BY <1>0, <2>3 DEF ReadPorts, TypeInv, TypeOK, ReadTyped
    <3> QED
      BY <3>1 DEF Safe, SecondEntriesAreSound, Known, Inserting
  <2>4. CASE ReadFlows(c)
    <3>1. pc[c] = "flows" /\ pc'[c] = "ports" /\ Select(c, RowsOf(reading[c]))
      BY <1>0, <2>4 DEF ReadFlows
    <3>2. reading[c] \in Nets /\ \A nm \in Known(c) : db[c][nm].net # NoNet
      BY <3>1 DEF Safe, SecondEntriesAreSound
    <3>3. \A nm \in Names : db'[c][nm] # NoFlow => db'[c][nm].net # NoNet
      BY <1>0, <3>1, <3>2, SentinelsAreDistinct DEF Select, RowsOf, Known
    <3> QED
      BY <3>1, <3>3 DEF SecondEntriesAreSound, Known, Inserting
  <2>5. CASE ReadNullFlows(c)
    <3>1. /\ pc[c] = "ports" /\ pc'[c] = "rules" /\ Select(c, RowsOf(NoNet))
          /\ again'[c] = {nm \in RowsOf(NoNet) : db[c][nm] # NoFlow}
      BY <1>0, <2>5 DEF ReadNullFlows, TypeInv, TypeOK, PlanTyped
    <3>2. \A nm \in Names : db[c][nm] # NoFlow => db'[c][nm] = db[c][nm]
      BY <1>0, <3>1 DEF Select
    <3>3. \A nm \in Known(c) : db[c][nm].net # NoNet
      BY <3>1 DEF Safe, SecondEntriesAreSound
    <3> QED
      BY <3>1, <3>2, <3>3 DEF SecondEntriesAreSound, Known, RowsOf, Inserting
  <2> QED
    BY <2>1, <2>2, <2>3, <2>4, <2>5
<1> QED
  BY <1>2, <1>3, <1>5, <1>6 DEF Safe
\* Every name that will be looked at is of a row, and without a rule unless the
\* controller was seen to have one or it is kept.
LEMMA PlanSafe ==
  ASSUME Ofcs = {Default}, TypeInv, Safe, NEW c \in Ofcs, ReadRules(c)
  PROVE  Safe'
<1> USE DEF dbVars, httpVars, histVars, Goto
<1> DEFINE found == {nm \in Names : rules[c][nm] # NoFlow}
<1>0. /\ pc \in [Ofcs -> Steps] /\ keep \in [Ofcs -> SUBSET Names]
      /\ prune \in [Ofcs -> SUBSET Names] /\ atOfc \in [Ofcs -> SUBSET Names]
  BY DEF TypeInv, TypeOK, PlanTyped, ReadTyped
<1>1. /\ UNCHANGED <<rules, rows, unrecorded, relaid, hand, db, again>>
      /\ pc[c] = "rules" /\ pc'[c] = "insert"
      /\ atOfc'[c] = found /\ prune'[c] \subseteq Known(c)
  BY <1>0 DEF ReadRules
<1>2. \A nm \in Known(c) : rows[nm] # NoFlow
  BY <1>1 DEF Safe, ReadRowsExist, Known
<1>3. PrunedHasRow'
  BY <1>1, <1>2 DEF PrunedHasRow
<1>4. UnseenHasNoRule'
  BY <1>1 DEF UnseenHasNoRule, Known
<1>5. NoOrphanRule'
  BY <1>1 DEF Safe, NoOrphanRule
<1>6. RuleGoesFirst' /\ HandIsNotPruned' /\ ClearedHasNoRule' /\ ReadRowsExist'
  BY <1>1 DEF RuleGoesFirst, HandIsNotPruned, ClearedHasNoRule, ReadRowsExist
<1>7. SecondEntriesAreSound'
  <2>1. \A nm \in again[c] : nm \in Known(c) /\ db[c][nm].net # NoNet
    BY <1>1 DEF Safe, SecondEntriesAreSound
  <2>2. \A nm \in Names \ found : rules[c][nm] = NoFlow
    OBVIOUS
  <2> QED
    BY <1>1, <2>1, <2>2 DEF SecondEntriesAreSound, Known
<1> QED
  BY <1>3, <1>4, <1>5, <1>6, <1>7 DEF Safe

\* A new rule has a name that no row read has; it is in hand until it has a row.
LEMMA NewFlowSafe ==
  ASSUME Ofcs = {Default}, TypeInv, Safe, NEW c \in Ofcs, NewFlow(c)
  PROVE  Safe'
<1> USE DEF dbVars, httpVars, readVars, Goto, SetRule
<1>0. /\ pc \in [Ofcs -> Steps] /\ hand \in [Ofcs -> NameOrNone]
      /\ rules \in [Ofcs -> [Names -> Body \cup {NoFlow}]]
      /\ PrunedIsKnown
  BY DEF TypeInv, TypeOK, PlanTyped, TablesTyped
<1>1. PICK f \in new[c], i \in NameIdx :
        /\ FreshName(c, f.net, i)
        /\ \/ /\ rules' = [rules EXCEPT ![c][<<f.net, i>>] = BodyOf(f)]
              /\ hand' = [hand EXCEPT ![c] = <<f.net, i>>]
              /\ pc' = [pc EXCEPT ![c] = "row"]
              /\ UNCHANGED unrecorded
           \/ /\ \/ /\ rules' = [rules EXCEPT ![c][<<f.net, i>>] = BodyOf(f)]
                    /\ unrecorded' = unrecorded \cup {<<f.net, i>>}
                 \/ UNCHANGED <<rules, unrecorded>>
              /\ pc' = [pc EXCEPT ![c] = "report"]
              /\ UNCHANGED hand
  BY DEF NewFlow
<1>2. PICK x : x = <<f.net, i>>
  OBVIOUS
<1>3. x \notin prune[c]
  BY <1>0, <1>1, <1>2 DEF FreshName, PrunedIsKnown, Inserting, NewFlow
<1>4. /\ UNCHANGED <<rows, prune, again, keep, atOfc, db, relaid>>
      /\ pc[c] = "insert" /\ pc'[c] \in {"row", "report"}
      /\ pc'[c] = "row" => hand'[c] = x
      /\ pc'[c] = "report" => \/ UNCHANGED <<rules, unrecorded>>
                              \/ x \in unrecorded'
      /\ unrecorded \subseteq unrecorded'
      /\ \A nm \in Names : nm # x => rules'[c][nm] = rules[c][nm]
  <2>1. UNCHANGED <<rows, prune, again, keep, atOfc, db, relaid>> /\ pc[c] = "insert"
    BY DEF NewFlow
  <2>2. pc'[c] \in {"row", "report"} /\ (pc'[c] = "row" => hand'[c] = x)
    BY <1>0, <1>1, <1>2
  <2>3. /\ pc'[c] = "report" => UNCHANGED <<rules, unrecorded>> \/ x \in unrecorded'
        /\ unrecorded \subseteq unrecorded'
    BY <1>0, <1>1, <1>2
  <2>4. rules' \in {rules, [rules EXCEPT ![c][x] = BodyOf(f)]}
    BY <1>1, <1>2
  <2>5. \A nm \in Names : nm # x => rules'[c][nm] = rules[c][nm]
    BY <1>0, <2>4
  <2> QED
    BY <2>1, <2>2, <2>3, <2>5
<1>5. NoOrphanRule'
  BY <1>4 DEF Safe, NoOrphanRule
<1>6. PrunedHasRow' /\ RuleGoesFirst' /\ HandIsNotPruned' /\ ClearedHasNoRule'
      /\ ReadRowsExist'
  BY <1>4 DEF Safe, PrunedHasRow, RuleGoesFirst, HandIsNotPruned, ClearedHasNoRule,
     ReadRowsExist, Inserting
<1>7. UnseenHasNoRule'
  BY <1>0, <1>3, <1>4 DEF Safe, UnseenHasNoRule, Inserting, PrunedIsKnown, Known
<1>8. SecondEntriesAreSound'
  <2>1. x \notin Known(c)
    BY <1>1, <1>2 DEF FreshName
  <2>2. /\ \A nm \in again[c] : nm \in Known(c) /\ db[c][nm].net # NoNet
        /\ \A nm \in again[c] \ atOfc[c] : rules[c][nm] = NoFlow \/ nm \in relaid
    BY <1>4 DEF Safe, SecondEntriesAreSound, Inserting
  <2> QED
    BY <1>4, <2>1, <2>2 DEF SecondEntriesAreSound, Known, Inserting
<1> QED
  BY <1>5, <1>6, <1>7, <1>8 DEF Safe

LEMMA NewRowSafe ==
  ASSUME Ofcs = {Default}, TypeInv, Safe, NEW c \in Ofcs, NewRow(c)
  PROVE  Safe'
<1> USE DEF requestSide, httpVars, readVars, Goto
<1>0. /\ pc \in [Ofcs -> Steps] /\ rows \in [Names -> FlowOrNone]
      /\ hand[c] \in Names /\ handFlow[c] # NoFlow
  BY SentinelsAreDistinct
     DEF TypeInv, TypeOK, PlanTyped, TablesTyped, HandIsName, NewRow
<1>1. /\ UNCHANGED <<rules, prune, again, keep, atOfc, db, relaid>>
      /\ pc[c] = "row" /\ pc'[c] \in {"insert", "report"}
      /\ unrecorded \subseteq unrecorded'
      /\ \/ rows' = [rows EXCEPT ![hand[c]] = handFlow[c]]
         \/ UNCHANGED rows /\ hand[c] \in unrecorded'
  BY <1>0 DEF NewRow
<1>2. \A nm \in Names : rows[nm] # NoFlow => rows'[nm] # NoFlow
  BY <1>0, <1>1
<1>3. rows'[hand[c]] # NoFlow \/ hand[c] \in unrecorded'
  BY <1>0, <1>1
<1>4. NoOrphanRule'
  BY <1>1, <1>2, <1>3 DEF Safe, NoOrphanRule
<1>5. PrunedHasRow' /\ UnseenHasNoRule'
  BY <1>0, <1>1, <1>2
     DEF Safe, PrunedHasRow, UnseenHasNoRule, Inserting, TypeInv, TypeOK, PlanTyped
<1>6. RuleGoesFirst' /\ HandIsNotPruned' /\ ClearedHasNoRule' /\ ReadRowsExist'
  BY <1>1 DEF RuleGoesFirst, HandIsNotPruned, ClearedHasNoRule, ReadRowsExist
<1>7. SecondEntriesAreSound'
  BY <1>1 DEF Safe, SecondEntriesAreSound, Known, Inserting
<1> QED
  BY <1>4, <1>5, <1>6, <1>7 DEF Safe
\* A rule is reinserted under the name of its row; it is deleted before its row.
LEMMA PruneSafe ==
  ASSUME Ofcs = {Default}, TypeInv, Safe, NEW c \in Ofcs,
         \/ Reinsert(c) \/ DelFlow(c) \/ SkipDelFlow(c) \/ DeleteRow(c) \/ AllDone(c)
  PROVE  Safe'
<1> USE DEF dbVars, requestSide, httpVars, readVars, Goto, SetRule
<1>0. /\ pc \in [Ofcs -> Steps] /\ rows \in [Names -> FlowOrNone]
      /\ rules \in [Ofcs -> [Names -> Body \cup {NoFlow}]]
      /\ prune \in [Ofcs -> SUBSET Names] /\ again \in [Ofcs -> SUBSET Names]
      /\ hand \in [Ofcs -> NameOrNone]
  BY DEF TypeInv, TypeOK, PlanTyped, TablesTyped
<1>1. CASE Reinsert(c)
  <2>1. PICK nm \in prune[c] \cap keep[c] :
          /\ \/ UNCHANGED rules
             \/ rules' = [rules EXCEPT ![c][nm] = BodyOf(db[c][nm])]
          /\ \/ relaid' = relaid \cup ({nm} \cap again[c])
             \/ UNCHANGED relaid /\ pc'[c] = "report"
    BY <1>0, <1>1 DEF Reinsert
  <2>2. /\ UNCHANGED <<rows, hand, keep, again, atOfc, db, unrecorded>>
        /\ pc[c] = "insert" /\ pc'[c] \in {"insert", "report"}
        /\ prune'[c] \subseteq prune[c]
    BY <1>0, <1>1 DEF Reinsert
  <2>3. /\ nm \in Names /\ rows[nm] # NoFlow
        /\ \A n \in Names : n # nm => rules'[c][n] = rules[c][n]
    BY <1>0, <2>1, <2>2 DEF Safe, PrunedHasRow, Inserting
  <2>4. NoOrphanRule'
    <3>1. relaid \subseteq relaid'
      BY <2>1
    <3> QED
      BY <2>2, <2>3, <3>1 DEF Safe, NoOrphanRule
  <2>5. PrunedHasRow' /\ UnseenHasNoRule'
    BY <1>0, <2>1, <2>2, <2>3 DEF Safe, PrunedHasRow, UnseenHasNoRule, Inserting
  <2>6. RuleGoesFirst' /\ HandIsNotPruned' /\ ClearedHasNoRule' /\ ReadRowsExist'
    BY <2>2 DEF RuleGoesFirst, HandIsNotPruned, ClearedHasNoRule, ReadRowsExist
  <2>7. SecondEntriesAreSound'
    <3>1. /\ \A n \in again[c] : n \in Known(c) /\ db[c][n].net # NoNet
          /\ \A n \in again[c] \ atOfc[c] : rules[c][n] = NoFlow \/ n \in relaid
      BY <2>2 DEF Safe, SecondEntriesAreSound, Inserting
    <3>2. pc'[c] = "insert" => relaid' = relaid \cup ({nm} \cap again[c])
      BY <2>1
    <3>3. pc'[c] = "insert" => \A n \in again[c] \ atOfc[c] : rules'[c][n] = NoFlow \/ n \in relaid'
      BY <2>3, <3>1, <3>2, <1>0
    <3> QED
      BY <2>2, <3>1, <3>3 DEF SecondEntriesAreSound, Known, Inserting
  <2> QED
    BY <2>4, <2>5, <2>6, <2>7 DEF Safe
<1>2. CASE DelFlow(c) \/ SkipDelFlow(c)
  <2>1. PICK nm \in Unmarked(c) :
          /\ prune' = [prune EXCEPT ![c] = @ \ {nm}]
          /\ again' = [again EXCEPT ![c] = @ \ ({nm} \ prune[c])]
          /\ \/ UNCHANGED rules
             \/ rules' = [rules EXCEPT ![c][nm] = NoFlow]
          /\ \/ /\ hand' = [hand EXCEPT ![c] = nm]
                /\ pc' = [pc EXCEPT ![c] = "unrow"]
                /\ nm \in atOfc[c] => rules' = [rules EXCEPT ![c][nm] = NoFlow]
             \/ UNCHANGED <<pc, hand>>
    BY <1>2 DEF DelFlow, SkipDelFlow, LookAt
  <2>2. /\ UNCHANGED <<rows, keep, atOfc, db, unrecorded, relaid>>
        /\ pc[c] = "insert" /\ nm \in Names
    BY <1>0, <1>2, UnmarkedIsTyped DEF DelFlow, SkipDelFlow, histVars, TypeInv, TypeOK
  <2>a. /\ \A n \in again[c] : n \in Known(c) /\ db[c][n].net # NoNet
        /\ \A n \in again[c] \ atOfc[c] : rules[c][n] = NoFlow \/ n \in relaid
        /\ \A n \in prune[c] \ (keep[c] \cup atOfc[c]) : rules[c][n] = NoFlow
    BY <2>2 DEF Safe, SecondEntriesAreSound, UnseenHasNoRule, Inserting
  <2>b. nm \in prune[c] \ keep[c] \/ (nm \in again[c] /\ nm \notin prune[c])
    BY <2>a DEF Unmarked, SecondEntries
  <2>3. \A n \in Names : rules'[c][n] # NoFlow => rules'[c][n] = rules[c][n]
    BY <1>0, <2>1, <2>2
  <2>4. pc'[c] = "unrow" => hand'[c] = nm /\ (rules'[c][nm] = NoFlow \/ nm \in relaid)
    BY <1>0, <2>1, <2>2, <2>a, <2>b, <2>3
  <2>5. /\ prune'[c] = prune[c] \ {nm} /\ pc'[c] \in {"insert", "unrow"}
        /\ again'[c] \subseteq again[c]
    BY <1>0, <2>1, <2>2
  <2>6. NoOrphanRule'
    BY <2>2, <2>3, <2>5 DEF Safe, NoOrphanRule
  <2>7. PrunedHasRow' /\ UnseenHasNoRule'
    BY <1>0, <2>2, <2>3, <2>5 DEF Safe, PrunedHasRow, UnseenHasNoRule, Inserting
  <2>8. RuleGoesFirst' /\ HandIsNotPruned'
    BY <2>2, <2>4, <2>5 DEF RuleGoesFirst, HandIsNotPruned
  <2>9. ClearedHasNoRule' /\ ReadRowsExist'
    BY <2>5 DEF ClearedHasNoRule, ReadRowsExist
  <2>10. SecondEntriesAreSound'
    BY <2>2, <2>3, <2>5, <2>a DEF SecondEntriesAreSound, Known, Inserting
  <2> QED
    BY <2>6, <2>7, <2>8, <2>9, <2>10 DEF Safe
<1>3. CASE DeleteRow(c)
  <2>1. /\ UNCHANGED <<rules, prune, again, keep, atOfc, db, unrecorded, relaid>>
        /\ pc[c] = "unrow" /\ pc'[c] = "insert"
        /\ rows' = [rows EXCEPT ![hand[c]] = NoFlow] \/ UNCHANGED rows
    BY <1>0, <1>3 DEF DeleteRow
  <2>2. /\ hand[c] \in Names /\ hand[c] \notin prune[c]
        /\ rules[c][hand[c]] = NoFlow \/ hand[c] \in relaid
    BY <2>1 DEF TypeInv, HandIsName, Safe, RuleGoesFirst, HandIsNotPruned
  <2>3. \A nm \in Names : nm # hand[c] => rows'[nm] = rows[nm]
    BY <1>0, <2>1
  <2>4. NoOrphanRule'
    BY <2>1, <2>2, <2>3 DEF Safe, NoOrphanRule
  <2>5. PrunedHasRow' /\ UnseenHasNoRule'
    BY <1>0, <2>1, <2>2, <2>3 DEF Safe, PrunedHasRow, UnseenHasNoRule, Inserting
  <2>6. RuleGoesFirst' /\ HandIsNotPruned' /\ ClearedHasNoRule' /\ ReadRowsExist'
    BY <2>1 DEF RuleGoesFirst, HandIsNotPruned, ClearedHasNoRule, ReadRowsExist
  <2>7. SecondEntriesAreSound'
    BY <2>1 DEF Safe, SecondEntriesAreSound, Known, Inserting
  <2> QED
    BY <2>4, <2>5, <2>6, <2>7 DEF Safe
<1>4. CASE AllDone(c)
  <2>1. UNCHANGED <<rules, rows, unrecorded, relaid>> /\ pc[c] = "insert" /\ pc'[c] = "report"
    BY <1>0, <1>4 DEF AllDone, histVars
  <2> QED
    BY <2>1 DEF Safe, NoOrphanRule, RuleGoesFirst, HandIsNotPruned, ClearedHasNoRule,
       ReadRowsExist, PrunedHasRow, UnseenHasNoRule, SecondEntriesAreSound, Inserting
<1> QED
  BY <1>1, <1>2, <1>3, <1>4

LEMMA ReturnSafe ==
  ASSUME Ofcs = {Default}, TypeInv, Safe, NEW c \in Ofcs,
         Report(c) \/ Raise(c) \/ ClearController(c) \/ ClearRows(c)
  PROVE  Safe'
<1> USE DEF requestSide, httpVars, readVars, planVars, Goto
<1>0. /\ pc \in [Ofcs -> Steps] /\ rules \in [Ofcs -> [Names -> Body \cup {NoFlow}]]
  BY DEF TypeInv, TypeOK, PlanTyped, TablesTyped
<1>1. /\ pc[c] \in {"report", "rules", "clear", "clearrows"}
      /\ pc'[c] \in {"idle", "clearrows"}
      /\ pc'[c] = "clearrows" => rules'[c] = NoNames
      /\ UNCHANGED <<unrecorded, relaid>>
  BY <1>0 DEF Report, Raise, ClearController, ClearRows
<1>2. NoOrphanRule'
  <2>1. CASE Report(c) \/ Raise(c)
    BY <1>1, <2>1 DEF Report, Raise, dbVars, Safe, NoOrphanRule
  <2>2. CASE ClearController(c)
    <3>1. UNCHANGED rows /\ \A nm \in Names : rules'[c][nm] # NoFlow => rules[c][nm] # NoFlow
      BY <1>0, <2>2 DEF ClearController, NoNames
    <3> QED
      BY <1>1, <3>1 DEF Safe, NoOrphanRule
  <2>3. CASE ClearRows(c)
    BY <1>0, <1>1, <2>3 DEF ClearRows, Safe, ClearedHasNoRule, NoOrphanRule, NoNames
  <2> QED
    BY <2>1, <2>2, <2>3
<1>3. /\ RuleGoesFirst' /\ HandIsNotPruned' /\ ClearedHasNoRule' /\ ReadRowsExist'
      /\ PrunedHasRow' /\ UnseenHasNoRule' /\ SecondEntriesAreSound'
  BY <1>1 DEF RuleGoesFirst, HandIsNotPruned, ClearedHasNoRule, ReadRowsExist,
     PrunedHasRow, UnseenHasNoRule, SecondEntriesAreSound, Inserting
<1> QED
  BY <1>2, <1>3 DEF Safe

LEMMA RestartSafe ==
  ASSUME Safe, Restart
  PROVE  Safe'
<1>1. \A c \in Ofcs : pc'[c] = "idle"
  BY DEF Restart
<1>2. /\ UNCHANGED <<rules, rows, relaid>>
      /\ unrecorded' = unrecorded \cup {hand[c] : c \in {o \in Ofcs : pc[o] = "row"}}
  BY DEF Restart
<1>3. NoOrphanRule'
  BY <1>2 DEF Safe, NoOrphanRule
<1> QED
  BY <1>1, <1>3 DEF Safe, RuleGoesFirst, HandIsNotPruned, ClearedHasNoRule,
     ReadRowsExist, PrunedHasRow, UnseenHasNoRule, SecondEntriesAreSound, Inserting

LEMMA NextIInv == Ofcs = {Default} /\ IInv /\ [Next]_vars => IInv'
<1> SUFFICES ASSUME Ofcs = {Default}, TypeInv, Safe, [Next]_vars PROVE Safe'
  BY IInvParts, NextTypeInv DEF IInv, Safe
<1>1. ASSUME NEW h \in HttpThreads, Request(h) \/ Proceed(h) PROVE Safe'
  BY <1>1, HttpSafe
<1>2. ASSUME NEW c \in Ofcs, Thread(c) PROVE Safe'
  BY <1>2, ReadSafe, PlanSafe, NewFlowSafe, NewRowSafe, PruneSafe, ReturnSafe
     DEF Thread, ReadStep, WriteStep
<1>3. CASE Restart
  BY <1>3, RestartSafe
<1>4. CASE UNCHANGED vars
  BY <1>4, RowsKept DEF vars, dbVars
<1> QED
  BY <1>1, <1>2, <1>3, <1>4 DEF Next

\* In a process with one thread the inductive invariant holds.
THEOREM InductiveInvariant == ASSUME Ofcs = {Default} PROVE Spec => []IInv
<1>1. Init => IInv
  BY InitTypeInv, InitSafe, IInvParts
<1>2. IInv /\ [Next]_vars => IInv'
  BY NextIInv
<1> QED
  BY <1>1, <1>2, PTL DEF Spec

\* In a process with one thread the only rules that no row names are those whose
\* insertion failed or was cut by a restart, the one being inserted, and those
\* inserted again under a row that was read twice: no order of requests, updates,
\* failures and restarts makes another.
THEOREM OrphansAreUnrecorded == ASSUME Ofcs = {Default} PROVE Spec => []NoOrphanRule
<1>1. IInv => NoOrphanRule
  BY DEF IInv
<1> QED
  BY <1>1, InductiveInvariant, PTL

-----------------------------------------------------------------------------
(* No change of the tables is lost *)

\* With one level of bindings, being bound together is an equivalence.
LEMMA BindsAreGroups ==
  ASSUME OneLevel, NEW n \in Nets
  PROVE  /\ n \in BoundTogether(n)
         /\ BoundTogether(n) \subseteq Nets
         /\ \A m \in BoundTogether(n) : BoundTogether(m) = BoundTogether(n)
<1>1. /\ NoNet \notin Nets /\ \A m \in Nets : Bind[m] \in Nets \cup {NoNet}
  BY SentinelsAreDistinct, TopologyIsTyped
<1>2. ASSUME NEW m \in BoundTogether(n) PROVE BindId(m) = BindId(n)
  BY <1>1, <1>2 DEF BoundTogether, BindId, OneLevel
<1>3. n \in BoundTogether(n)
  BY <1>1 DEF BoundTogether, BindId
<1> QED BY <1>2, <1>3 DEF BoundTogether

\* The update that goes on: what its own steps leave as it is.
LEMMA SeenIsKept ==
  ASSUME UNCHANGED <<netAlive, netUp, portNet>>, NEW n
  PROVE  Attached(n)' = Attached(n) /\ SeenNow(n)' = SeenNow(n) /\ Wanted(n)' = Wanted(n)
BY DEF Attached, SeenNow, Wanted, Sight

\* Where nothing was done and nothing became calm, all is settled as before.
LEMMA StaysSettled ==
  ASSUME Settled, NEW S, S = Affected', excused \subseteq excused', UNCHANGED netStatus,
         \A n \in Nets \ (S \cup excused' \cup missed') :
           /\ n \notin Affected \cup missed
           /\ Calm(n)' => Calm(n) /\ Wanted(n)' = Wanted(n)
           /\ Bare(n)' => Bare(n)
           /\ \A nm \in Names : nm[1] = n =>
                /\ Calm(n)' => rows'[nm] = rows[nm] /\ rules'[Default][nm] = rules[Default][nm]
                /\ rows[nm] = NoFlow => rows'[nm] = NoFlow
  PROVE  Settled'
<1> SUFFICES ASSUME NEW n \in Nets \ (S \cup excused' \cup missed'), netStatus[n] # "ERROR"
             PROVE  /\ Calm(n)' => HasItsFlows(n)'
                    /\ Bare(n)' => \A nm \in Names : nm[1] = n => rows'[nm] = NoFlow
  BY DEF Settled
<1>1. n \in Nets \ (Affected \cup excused \cup missed)
  OBVIOUS
<1>2. ASSUME Bare(n)' PROVE \A nm \in Names : nm[1] = n => rows'[nm] = NoFlow
  BY <1>1, <1>2 DEF Settled
<1>3. ASSUME Calm(n)' PROVE HasItsFlows(n)'
  <2>1. HasItsFlows(n) /\ Wanted(n)' = Wanted(n)
    BY <1>1, <1>3 DEF Settled
  <2> QED BY <1>3, <2>1 DEF HasItsFlows
<1> QED BY <1>2, <1>3

\* A step of a request that leaves the networks and the rows of of_flows: the
\* networks whose ports it changes are told or missed.
LEMMA ChangesAreTold ==
  ASSUME OneLevel, SyncInv, UNCHANGED <<threadSide, rows, netAlive>>,
         \A n \in Nets : Told(n) => Told(n)',
         missed \subseteq missed',
         \A n \in Nets :
           \/ Told(n)' \/ BoundTogether(n) \subseteq missed'
           \/ Attached(n)' = Attached(n) /\ (netUp'[n] = netUp[n] \/ Attached(n) = {}),
         \A p \in Ports : portNet'[p] \in Nets => portNet'[p] \in netAlive,
         RequestsAreSound'
  PROVE  SyncInv'
<1> USE DEF threadSide, readVars, planVars, histVars
<1>1. ASSUME NEW n \in Nets, Calm(n)'
      PROVE  /\ Calm(n)
             /\ \A m \in BoundTogether(n) :
                  m \in Nets /\ SeenNow(m)' = SeenNow(m) /\ Attached(m)' = Attached(m)
                                            /\ (netUp'[m] = netUp[m] \/ Attached(m) = {})
  <2>1. n \in netAlive /\ n \notin missed' /\ \A m \in BoundTogether(n) : ~Told(m)'
    BY <1>1 DEF Calm
  <2>2. ASSUME NEW m \in BoundTogether(n)
        PROVE  /\ m \in Nets /\ ~Told(m) /\ Attached(m)' = Attached(m)
               /\ (netUp'[m] = netUp[m] \/ Attached(m) = {})
    <3>1. m \in Nets /\ n \in BoundTogether(m)
      BY BindsAreGroups
    <3> QED BY <2>1, <3>1
  <2>3. \A m \in BoundTogether(n) : SeenNow(m)' = SeenNow(m)
    BY <2>2 DEF SeenNow
  <2> QED BY <2>1, <2>2, <2>3 DEF Calm
<1>2. ASSUME NEW n \in Nets, Calm(n)' PROVE Wanted(n)' = Wanted(n)
  <2>1. \A m \in Nets : Sight(n)'[m] = Sight(n)[m]
    BY <1>1, <1>2 DEF Sight
  <2>2. Sight(n)' = Sight(n)
    BY <2>1 DEF Sight
  <2> QED BY <2>2 DEF Wanted
<1>3. ASSUME NEW n \in Nets, Bare(n)' PROVE Bare(n)
  <2>1. n \in BoundTogether(n)
    BY BindsAreGroups
  <2> QED BY <1>3, <2>1 DEF Bare
<1>4. Affected' = Affected /\ (Updating' <=> Updating)
  BY DEF Affected, Updating
<1>5. TablesAreSound'
  BY DEF SyncInv, TablesAreSound, FlowOf
<1>6. /\ CurIsNet' /\ ClearedIsExcused' /\ GroupIsBound' /\ DbIsRight' /\ TwiceIsDead'
      /\ RowsAreKnown' /\ HandIsRight' /\ WorkIsRight'
  <2>1. CurIsNet' /\ ClearedIsExcused' /\ GroupIsBound'
    BY <1>4 DEF SyncInv, CurIsNet, ClearedIsExcused, GroupIsBound
  <2>2. DbIsRight' /\ TwiceIsDead' /\ HandIsRight'
    BY <1>4 DEF SyncInv, DbIsRight, TwiceIsDead, HandIsRight, Known
  <2>3. RowsAreKnown'
    BY <1>4 DEF SyncInv, RowsAreKnown, Known
  <2>4. WorkIsRight'
    BY <1>4 DEF SyncInv, WorkIsRight, Going, FlowOf
  <2> QED BY <2>1, <2>2, <2>3, <2>4
<1>7. SnapIsRight'
  <2> SUFFICES ASSUME Updating
               PROVE  /\ \A n \in group[Default] : Calm(n)' => \A m \in group[Default] :
                           IF WasRead(m) THEN snap[Default][m] = SeenNow(m)'
                           ELSE Attached(m)' = {} \/ (m \in upNets[Default] <=> netUp'[m])
                      /\ \A n \in group[Default] \cup {cur[Default]} : Bare(n)' =>
                           snap[Default][n] = {}
    BY <1>4 DEF SnapIsRight, WasRead
  <2>1. group[Default] \subseteq BoundTogether(cur[Default]) /\ cur[Default] \in Nets
    BY DEF SyncInv, GroupIsBound, CurIsNet, Updating, Inserting
  <2>2. \A n \in group[Default] : n \in Nets /\ group[Default] \subseteq BoundTogether(n)
    BY <2>1, BindsAreGroups
  <2>3. ASSUME NEW n \in group[Default], Calm(n)', NEW m \in group[Default]
        PROVE  IF WasRead(m) THEN snap[Default][m] = SeenNow(m)'
               ELSE Attached(m)' = {} \/ (m \in upNets[Default] <=> netUp'[m])
    BY <1>1, <2>2, <2>3 DEF SyncInv, SnapIsRight
  <2>4. ASSUME NEW n \in group[Default] \cup {cur[Default]}, Bare(n)' PROVE snap[Default][n] = {}
    BY <1>3, <2>1, <2>2, <2>4 DEF SyncInv, SnapIsRight
  <2> QED BY <2>3, <2>4
<1>8. Settled'
  BY <1>1, <1>2, <1>3, <1>4, StaysSettled DEF SyncInv
<1> QED BY <1>5, <1>6, <1>7, <1>8 DEF SyncInv

\* A request that inserts tasks when it had none to insert.
LEMMA TasksAreAdded ==
  ASSUME NEW h \in HttpThreads, UNCHANGED <<queue, pc, cur>>, toQueue[h] = << >>,
         \A g \in HttpThreads \ {h} : toQueue'[g] = toQueue[g]
  PROVE  /\ \A n \in Nets : Told(n) => Told(n)'
         /\ \A n \in Nets : (\E i \in DOMAIN toQueue'[h] : toQueue'[h][i].task = n) => Told(n)'
<1>1. \A g \in HttpThreads : DOMAIN toQueue[g] # {} => g # h
  OBVIOUS
<1> QED BY <1>1 DEF Told

\* A sequence of tasks has one of the network.
HasTask(s, n) == \E i \in DOMAIN s : s[i].task = n

\* A port that moves has both its networks updated.
LEMMA UpdatesOfBoth ==
  ASSUME NEW p \in Ports, NEW n \in Nets \cup {NoNet}, NEW k \in Nets \cup {NoNet}
  PROVE  /\ n \in Nets => HasTask(UpdateOf(n, p) \o UpdateOf(k, p), n)
         /\ k \in Nets => HasTask(UpdateOf(n, p) \o UpdateOf(k, p), k)
<1>1. NoNet \notin Nets
  BY SentinelsAreDistinct
<1>2. PICK x : x = UpdateNet(n, PortOfc[p])
  OBVIOUS
<1>3. PICK y : y = UpdateNet(k, PortOfc[p])
  OBVIOUS
<1>4. x.task = n /\ y.task = k
  BY <1>2, <1>3 DEF UpdateNet
<1>5. CASE n = NoNet /\ k \in Nets
  BY <1>1, <1>3, <1>4, <1>5 DEF UpdateOf, HasTask
<1>6. CASE n \in Nets /\ k = NoNet
  BY <1>1, <1>2, <1>4, <1>6 DEF UpdateOf, HasTask
<1>7. CASE n \in Nets /\ k \in Nets
  <2>1. UpdateOf(n, p) = <<x>> /\ UpdateOf(k, p) = <<y>>
    BY <1>1, <1>2, <1>3, <1>7 DEF UpdateOf
  <2>2. PICK s : s = UpdateOf(n, p) \o UpdateOf(k, p)
    OBVIOUS
  <2>3. s \in Seq({x, y}) /\ Len(s) = 2 /\ s[1] = x /\ s[2] = y
    BY <2>1, <2>2
  <2>4. HasTask(s, n) /\ HasTask(s, k)
    BY <1>4, <2>3 DEF HasTask
  <2> QED BY <2>2, <2>4
<1> QED BY <1>1, <1>5, <1>6, <1>7

\* A request that reads a row, or only inserts tasks.
LEMMA RequestSync ==
  ASSUME OneLevel, TypeInv, SyncInv, NEW h \in HttpThreads,
         \/ \E p \in Ports, n \in Nets \cup {NoNet} :
              CheckNewPort(h, p, n) \/ ReadPortToEdit(h, p, n)
         \/ \E p \in Ports : ReadPortToDelete(h, p)
         \/ \E n \in Nets : ReadNetToEdit(h, n) \/ ReinstallNet(h, n)
         \/ \E c \in Ofcs : ClearRules(h, c)
  PROVE  SyncInv'
<1> USE DEF ofcSide, Begin
<1>0. /\ request \in [HttpThreads -> RowRead] /\ toQueue \in [HttpThreads -> Seq(Insertion)]
      /\ request[h] = Idle /\ toQueue[h] = << >>
      /\ UNCHANGED <<netAlive, netUp, portNet, rows, queue, threadSide, missed>>
  BY DEF TypeInv, TypeOK, HttpTyped, CheckNewPort, ReadPortToEdit, ReadPortToDelete,
         ReadNetToEdit, ReinstallNet, ClearRules
<1>1. /\ \A p \in Ports : portNet[p] \in Nets => portNet[p] \in netAlive
      /\ RequestsAreSound
  BY DEF SyncInv, TablesAreSound
<1>2. UNCHANGED <<pc, cur>>
  BY <1>0 DEF threadSide, readVars
<1>3. \A n \in Nets : Attached(n)' = Attached(n) /\ netUp'[n] = netUp[n]
  BY <1>0 DEF Attached
<1>4. CASE UNCHANGED toQueue /\ \E r \in RowRead :
             /\ request' = [request EXCEPT ![h] = r]
             /\ r.op = "new" => /\ portNet[r.port] = NoPort
                                /\ \A g \in HttpThreads : request[g].op = "new" =>
                                     request[g].port # r.port
  <2>1. RequestsAreSound'
    BY <1>0, <1>1, <1>4 DEF RequestsAreSound
  <2>2. \A n \in Nets : Told(n) => Told(n)'
    BY <1>0, <1>2, <1>4 DEF Told
  <2> QED BY <1>0, <1>1, <1>3, <2>1, <2>2, ChangesAreTold
<1>5. CASE UNCHANGED request /\ \E s : toQueue' = [toQueue EXCEPT ![h] = s]
  <2>1. RequestsAreSound'
    BY <1>0, <1>1, <1>5 DEF RequestsAreSound
  <2>2. \A g \in HttpThreads \ {h} : toQueue'[g] = toQueue[g]
    BY <1>0, <1>5
  <2>3. \A n \in Nets : Told(n) => Told(n)'
    BY <1>0, <1>2, <2>2, TasksAreAdded
  <2> QED BY <1>0, <1>1, <1>3, <2>1, <2>3, ChangesAreTold
<1>6. ASSUME NEW p \in Ports, NEW n \in Nets \cup {NoNet},
             CheckNewPort(h, p, n) \/ ReadPortToEdit(h, p, n) \/ ReadPortToDelete(h, p)
      PROVE  SyncInv'
  <2>1. portNet[p] # NoPort => portNet[p] \in Nets \cup {NoNet}
    BY DEF TypeInv, TypeOK, TablesTyped
  <2>2. /\ [op |-> "new", port |-> p, net |-> n] \in RowRead
        /\ portNet[p] # NoPort =>
             [op |-> "edit", port |-> p, old |-> portNet[p], new |-> n] \in RowRead
    BY <2>1 DEF RowRead
  <2>3. ASSUME portNet[p] # NoPort
        PROVE  [op |-> "delete", port |-> p,
                old |-> IF p \in External THEN portNet[p] ELSE NoPort] \in RowRead
    BY <2>1, <2>3 DEF RowRead
  <2> QED BY <1>4, <1>6, <2>2, <2>3 DEF CheckNewPort, ReadPortToEdit, ReadPortToDelete
<1>7. ASSUME NEW n \in Nets, ReadNetToEdit(h, n) PROVE SyncInv'
  <2>1. netUp[n] \in BOOLEAN
    BY DEF TypeInv, TypeOK, TablesTyped
  <2>2. [op |-> "admin", net |-> n, up |-> ~netUp[n], hasPorts |-> Attached(n) # {}] \in RowRead
    BY <2>1 DEF RowRead
  <2> QED BY <1>4, <1>7, <2>2 DEF ReadNetToEdit
<1>8. ASSUME NEW n \in Nets, ReinstallNet(h, n) PROVE SyncInv'
  BY <1>5, <1>8 DEF ReinstallNet
<1>9. ASSUME NEW c \in Ofcs, ClearRules(h, c) PROVE SyncInv'
  BY <1>5, <1>9 DEF ClearRules
<1>10. ASSUME NEW p \in Ports, ReadPortToDelete(h, p) PROVE SyncInv'
  BY <1>6, <1>10
<1> QED BY <1>6, <1>7, <1>8, <1>9, <1>10

\* A network that no port leaves or joins.
LEMMA PortIsMoved ==
  ASSUME NEW n, \A p \in Ports : portNet'[p] = n <=> portNet[p] = n
  PROVE  Attached(n)' = Attached(n)
BY DEF Attached

LEMMA MissedAreMore ==
  ASSUME NEW S, Misses(S)
  PROVE  missed \subseteq missed' /\ \A n \in S \cap Nets : BoundTogether(n) \subseteq missed'
BY DEF Misses

LEMMA NewPortSync ==
  ASSUME OneLevel, TypeInv, SyncInv, NEW h \in HttpThreads, NewPort(h)
  PROVE  SyncInv'
<1> USE DEF ofcSide
<1>1. PICK r \in RowRead : r = request[h]
  BY DEF TypeInv, TypeOK, HttpTyped
<1>2. /\ r.op = "new" /\ r.port \in Ports /\ r.net \in Nets \cup {NoNet}
      /\ r # Idle
  BY <1>1, RequestShape DEF NewPort, Idle
<1>3. RequestsAreSound /\ toQueue[h] = << >> /\ portNet[r.port] = NoPort
  BY <1>1, <1>2 DEF SyncInv, RequestsAreSound
<1>4. /\ request' = [request EXCEPT ![h] = Idle]
      /\ UNCHANGED <<netAlive, netUp, rows, queue, threadSide, missed>>
      /\ \/ UNCHANGED <<portNet, toQueue>>
         \/ /\ r.net \in netAlive \cup {NoNet}
            /\ portNet' = [portNet EXCEPT ![r.port] = r.net]
            /\ \E c : toQueue' = [toQueue EXCEPT ![h] =
                          IF r.net = NoNet THEN << >> ELSE <<UpdateNet(r.net, c)>>]
  BY <1>1 DEF NewPort
<1>5. /\ request \in [HttpThreads -> RowRead] /\ toQueue \in [HttpThreads -> Seq(Insertion)]
      /\ portNet \in [Ports -> Nets \cup {NoNet, NoPort}] /\ Idle.op = "idle"
  BY DEF TypeInv, TypeOK, HttpTyped, TablesTyped, Idle
<1>6. UNCHANGED <<pc, cur>>
  BY <1>4 DEF threadSide, readVars
<1>7. NoNet \notin Nets /\ NoPort \notin Nets
  BY SentinelsAreDistinct
<1>8. \A g \in HttpThreads \ {h} : toQueue'[g] = toQueue[g] /\ request'[g] = request[g]
  BY <1>4, <1>5
<1>9. /\ \A n \in Nets : Told(n) => Told(n)'
      /\ \A n \in Nets : (\E i \in DOMAIN toQueue'[h] : toQueue'[h][i].task = n) => Told(n)'
  BY <1>3, <1>4, <1>6, <1>8, TasksAreAdded
<1>10. RequestsAreSound'
  <2>1. request'[h] = Idle
    BY <1>4, <1>5
  <2>2. \A g \in HttpThreads \ {h} : request[g].op = "new" => request[g].port # r.port
    BY <1>1, <1>2, <1>3 DEF RequestsAreSound
  <2>3. \A p \in Ports \ {r.port} : portNet'[p] = portNet[p]
    BY <1>4, <1>5
  <2>4. \A g \in HttpThreads : request[g].op = "new" => request[g].port \in Ports
    BY <1>5, RequestShape
  <2>5. \A g \in HttpThreads : request'[g].op = "new" =>
          g # h /\ request'[g] = request[g] /\ portNet'[request[g].port] = portNet[request[g].port]
    BY <1>5, <1>8, <2>1, <2>2, <2>3, <2>4
  <2>6. \A g \in HttpThreads : request'[g] # Idle =>
          g # h /\ request'[g] = request[g] /\ toQueue'[g] = toQueue[g]
    BY <1>8, <2>1
  <2> QED BY <1>3, <2>5, <2>6 DEF RequestsAreSound
<1>11. \A p \in Ports : portNet'[p] \in Nets => portNet'[p] \in netAlive'
  BY <1>4, <1>5, <1>7 DEF SyncInv, TablesAreSound
<1>12. ASSUME NEW n \in Nets, ~Told(n)'
       PROVE  Attached(n)' = Attached(n)
  <2>1. CASE UNCHANGED <<portNet, toQueue>>
    BY <2>1 DEF Attached
  <2>2. CASE r.net = n /\ \E c : toQueue' = [toQueue EXCEPT ![h] = <<UpdateNet(n, c)>>]
    <3>1. PICK c : toQueue'[h] = <<UpdateNet(n, c)>>
      BY <1>5, <2>2
    <3>2. toQueue'[h][1].task = n /\ 1 \in DOMAIN toQueue'[h]
      BY <3>1 DEF UpdateNet
    <3> QED BY <1>9, <1>12, <3>2
  <2>3. CASE r.net # n /\ portNet' = [portNet EXCEPT ![r.port] = r.net]
    <3>1. \A p \in Ports : portNet'[p] = n <=> portNet[p] = n
      BY <1>2, <1>3, <1>5, <1>7, <2>3
    <3> QED BY <3>1, PortIsMoved
  <2> QED BY <1>4, <1>7, <2>1, <2>2, <2>3
<1> QED BY <1>4, <1>9, <1>10, <1>11, <1>12, ChangesAreTold

LEMMA EditPortSync ==
  ASSUME OneLevel, TypeInv, SyncInv, NEW h \in HttpThreads, EditPort(h)
  PROVE  SyncInv'
<1> USE DEF ofcSide
<1>1. PICK r \in RowRead : r = request[h]
  BY DEF TypeInv, TypeOK, HttpTyped
<1>2. /\ r.op = "edit" /\ r.port \in Ports /\ r # Idle
      /\ r.old \in Nets \cup {NoNet} /\ r.new \in Nets \cup {NoNet}
  BY <1>1, RequestShape DEF EditPort, Idle
<1>3. RequestsAreSound /\ toQueue[h] = << >>
  BY <1>1, <1>2 DEF SyncInv, RequestsAreSound
<1>4. /\ request' = [request EXCEPT ![h] = Idle]
      /\ UNCHANGED <<netAlive, netUp, rows, queue, threadSide>>
      /\ \/ UNCHANGED <<portNet, toQueue, missed>>
         \/ /\ r.new \in netAlive \cup {NoNet} /\ portNet[r.port] # NoPort
            /\ portNet' = [portNet EXCEPT ![r.port] = r.new]
            /\ toQueue' = [toQueue EXCEPT ![h] = UpdateOf(r.new, r.port) \o UpdateOf(r.old, r.port)]
            /\ Misses({portNet[r.port]} \ {r.old, r.new})
  BY <1>1 DEF EditPort
<1>5. /\ request \in [HttpThreads -> RowRead] /\ toQueue \in [HttpThreads -> Seq(Insertion)]
      /\ portNet \in [Ports -> Nets \cup {NoNet, NoPort}] /\ Idle.op = "idle"
  BY DEF TypeInv, TypeOK, HttpTyped, TablesTyped, Idle
<1>6. UNCHANGED <<pc, cur>>
  BY <1>4 DEF threadSide, readVars
<1>7. NoNet \notin Nets /\ NoPort \notin Nets
  BY SentinelsAreDistinct
<1>8. \A g \in HttpThreads \ {h} : toQueue'[g] = toQueue[g] /\ request'[g] = request[g]
  BY <1>4, <1>5
<1>9. /\ \A n \in Nets : Told(n) => Told(n)'
      /\ \A n \in Nets : (\E i \in DOMAIN toQueue'[h] : toQueue'[h][i].task = n) => Told(n)'
  BY <1>3, <1>4, <1>6, <1>8, TasksAreAdded
<1>10. RequestsAreSound'
  <2>1. request'[h] = Idle
    BY <1>4, <1>5
  <2>2. \A p \in Ports : portNet[p] = NoPort => portNet'[p] = NoPort
    BY <1>4, <1>5
  <2>3. \A g \in HttpThreads : request[g].op = "new" => request[g].port \in Ports
    BY <1>5, RequestShape
  <2>4. \A g \in HttpThreads : request'[g].op = "new" =>
          g # h /\ request'[g] = request[g] /\ (portNet[request[g].port] = NoPort => portNet'[request[g].port] = NoPort)
    BY <1>5, <1>8, <2>1, <2>2, <2>3
  <2>5. \A g \in HttpThreads : request'[g] # Idle =>
          g # h /\ request'[g] = request[g] /\ toQueue'[g] = toQueue[g]
    BY <1>8, <2>1
  <2> QED BY <1>3, <2>4, <2>5 DEF RequestsAreSound
<1>11. \A p \in Ports : portNet'[p] \in Nets => portNet'[p] \in netAlive'
  BY <1>4, <1>5, <1>7 DEF SyncInv, TablesAreSound
<1>12. missed \subseteq missed'
  BY <1>4, MissedAreMore
<1>13. ASSUME NEW n \in Nets
       PROVE  Told(n)' \/ BoundTogether(n) \subseteq missed' \/ Attached(n)' = Attached(n)
  <2>1. CASE UNCHANGED <<portNet, toQueue, missed>>
    BY <2>1 DEF Attached
  <2>2. CASE /\ portNet' = [portNet EXCEPT ![r.port] = r.new]
             /\ toQueue' = [toQueue EXCEPT ![h] = UpdateOf(r.new, r.port) \o UpdateOf(r.old, r.port)]
             /\ Misses({portNet[r.port]} \ {r.old, r.new})
    <3>1. toQueue'[h] = UpdateOf(r.new, r.port) \o UpdateOf(r.old, r.port)
      BY <1>5, <2>2
    <3>2. n \in {r.new, r.old} => Told(n)'
      <4>1. n \in {r.new, r.old} => HasTask(UpdateOf(r.new, r.port) \o UpdateOf(r.old, r.port), n)
        BY <1>2, UpdatesOfBoth
      <4> QED BY <1>9, <3>1, <4>1 DEF HasTask
    <3>3. n = portNet[r.port] /\ n \notin {r.new, r.old} => BoundTogether(n) \subseteq missed'
      BY <2>2, MissedAreMore
    <3>4. n \notin {r.new, portNet[r.port]} => \A p \in Ports : portNet'[p] = n <=> portNet[p] = n
      BY <1>2, <1>5, <2>2
    <3> QED BY <3>2, <3>3, <3>4, PortIsMoved
  <2> QED BY <1>4, <2>1, <2>2
<1> QED BY <1>4, <1>9, <1>10, <1>11, <1>12, <1>13, ChangesAreTold

LEMMA DeletePortSync ==
  ASSUME OneLevel, TypeInv, SyncInv, NEW h \in HttpThreads, DeletePort(h)
  PROVE  SyncInv'
<1> USE DEF ofcSide
<1>1. PICK r \in RowRead : r = request[h]
  BY DEF TypeInv, TypeOK, HttpTyped
<1>2. r.op = "delete" /\ r.port \in Ports /\ r # Idle /\ r.old \in Nets \cup {NoNet, NoPort}
  BY <1>1, RequestShape DEF DeletePort, Idle
<1>3. RequestsAreSound /\ toQueue[h] = << >>
  BY <1>1, <1>2 DEF SyncInv, RequestsAreSound
<1>4. /\ request' = [request EXCEPT ![h] = Idle]
      /\ UNCHANGED <<netAlive, netUp, rows, queue, threadSide>>
      /\ portNet' = [portNet EXCEPT ![r.port] = NoPort]
      /\ IF portNet[r.port] # NoPort /\ r.old # NoPort
           THEN toQueue' = [toQueue EXCEPT ![h] = UpdateOf(r.old, r.port)]
           ELSE UNCHANGED toQueue
      /\ Misses({portNet[r.port]} \ {r.old})
  BY <1>1 DEF DeletePort
<1>5. /\ request \in [HttpThreads -> RowRead] /\ toQueue \in [HttpThreads -> Seq(Insertion)]
      /\ portNet \in [Ports -> Nets \cup {NoNet, NoPort}] /\ Idle.op = "idle"
  BY DEF TypeInv, TypeOK, HttpTyped, TablesTyped, Idle
<1>6. UNCHANGED <<pc, cur>>
  BY <1>4 DEF threadSide, readVars
<1>7. NoNet \notin Nets /\ NoPort \notin Nets
  BY SentinelsAreDistinct
<1>8. \A g \in HttpThreads \ {h} : toQueue'[g] = toQueue[g] /\ request'[g] = request[g]
  BY <1>4, <1>5
<1>9. /\ \A n \in Nets : Told(n) => Told(n)'
      /\ \A n \in Nets : (\E i \in DOMAIN toQueue'[h] : toQueue'[h][i].task = n) => Told(n)'
  BY <1>3, <1>4, <1>6, <1>8, TasksAreAdded
<1>10. RequestsAreSound'
  <2>1. request'[h] = Idle
    BY <1>4, <1>5
  <2>2. \A p \in Ports : portNet[p] = NoPort => portNet'[p] = NoPort
    BY <1>4, <1>5
  <2>3. \A g \in HttpThreads : request[g].op = "new" => request[g].port \in Ports
    BY <1>5, RequestShape
  <2>4. \A g \in HttpThreads : request'[g].op = "new" =>
          g # h /\ request'[g] = request[g] /\ (portNet[request[g].port] = NoPort => portNet'[request[g].port] = NoPort)
    BY <1>5, <1>8, <2>1, <2>2, <2>3
  <2>5. \A g \in HttpThreads : request'[g] # Idle =>
          g # h /\ request'[g] = request[g] /\ toQueue'[g] = toQueue[g]
    BY <1>8, <2>1
  <2> QED BY <1>3, <2>4, <2>5 DEF RequestsAreSound
<1>11. \A p \in Ports : portNet'[p] \in Nets => portNet'[p] \in netAlive'
  BY <1>4, <1>5, <1>7 DEF SyncInv, TablesAreSound
<1>12. missed \subseteq missed'
  BY <1>4, MissedAreMore
<1>13. ASSUME NEW n \in Nets
       PROVE  Told(n)' \/ BoundTogether(n) \subseteq missed' \/ Attached(n)' = Attached(n)
  <2>1. n = portNet[r.port] /\ n # r.old => BoundTogether(n) \subseteq missed'
    BY <1>4, MissedAreMore
  <2>2. CASE n = portNet[r.port] /\ n = r.old
    <3>1. toQueue'[h] = <<UpdateNet(n, PortOfc[r.port])>>
      BY <1>4, <1>5, <1>7, <2>2 DEF UpdateOf
    <3>2. toQueue'[h][1].task = n /\ 1 \in DOMAIN toQueue'[h]
      BY <3>1 DEF UpdateNet
    <3> QED BY <1>9, <3>2
  <2>3. n # portNet[r.port] => \A p \in Ports : portNet'[p] = n <=> portNet[p] = n
    BY <1>2, <1>4, <1>5, <1>7
  <2> QED BY <2>1, <2>2, <2>3, PortIsMoved
<1> QED BY <1>4, <1>9, <1>10, <1>11, <1>12, <1>13, ChangesAreTold

LEMMA EditNetSync ==
  ASSUME OneLevel, TypeInv, SyncInv, NEW h \in HttpThreads, EditNet(h)
  PROVE  SyncInv'
<1> USE DEF ofcSide
<1>1. PICK r \in RowRead : r = request[h]
  BY DEF TypeInv, TypeOK, HttpTyped
<1>2. r.op = "admin" /\ r.net \in Nets /\ r # Idle
  BY <1>1, RequestShape DEF EditNet, Idle
<1>3. RequestsAreSound /\ toQueue[h] = << >>
  BY <1>1, <1>2 DEF SyncInv, RequestsAreSound
<1>4. /\ request' = [request EXCEPT ![h] = Idle]
      /\ UNCHANGED <<netAlive, portNet, rows, queue, threadSide>>
      /\ \/ UNCHANGED <<netUp, toQueue, missed>>
         \/ /\ netUp' = [netUp EXCEPT ![r.net] = r.up]
            /\ toQueue' = [toQueue EXCEPT ![h] =
                 IF r.hasPorts THEN <<UpdateNet(r.net, Anywhere)>> ELSE << >>]
            /\ Misses(IF ~r.hasPorts /\ Attached(r.net) # {} THEN {r.net} ELSE {})
  BY <1>1 DEF EditNet
<1>5. /\ request \in [HttpThreads -> RowRead] /\ toQueue \in [HttpThreads -> Seq(Insertion)]
      /\ netUp \in [Nets -> BOOLEAN] /\ Idle.op = "idle"
  BY DEF TypeInv, TypeOK, HttpTyped, TablesTyped, Idle
<1>6. UNCHANGED <<pc, cur>>
  BY <1>4 DEF threadSide, readVars
<1>7. \A g \in HttpThreads \ {h} : toQueue'[g] = toQueue[g] /\ request'[g] = request[g]
  BY <1>4, <1>5
<1>8. /\ \A n \in Nets : Told(n) => Told(n)'
      /\ \A n \in Nets : (\E i \in DOMAIN toQueue'[h] : toQueue'[h][i].task = n) => Told(n)'
  BY <1>3, <1>4, <1>6, <1>7, TasksAreAdded
<1>9. RequestsAreSound'
  <2>1. request'[h] = Idle
    BY <1>4, <1>5
  <2>2. \A g \in HttpThreads : request'[g] # Idle =>
          g # h /\ request'[g] = request[g] /\ toQueue'[g] = toQueue[g]
    BY <1>7, <2>1
  <2>3. \A g \in HttpThreads : request'[g].op = "new" => g # h /\ request'[g] = request[g]
    BY <1>5, <1>7, <2>1
  <2> QED BY <1>3, <1>4, <2>2, <2>3 DEF RequestsAreSound
<1>10. \A p \in Ports : portNet'[p] \in Nets => portNet'[p] \in netAlive'
  BY <1>4 DEF SyncInv, TablesAreSound
<1>11. missed \subseteq missed' /\ \A n \in Nets : Attached(n)' = Attached(n)
  BY <1>4, MissedAreMore DEF Attached
<1>12. ASSUME NEW n \in Nets
       PROVE  Told(n)' \/ BoundTogether(n) \subseteq missed' \/ netUp'[n] = netUp[n] \/ Attached(n) = {}
  <2>1. CASE UNCHANGED <<netUp, toQueue, missed>>
    BY <2>1
  <2>2. CASE n # r.net /\ netUp' = [netUp EXCEPT ![r.net] = r.up]
    BY <1>2, <1>5, <2>2
  <2>3. CASE n = r.net /\ r.hasPorts /\ toQueue' = [toQueue EXCEPT ![h] = <<UpdateNet(n, Anywhere)>>]
    <3>1. toQueue'[h] = <<UpdateNet(n, Anywhere)>>
      BY <1>5, <2>3
    <3>2. toQueue'[h][1].task = n /\ 1 \in DOMAIN toQueue'[h]
      BY <3>1 DEF UpdateNet
    <3> QED BY <1>8, <3>2
  <2>4. CASE n = r.net /\ ~r.hasPorts /\ Attached(n) # {} /\ Misses({n})
    BY <2>4, MissedAreMore
  <2> QED BY <1>4, <2>1, <2>2, <2>3, <2>4
<1> QED BY <1>4, <1>8, <1>9, <1>10, <1>11, <1>12, ChangesAreTold

\* The task goes to the only thread.
LEMMA InsertTaskSync ==
  ASSUME Ofcs = {Default}, OneLevel, TypeInv, SyncInv, NEW h \in HttpThreads, InsertTask(h)
  PROVE  SyncInv'
<1> USE DEF ofcSide
<1> DEFINE t == Head(toQueue[h])
<1>1. /\ toQueue \in [HttpThreads -> Seq(Insertion)] /\ queue \in [Ofcs -> Seq(Task)]
      /\ toQueue[h] # << >>
  BY DEF TypeInv, TypeOK, HttpTyped, InsertTask
<1>2. t \in Insertion
  BY <1>1
<1>3. TargetsOf(t.task, t.ofc) \subseteq {Default}
  <2>1. \A p \in Ports : PortOfc[p] = Default
    BY TopologyIsTyped
  <2> QED BY <1>2, <2>1 DEF TargetsOf, Insertion, Attached
<1>4. /\ queue' = [queue EXCEPT ![Default] = Append(@, t.task)]
      /\ toQueue' = [toQueue EXCEPT ![h] = Tail(@)]
      /\ UNCHANGED <<request, netAlive, netUp, portNet, rows, ofcSide>>
  BY <1>3 DEF InsertTask
<1>5. UNCHANGED <<pc, cur>>
  BY <1>4 DEF threadSide, readVars
<1>6. t.task \in Task
  BY <1>2 DEF Insertion
<1> HIDE DEF t
<1>7. ASSUME NEW n \in Nets, Told(n) PROVE Told(n)'
  <2>1. CASE \E g \in HttpThreads \ {h} : \E i \in DOMAIN toQueue[g] : toQueue[g][i].task = n
    BY <1>1, <1>4, <2>1 DEF Told
  <2>2. CASE \E i \in DOMAIN toQueue[h] : toQueue[h][i].task = n
    <3>1. PICK i \in 1..Len(toQueue[h]) : toQueue[h][i].task = n
      BY <1>1, <2>2
    <3>2. CASE i = 1
      <4>1. t.task = n
        BY <1>1, <3>1, <3>2 DEF t
      <4>2. queue'[Default] = Append(queue[Default], n) /\ queue[Default] \in Seq(Task) /\ n \in Task
        BY <1>1, <1>4, <1>6, <4>1, TopologyIsTyped
      <4>3. Len(queue[Default]) + 1 \in DOMAIN queue'[Default] /\ queue'[Default][Len(queue[Default]) + 1] = n
        BY <4>2
      <4> QED BY <4>3 DEF Told
    <3>3. CASE i # 1
      <4>1. toQueue'[h] = Tail(toQueue[h])
        BY <1>1, <1>4
      <4>2. i - 1 \in DOMAIN toQueue'[h] /\ toQueue'[h][i - 1] = toQueue[h][i]
        BY <1>1, <3>1, <3>3, <4>1
      <4> QED BY <3>1, <4>2 DEF Told
    <3> QED BY <3>2, <3>3
  <2>3. CASE \E i \in DOMAIN queue[Default] : queue[Default][i] = n
    <3>1. PICK i \in DOMAIN queue[Default] : queue[Default][i] = n
      BY <2>3
    <3>2. queue'[Default] = Append(queue[Default], t.task) /\ queue[Default] \in Seq(Task)
      BY <1>1, <1>4, TopologyIsTyped
    <3>3. i \in DOMAIN queue'[Default] /\ queue'[Default][i] = n
      BY <1>6, <3>1, <3>2
    <3> QED BY <3>3 DEF Told
  <2>4. CASE pc[Default] = "nets" /\ cur[Default] = n
    BY <1>5, <2>4 DEF Told
  <2> QED BY <1>7, <2>1, <2>2, <2>3, <2>4 DEF Told
<1>8. RequestsAreSound'
  <2>1. RequestsAreSound
    BY DEF SyncInv
  <2>2. \A g \in HttpThreads : toQueue[g] = << >> => toQueue'[g] = << >>
    BY <1>1, <1>4
  <2> QED BY <1>4, <2>1, <2>2 DEF RequestsAreSound
<1>9. \A p \in Ports : portNet'[p] \in Nets => portNet'[p] \in netAlive'
  BY <1>4 DEF SyncInv, TablesAreSound
<1>10. \A n \in Nets : Attached(n)' = Attached(n) /\ netUp'[n] = netUp[n]
  BY <1>4 DEF Attached
<1> QED BY <1>4, <1>7, <1>8, <1>9, <1>10, ChangesAreTold

\* Only a network without ports goes; its rows stay and lose their net_id.
LEMMA DeleteNetSync ==
  ASSUME OneLevel, TypeInv, SyncInv, NEW h \in HttpThreads, NEW n \in Nets, DeleteNet(h, n)
  PROVE  SyncInv'
<1> USE DEF ofcSide, threadSide, readVars, planVars, histVars, Begin
<1>0. /\ rows \in [Names -> FlowOrNone] /\ NoFlow \notin Flow
      /\ NoNet \notin Nets
  BY SentinelsAreDistinct DEF TypeInv, TypeOK, TablesTyped
<1>1. /\ n \in netAlive /\ Attached(n) = {}
      /\ netAlive' = netAlive \ {n}
      /\ rows' = [nm \in Names |-> IF nm \in RowsOf(n) THEN [rows[nm] EXCEPT !.net = NoNet] ELSE rows[nm]]
      /\ UNCHANGED <<request, netUp, portNet, queue, toQueue, ofcSide>>
  BY DEF DeleteNet
<1>2. \A nm \in Names : rows[nm] # NoFlow =>
        rows[nm].net = IF nm[1] \in netAlive THEN nm[1] ELSE NoNet
  BY DEF SyncInv, TablesAreSound
<1>3. ASSUME NEW nm \in Names, nm[1] # n PROVE rows'[nm] = rows[nm]
  BY <1>0, <1>1, <1>2, <1>3 DEF RowsOf
<1>4. ASSUME NEW nm \in Names, nm[1] = n, rows[nm] # NoFlow
      PROVE  rows'[nm] = [net |-> NoNet, match |-> rows[nm].match, vlan |-> rows[nm].vlan]
  <2>1. nm \in RowsOf(n)
    BY <1>1, <1>2, <1>4 DEF RowsOf
  <2>2. rows'[nm] = [rows[nm] EXCEPT !.net = NoNet] /\ rows[nm] \in Flow
    BY <1>0, <1>1, <1>4, <2>1 DEF FlowOrNone
  <2> QED BY <2>2 DEF Flow
<1>5. ASSUME NEW nm \in Names, nm[1] = n, rows[nm] = NoFlow PROVE rows'[nm] = NoFlow
  BY <1>1, <1>5 DEF RowsOf
<1>6. ASSUME NEW nm \in Names
      PROVE  /\ rows'[nm] = NoFlow <=> rows[nm] = NoFlow
             /\ rows[nm] # NoFlow =>
                  FlowOf(nm)' = FlowOf(nm) /\ BodyOf(rows'[nm]) = BodyOf(rows[nm])
  <2>1. CASE nm[1] # n
    BY <1>3, <2>1 DEF FlowOf
  <2>2. CASE nm[1] = n /\ rows[nm] = NoFlow
    BY <1>5, <2>2
  <2>3. CASE nm[1] = n /\ rows[nm] # NoFlow
    <3>1. rows'[nm] = [net |-> NoNet, match |-> rows[nm].match, vlan |-> rows[nm].vlan]
      BY <1>4, <2>3
    <3>2. rows'[nm] # NoFlow
      <4>1. rows[nm] \in Flow
        BY <1>0, <2>3 DEF FlowOrNone
      <4>2. rows'[nm] \in Flow
        BY <3>1, <4>1 DEF Flow
      <4> QED BY <1>0, <4>2
    <3>3. FlowOf(nm)' = FlowOf(nm) /\ BodyOf(rows'[nm]) = BodyOf(rows[nm])
      BY <3>1 DEF FlowOf, BodyOf
    <3> QED BY <2>3, <3>2, <3>3
  <2> QED BY <2>1, <2>2, <2>3
<1>7. \A nm \in Names : rows'[nm] # NoFlow =>
        rows'[nm].net = IF nm[1] \in netAlive' THEN nm[1] ELSE NoNet
  <2>1. ASSUME NEW nm \in Names, rows'[nm] # NoFlow, nm[1] = n
        PROVE  rows'[nm].net = NoNet
    <3>1. rows[nm] # NoFlow
      BY <1>6, <2>1
    <3>2. rows'[nm] = [net |-> NoNet, match |-> rows[nm].match, vlan |-> rows[nm].vlan]
      BY <1>4, <2>1, <3>1
    <3> QED BY <3>2
  <2> QED BY <1>1, <1>2, <1>3, <2>1
<1>8. TablesAreSound'
  <2>1. \A p \in Ports : portNet'[p] \in Nets => portNet'[p] \in netAlive'
    BY <1>1 DEF SyncInv, TablesAreSound, Attached
  <2>2. \A nm \in Names : rows'[nm] # NoFlow => \E s \in Snapshots : FlowOf(nm)' \in NetFlows(s)
    BY <1>6 DEF SyncInv, TablesAreSound
  <2>3. \A nm \in Names : rows'[nm] # NoFlow /\ rules'[Default][nm] # NoFlow =>
          rules'[Default][nm] = BodyOf(rows'[nm])
    BY <1>1, <1>6 DEF SyncInv, TablesAreSound
  <2> QED BY <1>7, <2>1, <2>2, <2>3 DEF TablesAreSound
<1>9. Affected' = Affected /\ (Updating' <=> Updating) /\ (\A m : Told(m)' <=> Told(m))
  BY <1>1 DEF Affected, Updating, Told
<1>10. \A m : Attached(m)' = Attached(m) /\ SeenNow(m)' = SeenNow(m)
  BY <1>1 DEF Attached, SeenNow
<1>11. \A m \in Nets : (Calm(m)' => Calm(m)) /\ (Bare(m)' => Bare(m))
  BY <1>1, <1>9, <1>10 DEF Calm, Bare
<1>12. RequestsAreSound' /\ CurIsNet' /\ ClearedIsExcused'
  BY <1>1 DEF SyncInv, RequestsAreSound, CurIsNet, ClearedIsExcused
<1>13. GroupIsBound'
  BY <1>1, <1>9 DEF SyncInv, GroupIsBound
<1>14. SnapIsRight'
  <2>1. /\ UNCHANGED <<group, cur, snap, upNets, netUp>>
        /\ \A m : WasRead(m)' <=> WasRead(m)
    BY <1>1 DEF WasRead
  <2>2. Updating => group[Default] \subseteq Nets /\ cur[Default] \in Nets
    BY BindsAreGroups DEF SyncInv, GroupIsBound, CurIsNet, Updating, Inserting
  <2> QED BY <1>9, <1>10, <1>11, <2>1, <2>2 DEF SyncInv, SnapIsRight
<1>15. DbIsRight'
  BY <1>1, <1>6, <1>9 DEF SyncInv, DbIsRight, Known
<1>16. RowsAreKnown'
  BY <1>1, <1>6, <1>9 DEF SyncInv, RowsAreKnown, Known
<1>17. HandIsRight' /\ TwiceIsDead'
  BY <1>1 DEF SyncInv, HandIsRight, TwiceIsDead, Known
<1>18. WorkIsRight'
  <2>1. \A nm \in Names : Going(nm)' <=> Going(nm)
    BY <1>1 DEF Going
  <2>2. ASSUME NEW f, f.net \in netAlive', NEW nm \in Names, nm[1] = f.net
        PROVE  rows'[nm] = rows[nm]
    BY <1>1, <1>3, <2>2
  <2>3. /\ UNCHANGED <<pc, ok, snap, new, handFlow, clean, prune, rules>>
        /\ WorkIsRight /\ netAlive' \subseteq netAlive
    BY <1>1 DEF SyncInv
  <2> QED BY <1>6, <1>9, <2>1, <2>2, <2>3 DEF WorkIsRight
<1>19. Settled'
  <2>1. ASSUME NEW m \in Nets, Calm(m)' PROVE Wanted(m)' = Wanted(m)
    <3>1. \A k \in Nets : Sight(m)'[k] = Sight(m)[k]
      BY <1>1, <1>10 DEF Sight
    <3>2. Sight(m)' = Sight(m)
      BY <3>1 DEF Sight
    <3> QED BY <3>2 DEF Wanted
  <2>2. \A m \in Nets : Calm(m)' => m # n
    BY <1>1 DEF Calm
  <2>3. UNCHANGED <<netStatus, excused, missed, rules>>
    BY <1>1
  <2>4. \A m \in Nets : Calm(m)' => \A nm \in Names : nm[1] = m => rows'[nm] = rows[nm]
    BY <1>3, <2>2
  <2> QED BY <1>6, <1>9, <1>11, <2>1, <2>3, <2>4, StaysSettled DEF SyncInv
<1> QED
  BY <1>8, <1>12, <1>13, <1>14, <1>15, <1>16, <1>17, <1>18, <1>19 DEF SyncInv

-----------------------------------------------------------------------------
(* The steps of the thread *)

\* A thread leaves the tables and the requests alone.
LEMMA ThreadKeeps ==
  ASSUME UNCHANGED <<netAlive, netUp, portNet, request, toQueue>>
  PROVE  /\ RequestsAreSound => RequestsAreSound'
         /\ \A n : Attached(n)' = Attached(n) /\ SeenNow(n)' = SeenNow(n) /\ Wanted(n)' = Wanted(n)
BY SeenIsKept DEF RequestsAreSound

LEMMA QuietThread ==
  ASSUME UNCHANGED <<netAlive, netUp, portNet, toQueue, queue, missed>>,
         pc[Default] # "nets", pc'[Default] # "nets"
  PROVE  /\ \A n : Told(n)' <=> Told(n)
         /\ \A n : (Calm(n)' <=> Calm(n)) /\ (Bare(n)' <=> Bare(n))
<1>1. \A n : Told(n)' <=> Told(n)
  BY DEF Told
<1> QED BY <1>1 DEF Calm, Bare, Attached

\* When no update is in progress.
LEMMA NotUpdating ==
  ASSUME pc'[Default] \in {"idle", "nets", "clear", "clearrows", "report"},
         pc'[Default] = "report" => ~ok'[Default]
  PROVE  /\ GroupIsBound' /\ SnapIsRight' /\ DbIsRight' /\ TwiceIsDead' /\ RowsAreKnown'
         /\ HandIsRight' /\ WorkIsRight' /\ ~Updating'
<1>1. ~Updating'
  BY DEF Updating, Inserting
<1>2. GroupIsBound' /\ SnapIsRight' /\ DbIsRight'
  BY <1>1 DEF GroupIsBound, SnapIsRight, DbIsRight
<1>3. TwiceIsDead' /\ RowsAreKnown' /\ HandIsRight' /\ WorkIsRight'
  BY DEF TwiceIsDead, RowsAreKnown, HandIsRight, WorkIsRight, Inserting
<1> QED BY <1>1, <1>2, <1>3

\* What an update affects is bound with its network.
LEMMA AffectedIsBound ==
  ASSUME OneLevel, SyncInv
  PROVE  /\ Affected \subseteq BoundTogether(cur[Default]) \cup {cur[Default]}
         /\ Affected \subseteq Nets
         /\ Affected # {} => cur[Default] \in Nets /\ Affected \subseteq BoundTogether(cur[Default])
<1>1. CASE Updating
  <2>1. cur[Default] \in Nets /\ group[Default] \subseteq BoundTogether(cur[Default])
    BY <1>1 DEF SyncInv, CurIsNet, GroupIsBound, Updating, Inserting
  <2> QED BY <1>1, <2>1, BindsAreGroups DEF Affected
<1>2. CASE ~Updating
  <2>1. pc[Default] = "report" => cur[Default] \in Nets
    BY DEF SyncInv, CurIsNet
  <2> QED BY <1>2, <2>1, BindsAreGroups DEF Affected
<1> QED BY <1>1, <1>2

\* An update that fails leaves the networks bound together to the next one.
LEMMA FailedSync ==
  ASSUME OneLevel, SyncInv,
         UNCHANGED <<netStatus, netAlive, netUp, portNet, request, toQueue, queue, missed, excused, cur>>,
         pc[Default] \in {"nets", "ports", "flows", "rules"} \cup Inserting,
         pc'[Default] = "report", ~ok'[Default],
         TablesAreSound',
         \A nm \in Names :
           /\ nm[1] \in netAlive \ BoundTogether(cur[Default]) =>
                rows'[nm] = rows[nm] /\ rules'[Default][nm] = rules[Default][nm]
           /\ rows[nm] = NoFlow => rows'[nm] = NoFlow
  PROVE  SyncInv'
<1>1. /\ GroupIsBound' /\ SnapIsRight' /\ DbIsRight' /\ TwiceIsDead' /\ RowsAreKnown'
      /\ HandIsRight' /\ WorkIsRight' /\ ~Updating'
  BY NotUpdating
<1>2. cur[Default] \in Nets
  BY DEF SyncInv, CurIsNet, Inserting
<1>3. CurIsNet' /\ ClearedIsExcused' /\ RequestsAreSound'
  BY <1>2, ThreadKeeps DEF SyncInv, CurIsNet, ClearedIsExcused
<1>4. Affected' = BoundTogether(cur[Default]) /\ Affected \subseteq BoundTogether(cur[Default])
  BY <1>1, <1>2, AffectedIsBound, BindsAreGroups DEF Affected, BoundTogether, BindId
<1>5. \A n \in Nets \ BoundTogether(cur[Default]) : Told(n)' <=> Told(n)
  <2>1. cur[Default] \in BoundTogether(cur[Default])
    BY <1>2, BindsAreGroups
  <2> QED BY <2>1 DEF Told
<1>6. ASSUME NEW n \in Nets \ BoundTogether(cur[Default])
      PROVE  /\ Calm(n)' => Calm(n) /\ Wanted(n)' = Wanted(n)
             /\ Bare(n)' => Bare(n)
  <2>1. \A m \in BoundTogether(n) : m \in Nets \ BoundTogether(cur[Default])
    BY <1>2, BindsAreGroups
  <2> QED BY <1>5, <2>1, ThreadKeeps DEF Calm, Bare
<1>7. Settled'
  <2>1. \A n \in Nets : Calm(n)' => n \in netAlive
    BY DEF Calm
  <2> QED BY <1>4, <1>6, <2>1, StaysSettled DEF SyncInv
<1> QED BY <1>1, <1>3, <1>7 DEF SyncInv

\* The steps of a thread, one lemma each.
LEMMA TakeTaskSync ==
  ASSUME Ofcs = {Default}, OneLevel, TypeInv, SyncInv, TakeTask(Default)
  PROVE  SyncInv'
<1> USE DEF dbVars, httpVars, planVars, histVars, Goto
<1> DEFINE t == Head(queue[Default])
<1>1. /\ queue \in [Ofcs -> Seq(Task)] /\ pc \in [Ofcs -> Steps] /\ cur \in [Ofcs -> Nets \cup {NoNet}]
      /\ queue[Default] # << >> /\ pc[Default] = "idle" /\ Default \in Ofcs
  BY TopologyIsTyped DEF TypeInv, TypeOK, HttpTyped, PlanTyped, ReadTyped, TakeTask
<1>2. /\ queue[Default] \in Seq(Task) /\ t \in Nets \cup {ClearAll}
      /\ t = queue[Default][1]
  BY <1>1 DEF Task
<1>3. /\ queue'[Default] = Tail(queue[Default])
      /\ \/ t = ClearAll /\ pc'[Default] = "clear" /\ UNCHANGED cur
         \/ t \in Nets /\ pc'[Default] = "nets" /\ cur'[Default] = t
      /\ UNCHANGED <<netStatus, netAlive, netUp, portNet, request, toQueue, missed, excused, rows, rules>>
  BY <1>1, <1>2 DEF TakeTask
<1>4. ASSUME NEW n \in Nets PROVE Told(n) => Told(n)'
  <2>1. ASSUME \E i \in DOMAIN queue[Default] : queue[Default][i] = n PROVE Told(n)'
    <3>1. PICK i \in 1..Len(queue[Default]) : queue[Default][i] = n
      BY <1>2, <2>1
    <3>2. CASE i = 1
      <4>1. t = n /\ t # ClearAll
        BY <1>2, <3>1, <3>2, SentinelsAreDistinct
      <4> QED BY <1>3, <4>1 DEF Told
    <3>3. CASE i # 1
      <4>1. i - 1 \in DOMAIN queue'[Default] /\ queue'[Default][i - 1] = n
        BY <1>1, <1>2, <1>3, <3>1, <3>3
      <4> QED BY <4>1 DEF Told
    <3> QED BY <3>2, <3>3
  <2> QED BY <1>1, <1>3, <2>1 DEF Told
<1> HIDE DEF t
<1>5. /\ GroupIsBound' /\ SnapIsRight' /\ DbIsRight' /\ TwiceIsDead' /\ RowsAreKnown'
      /\ HandIsRight' /\ WorkIsRight' /\ ~Updating'
  BY <1>3, NotUpdating
<1>6. Affected' = {} /\ Affected = {}
  BY <1>1, <1>3, <1>5 DEF Affected, Updating, Inserting
<1>7. CurIsNet' /\ ClearedIsExcused' /\ RequestsAreSound'
  BY <1>3, ThreadKeeps DEF SyncInv, CurIsNet, ClearedIsExcused
<1>8. TablesAreSound'
  BY <1>3 DEF SyncInv, TablesAreSound, FlowOf
<1>9. \A n \in Nets : (Calm(n)' => Calm(n) /\ Wanted(n)' = Wanted(n)) /\ (Bare(n)' => Bare(n))
  BY <1>3, <1>4, ThreadKeeps DEF Calm, Bare, BoundTogether
<1>10. Settled'
  BY <1>3, <1>6, <1>9, StaysSettled DEF SyncInv
<1> QED BY <1>5, <1>7, <1>8, <1>10 DEF SyncInv

LEMMA ReadNetsSync ==
  ASSUME Ofcs = {Default}, OneLevel, TypeInv, SyncInv, ReadNets(Default)
  PROVE  SyncInv'
<1> USE DEF dbVars, planVars, histVars, Goto
<1>1. PICK k \in Nets : k = cur[Default]
  BY DEF SyncInv, CurIsNet, ReadNets
<1>2. PICK found \in SUBSET Nets :
        found = IF k \in netAlive THEN BoundTogether(k) \cap netAlive ELSE {}
  BY <1>1, BindsAreGroups
<1>3. /\ pc[Default] = "nets" /\ pc'[Default] = "ports"
      /\ group'[Default] = found /\ toRead'[Default] = found
      /\ upNets'[Default] = {n \in found : netUp[n]}
      /\ snap'[Default] = NoPorts /\ db'[Default] = NoNames
      /\ missed' = (missed \ found) \cup IF k \in netAlive THEN {} ELSE BoundTogether(k) \ {k}
      /\ UNCHANGED <<netStatus, netAlive, netUp, portNet, request, toQueue, excused, rows, rules, queue, cur>>
  <2>1. /\ group \in [Ofcs -> SUBSET Nets] /\ toRead \in [Ofcs -> SUBSET Nets]
        /\ upNets \in [Ofcs -> SUBSET Nets] /\ snap \in [Ofcs -> Snapshots]
        /\ db \in [Ofcs -> [Names -> FlowOrNone]] /\ pc \in [Ofcs -> Steps] /\ Default \in Ofcs
    BY TopologyIsTyped DEF TypeInv, TypeOK, ReadTyped, PlanTyped
  <2> QED BY <1>1, <1>2, <2>1 DEF ReadNets
<1>4. k \in BoundTogether(k) /\ found \subseteq BoundTogether(k) /\ (k \in netAlive => k \in found)
  BY <1>2, BindsAreGroups
<1>5. Updating' /\ Affected' = found \cup {k} /\ Affected = {}
  BY <1>1, <1>3 DEF Affected, Updating, Inserting
<1>6. CurIsNet' /\ ClearedIsExcused' /\ RequestsAreSound' /\ TablesAreSound'
  BY <1>1, <1>3, ThreadKeeps DEF SyncInv, CurIsNet, ClearedIsExcused, TablesAreSound, FlowOf
<1>7. BoundTogether(cur[Default])' = BoundTogether(k)
  BY <1>1, <1>3 DEF BoundTogether, BindId
<1>8. GroupIsBound'
  BY <1>1, <1>2, <1>3, <1>4, <1>7 DEF GroupIsBound, NoPorts
<1>9. SnapIsRight'
  <2>1. \A m \in found : ~WasRead(m)'
    BY <1>3 DEF WasRead
  <2>2. \A n \in found \cup {k} : n \in Nets
    BY <1>1, <1>2
  <2> QED BY <1>1, <1>3, <2>1, <2>2 DEF SnapIsRight, NoPorts
<1>10. DbIsRight' /\ TwiceIsDead' /\ RowsAreKnown' /\ HandIsRight' /\ WorkIsRight'
  <2>1. Known(Default)' = {}
    BY <1>3 DEF Known, NoNames
  <2> QED
    BY <1>3, <2>1 DEF DbIsRight, TwiceIsDead, RowsAreKnown, HandIsRight, WorkIsRight, Inserting
<1>11. \A n \in Nets \ {k} : Told(n)' <=> Told(n)
  BY <1>1, <1>3 DEF Told
<1>12. ASSUME NEW n \in Nets \ (Affected' \cup missed')
       PROVE  /\ n \notin missed
              /\ Calm(n)' => Calm(n) /\ Wanted(n)' = Wanted(n)
              /\ Bare(n)' => Bare(n)
  <2>1. n \notin found /\ n # k /\ n \notin missed
    BY <1>3, <1>5
  <2>2. Bare(n)' => Bare(n)
    BY <1>3, <1>11, <2>1, ThreadKeeps DEF Bare
  <2>3. ASSUME Calm(n)' PROVE Calm(n)
    <3>1. n \in netAlive /\ n \notin BoundTogether(k)
      BY <1>2, <1>3, <2>1, <2>3 DEF Calm
    <3>2. k \notin BoundTogether(n) /\ BoundTogether(n) \subseteq Nets
      BY <1>4, <3>1, BindsAreGroups
    <3> QED BY <1>11, <2>1, <2>3, <3>1, <3>2 DEF Calm
  <2> QED BY <1>3, <2>1, <2>2, <2>3, ThreadKeeps
<1>13. Settled'
  BY <1>3, <1>5, <1>12, StaysSettled DEF SyncInv
<1> QED BY <1>6, <1>8, <1>9, <1>10, <1>13 DEF SyncInv

\* A step within an update: it touches only the rows and rules of the networks
\* it works for, and of networks that are gone.
LEMMA UpdateStep ==
  ASSUME OneLevel, SyncInv, Updating, Updating',
         UNCHANGED <<netStatus, netAlive, netUp, portNet, request, toQueue, queue, missed, excused, cur,
                     group>>,
         \A nm \in Names : nm[1] \notin Affected =>
           /\ nm[1] \in netAlive => rows'[nm] = rows[nm] /\ rules'[Default][nm] = rules[Default][nm]
           /\ rows[nm] = NoFlow => rows'[nm] = NoFlow
  PROVE  /\ RequestsAreSound' /\ CurIsNet' /\ ClearedIsExcused' /\ Settled'
         /\ Affected' = Affected
         /\ \A n : /\ Told(n)' <=> Told(n)
                   /\ Calm(n)' <=> Calm(n)
                   /\ Bare(n)' <=> Bare(n)
                   /\ Attached(n)' = Attached(n)
                   /\ SeenNow(n)' = SeenNow(n)
         /\ cur[Default] \in Nets /\ group[Default] \subseteq Nets
<1>1. /\ pc[Default] \notin {"nets", "idle", "clear", "clearrows"}
      /\ pc'[Default] \notin {"nets", "idle", "clear", "clearrows"}
  BY DEF Updating, Inserting
<1>2. cur[Default] \in Nets /\ CurIsNet' /\ ClearedIsExcused' /\ RequestsAreSound'
  BY <1>1, ThreadKeeps DEF SyncInv, CurIsNet, ClearedIsExcused
<1>3. Affected' = Affected /\ group[Default] \subseteq Affected
  BY DEF Affected
<1>4. group[Default] \subseteq Nets
  BY <1>3, AffectedIsBound
<1>5. \A n : /\ Told(n)' <=> Told(n)
             /\ Calm(n)' <=> Calm(n)
             /\ Bare(n)' <=> Bare(n)
             /\ Attached(n)' = Attached(n)
             /\ SeenNow(n)' = SeenNow(n)
             /\ Wanted(n)' = Wanted(n)
  BY <1>1, QuietThread, ThreadKeeps
<1>6. Settled'
  <2>1. \A n \in Nets : Calm(n) => n \in netAlive
    BY DEF Calm
  <2> QED BY <1>3, <1>5, <2>1, StaysSettled DEF SyncInv
<1> QED BY <1>2, <1>3, <1>4, <1>5, <1>6

LEMMA ReadPortsSync ==
  ASSUME Ofcs = {Default}, OneLevel, TypeInv, SyncInv, ReadPorts(Default)
  PROVE  SyncInv'
<1> USE DEF dbVars, planVars, histVars, httpVars, Goto
<1>1. PICK k \in toRead[Default] :
        /\ snap' = [snap EXCEPT ![Default][k] = IF k \in upNets[Default] THEN Attached(k) ELSE {}]
        /\ reading' = [reading EXCEPT ![Default] = k]
  BY DEF ReadPorts
<1>2. /\ pc[Default] = "ports" /\ pc'[Default] = "flows" /\ reading'[Default] = k
      /\ \A m \in Nets : snap'[Default][m] =
           IF m = k THEN IF k \in upNets[Default] THEN Attached(k) ELSE {} ELSE snap[Default][m]
      /\ UNCHANGED <<netStatus, netAlive, netUp, portNet, request, toQueue, excused, missed, rows, rules,
                     queue, cur, group, toRead, upNets, db>>
  <2>1. /\ snap \in [Ofcs -> Snapshots] /\ toRead \in [Ofcs -> SUBSET Nets]
        /\ reading \in [Ofcs -> Nets \cup {NoNet}] /\ pc \in [Ofcs -> Steps] /\ Default \in Ofcs
    BY TopologyIsTyped DEF TypeInv, TypeOK, ReadTyped, PlanTyped
  <2> QED BY <1>1, <2>1 DEF ReadPorts, Snapshots
<1>3. Updating /\ Updating' /\ GroupIsBound /\ SnapIsRight
  BY <1>2 DEF Updating, SyncInv
<1>4. /\ RequestsAreSound' /\ CurIsNet' /\ ClearedIsExcused' /\ Settled'
      /\ Affected' = Affected
      /\ \A n : /\ Told(n)' <=> Told(n)
                /\ Calm(n)' <=> Calm(n)
                /\ Bare(n)' <=> Bare(n)
                /\ Attached(n)' = Attached(n)
                /\ SeenNow(n)' = SeenNow(n)
      /\ cur[Default] \in Nets /\ group[Default] \subseteq Nets
  BY <1>2, <1>3, UpdateStep
<1>5. k \in group[Default] /\ k \in Nets
  BY <1>3, <1>4 DEF GroupIsBound
<1>6. TablesAreSound' /\ TwiceIsDead' /\ HandIsRight' /\ WorkIsRight'
  BY <1>2 DEF SyncInv, TablesAreSound, FlowOf, TwiceIsDead, HandIsRight, WorkIsRight, Inserting
<1>7. BoundTogether(cur[Default])' = BoundTogether(cur[Default])
  BY <1>2 DEF BoundTogether, BindId
<1>8. GroupIsBound'
  BY <1>2, <1>3, <1>5, <1>7 DEF GroupIsBound
<1>9. SnapIsRight'
  <2>1. \A m \in group[Default] : WasRead(m)' <=> (WasRead(m) \/ m = k)
    BY <1>1, <1>2, <1>5 DEF WasRead
  <2>2. ~WasRead(k)
    BY <1>2 DEF WasRead
  <2>3. ASSUME NEW n \in group[Default], Calm(n), NEW m \in group[Default]
        PROVE  IF WasRead(m)' THEN snap'[Default][m] = SeenNow(m)
               ELSE Attached(m) = {} \/ (m \in upNets[Default] <=> netUp[m])
    <3>1. IF WasRead(m) THEN snap[Default][m] = SeenNow(m)
          ELSE Attached(m) = {} \/ (m \in upNets[Default] <=> netUp[m])
      BY <1>3, <2>3 DEF SnapIsRight
    <3>2. CASE m # k
      BY <1>2, <1>4, <2>1, <3>1, <3>2
    <3>3. CASE m = k
      <4>1. snap'[Default][m] = SeenNow(m)
        BY <1>2, <1>5, <2>2, <3>1, <3>3 DEF SeenNow
      <4> QED BY <2>1, <3>3, <4>1
    <3> QED BY <3>2, <3>3
  <2>4. ASSUME NEW n \in group[Default] \cup {cur[Default]}, Bare(n) PROVE snap'[Default][n] = {}
    BY <1>2, <1>3, <1>4, <2>4 DEF SnapIsRight, Bare
  <2> QED BY <1>2, <1>4, <2>3, <2>4 DEF SnapIsRight
<1>10. DbIsRight' /\ RowsAreKnown'
  BY <1>2, <1>3 DEF SyncInv, DbIsRight, RowsAreKnown, Known, Inserting
<1> QED BY <1>4, <1>6, <1>8, <1>9, <1>10 DEF SyncInv

\* What is known of the rows after some were read.
LEMMA SelectIsRight ==
  ASSUME Ofcs = {Default}, TypeInv, SyncInv, Updating, Updating',
         NEW ns, Select(Default, RowsOf(ns)),
         UNCHANGED <<netAlive, rows, group>>,
         ns = NoNet \/ ns \in group[Default]
  PROVE  /\ DbIsRight'
         /\ \A nm \in Names : nm \in Known(Default)' <=> nm \in Known(Default) \/ nm \in RowsOf(ns)
<1>1. /\ db \in [Ofcs -> [Names -> FlowOrNone]] /\ Default \in Ofcs /\ rows \in [Names -> FlowOrNone]
      /\ NoNet \notin Nets
  BY TopologyIsTyped, SentinelsAreDistinct DEF TypeInv, TypeOK, ReadTyped, TablesTyped
<1>2. \A nm \in Names : db'[Default][nm] =
        IF nm \in RowsOf(ns) /\ nm \notin Known(Default) THEN rows[nm] ELSE db[Default][nm]
  BY <1>1 DEF Select, Known
<1>3. \A nm \in RowsOf(ns) : nm \in Names /\ rows[nm] # NoFlow /\ rows[nm].net = ns
  BY DEF RowsOf
<1>4. \A nm \in Names : nm \in Known(Default)' <=> nm \in Known(Default) \/ nm \in RowsOf(ns)
  BY <1>2, <1>3 DEF Known
<1>5. ASSUME NEW nm \in RowsOf(ns)
      PROVE  /\ nm[1] \in group[Default] \cup (Nets \ netAlive)
             /\ rows[nm].net \in {nm[1], NoNet}
             /\ rows[nm].net = NoNet => nm[1] \notin netAlive
             /\ \E s \in Snapshots :
                  [net |-> nm[1], match |-> rows[nm].match, vlan |-> rows[nm].vlan] \in NetFlows(s)
  <2>1. nm \in Names /\ nm[1] \in Nets
    BY DEF RowsOf, Names
  <2>2. rows[nm].net = IF nm[1] \in netAlive THEN nm[1] ELSE NoNet
    BY <1>3, <2>1 DEF SyncInv, TablesAreSound
  <2>3. \E s \in Snapshots : FlowOf(nm) \in NetFlows(s)
    BY <1>3, <2>1 DEF SyncInv, TablesAreSound
  <2>4. netAlive \subseteq Nets
    BY DEF TypeInv, TypeOK, TablesTyped
  <2> QED BY <1>1, <1>3, <2>1, <2>2, <2>3, <2>4 DEF FlowOf
<1>6. DbIsRight'
  <2>1. ASSUME NEW nm \in Known(Default)'
        PROVE  /\ nm[1] \in group[Default] \cup (Nets \ netAlive)
               /\ db'[Default][nm].net \in {nm[1], NoNet}
               /\ db'[Default][nm].net = NoNet => nm[1] \notin netAlive
               /\ rows[nm] # NoFlow => BodyOf(db'[Default][nm]) = BodyOf(rows[nm])
               /\ \E s \in Snapshots :
                    [net |-> nm[1], match |-> db'[Default][nm].match, vlan |-> db'[Default][nm].vlan] \in NetFlows(s)
    <3>1. nm \in Names
      BY DEF Known
    <3>2. CASE nm \in RowsOf(ns) /\ nm \notin Known(Default)
      BY <1>2, <1>5, <3>1, <3>2
    <3>3. CASE ~(nm \in RowsOf(ns) /\ nm \notin Known(Default))
      <4>1. nm \in Known(Default) /\ db'[Default][nm] = db[Default][nm]
        BY <1>2, <1>4, <3>1, <3>3
      <4> QED BY <4>1 DEF SyncInv, DbIsRight
    <3> QED BY <3>2, <3>3
  <2> QED BY <2>1 DEF DbIsRight
<1> QED BY <1>4, <1>6

LEMMA ReadFlowsSync ==
  ASSUME Ofcs = {Default}, OneLevel, TypeInv, SyncInv, ReadFlows(Default)
  PROVE  SyncInv'
<1> USE DEF dbVars, planVars, histVars, httpVars, Goto
<1>1. PICK k : k = reading[Default]
  OBVIOUS
<1>2. /\ pc[Default] = "flows" /\ pc'[Default] = "ports" /\ Select(Default, RowsOf(k))
      /\ toRead'[Default] = toRead[Default] \ {k}
      /\ UNCHANGED <<netStatus, netAlive, netUp, portNet, request, toQueue, excused, missed, rows, rules,
                     queue, cur, group, upNets, snap, reading>>
  <2>1. toRead \in [Ofcs -> SUBSET Nets] /\ pc \in [Ofcs -> Steps] /\ Default \in Ofcs
    BY TopologyIsTyped DEF TypeInv, TypeOK, ReadTyped, PlanTyped
  <2> QED BY <1>1, <2>1 DEF ReadFlows
<1>3. Updating /\ Updating' /\ GroupIsBound /\ SnapIsRight
  BY <1>2 DEF Updating, SyncInv
<1>4. /\ RequestsAreSound' /\ CurIsNet' /\ ClearedIsExcused' /\ Settled'
      /\ Affected' = Affected
      /\ \A n : /\ Told(n)' <=> Told(n)
                /\ Calm(n)' <=> Calm(n)
                /\ Bare(n)' <=> Bare(n)
                /\ Attached(n)' = Attached(n)
                /\ SeenNow(n)' = SeenNow(n)
      /\ cur[Default] \in Nets /\ group[Default] \subseteq Nets
  BY <1>2, <1>3, UpdateStep
<1>5. k \in toRead[Default] /\ k \in group[Default]
  BY <1>1, <1>2, <1>3 DEF GroupIsBound
<1>6. TablesAreSound' /\ TwiceIsDead' /\ HandIsRight' /\ WorkIsRight'
  BY <1>2 DEF SyncInv, TablesAreSound, FlowOf, TwiceIsDead, HandIsRight, WorkIsRight, Inserting
<1>7. BoundTogether(cur[Default])' = BoundTogether(cur[Default])
  BY <1>2 DEF BoundTogether, BindId
<1>8. GroupIsBound'
  BY <1>2, <1>3, <1>7 DEF GroupIsBound
<1>9. SnapIsRight'
  <2>1. \A m : WasRead(m)' <=> WasRead(m)
    BY <1>1, <1>2 DEF WasRead
  <2> QED BY <1>2, <1>3, <1>4, <2>1 DEF SnapIsRight
<1>10. /\ DbIsRight'
       /\ \A nm \in Names : nm \in Known(Default)' <=> nm \in Known(Default) \/ nm \in RowsOf(k)
  BY <1>2, <1>3, <1>5, SelectIsRight
<1>11. RowsAreKnown'
  <2>1. ASSUME NEW nm \in Names, rows[nm] # NoFlow,
                 nm[1] \in (group[Default] \ toRead'[Default]) \cap netAlive
        PROVE  nm \in Known(Default)'
    <3>1. CASE nm[1] = k
      <4>1. rows[nm].net = k
        BY <2>1, <3>1 DEF SyncInv, TablesAreSound
      <4> QED BY <1>10, <2>1, <4>1 DEF RowsOf
    <3>2. CASE nm[1] # k
      BY <1>2, <1>10, <2>1, <3>2 DEF SyncInv, RowsAreKnown
    <3> QED BY <3>1, <3>2
  <2> QED BY <1>2, <2>1 DEF RowsAreKnown, Inserting
<1> QED BY <1>4, <1>6, <1>8, <1>9, <1>10, <1>11 DEF SyncInv

LEMMA ReadNullFlowsSync ==
  ASSUME Ofcs = {Default}, OneLevel, TypeInv, SyncInv, ReadNullFlows(Default)
  PROVE  SyncInv'
<1> USE DEF dbVars, planVars, histVars, httpVars, Goto
<1>2. /\ pc[Default] = "ports" /\ pc'[Default] = "rules" /\ Select(Default, RowsOf(NoNet))
      /\ toRead[Default] = {} /\ again'[Default] \subseteq RowsOf(NoNet)
      /\ UNCHANGED <<netStatus, netAlive, netUp, portNet, request, toQueue, excused, missed, rows,
                     rules, queue, cur, group, upNets, snap, reading, toRead>>
  <2>1. pc \in [Ofcs -> Steps] /\ again \in [Ofcs -> SUBSET Names] /\ Default \in Ofcs
    BY TopologyIsTyped DEF TypeInv, TypeOK, PlanTyped
  <2> QED BY <2>1 DEF ReadNullFlows
<1>3. Updating /\ Updating' /\ GroupIsBound /\ SnapIsRight
  BY <1>2 DEF Updating, SyncInv
<1>4. /\ RequestsAreSound' /\ CurIsNet' /\ ClearedIsExcused' /\ Settled'
      /\ Affected' = Affected
      /\ \A n : /\ Told(n)' <=> Told(n)
                /\ Calm(n)' <=> Calm(n)
                /\ Bare(n)' <=> Bare(n)
                /\ Attached(n)' = Attached(n)
                /\ SeenNow(n)' = SeenNow(n)
      /\ cur[Default] \in Nets /\ group[Default] \subseteq Nets
  BY <1>2, <1>3, UpdateStep
<1>5. TablesAreSound' /\ HandIsRight' /\ WorkIsRight'
  BY <1>2 DEF SyncInv, TablesAreSound, FlowOf, HandIsRight, WorkIsRight, Inserting
<1>6. BoundTogether(cur[Default])' = BoundTogether(cur[Default])
  BY <1>2 DEF BoundTogether, BindId
<1>7. GroupIsBound'
  BY <1>2, <1>3, <1>6 DEF GroupIsBound
<1>8. SnapIsRight'
  <2>1. \A m : WasRead(m)' <=> WasRead(m)
    BY <1>2 DEF WasRead
  <2> QED BY <1>2, <1>3, <1>4, <2>1 DEF SnapIsRight
<1>9. /\ DbIsRight'
      /\ \A nm \in Names : nm \in Known(Default)' <=> nm \in Known(Default) \/ nm \in RowsOf(NoNet)
  BY <1>2, <1>3, SelectIsRight
<1>10. RowsAreKnown'
  <2>1. ASSUME NEW nm \in Names, rows[nm] # NoFlow, nm[1] \in Affected
        PROVE  nm \in Known(Default)'
    <3>1. CASE nm[1] \in netAlive
      <4>1. nm[1] \in group[Default]
        BY <1>3, <2>1, <3>1 DEF Affected, GroupIsBound
      <4> QED BY <1>2, <1>9, <2>1, <3>1, <4>1 DEF SyncInv, RowsAreKnown
    <3>2. CASE nm[1] \notin netAlive
      <4>1. rows[nm].net = NoNet
        BY <2>1, <3>2 DEF SyncInv, TablesAreSound
      <4> QED BY <1>9, <2>1, <4>1 DEF RowsOf
    <3> QED BY <3>1, <3>2
  <2> QED BY <1>2, <1>4, <2>1 DEF RowsAreKnown, Inserting
<1>11. TwiceIsDead'
  <2>1. ASSUME NEW nm \in again'[Default] PROVE nm[1] \notin netAlive
    <3>1. nm \in Names /\ nm[1] \in Nets /\ rows[nm] # NoFlow /\ rows[nm].net = NoNet
      BY <1>2, <2>1 DEF RowsOf, Names
    <3> QED BY <3>1, SentinelsAreDistinct DEF SyncInv, TablesAreSound
  <2> QED BY <1>2, <2>1 DEF TwiceIsDead, Inserting
<1> QED BY <1>4, <1>5, <1>7, <1>8, <1>9, <1>10, <1>11 DEF SyncInv

LEMMA GiveUpSync ==
  ASSUME Ofcs = {Default}, OneLevel, TypeInv, SyncInv, ReadFails(Default) \/ Refuse(Default)
  PROVE  SyncInv'
<1>1. GiveUp(Default) /\ pc[Default] \in {"nets", "ports", "flows", "rules"}
  BY DEF ReadFails, Refuse
<1>2. /\ UNCHANGED <<netStatus, netAlive, netUp, portNet, request, toQueue, queue, missed, excused, cur,
                     rows, rules>>
      /\ pc'[Default] = "report" /\ ~ok'[Default]
  BY <1>1, TopologyIsTyped DEF GiveUp, Goto, TypeInv, TypeOK, PlanTyped, dbVars, readVars, httpVars
<1>3. TablesAreSound'
  BY <1>2 DEF SyncInv, TablesAreSound, FlowOf
<1> QED BY <1>1, <1>2, <1>3, FailedSync

\* A row that is kept is one of the flows computed.
LEMMA KeptIsRight ==
  ASSUME VlanIsMatched, TypeInv, SyncInv, ReadRowsExist, pc[Default] = "rules", Default \in Ofcs,
         NEW f \in NetFlows(snap[Default]), NEW nm \in Equal(Default, f)
  PROVE  /\ nm \in Known(Default) /\ nm \in Names /\ rows[nm] # NoFlow
         /\ nm[1] = f.net
         /\ FlowOf(nm) = f
         /\ f.net \in netAlive => rows[nm] = f
<1>1. /\ snap[Default] \in Snapshots /\ f \in Flow /\ f.net \in Nets
      /\ rows \in [Names -> FlowOrNone] /\ NoNet \notin Nets
  BY NetFlowsIsTyped, SentinelsAreDistinct DEF TypeInv, TypeOK, ReadTyped, TablesTyped
<1>2. /\ nm \in Known(Default) /\ nm \in Names /\ AlreadyPresent(f, db[Default][nm])
      /\ db[Default][nm] # NoFlow
  BY DEF Equal, Known
<1>3. rows[nm] # NoFlow /\ rows[nm] \in Flow
  BY <1>1, <1>2 DEF ReadRowsExist, FlowOrNone
<1>4. PICK g : g = [net |-> nm[1], match |-> db[Default][nm].match, vlan |-> db[Default][nm].vlan]
  OBVIOUS
<1>5. /\ db[Default][nm].net \in {nm[1], NoNet}
      /\ BodyOf(db[Default][nm]) = BodyOf(rows[nm])
      /\ \E s \in Snapshots : g \in NetFlows(s)
  BY <1>2, <1>3, <1>4 DEF SyncInv, DbIsRight, Updating
<1>6. nm[1] = f.net /\ f.match = db[Default][nm].match
  BY <1>1, <1>2, <1>5 DEF AlreadyPresent
<1>7. AlreadyPresent(f, g)
  BY <1>4, <1>6 DEF AlreadyPresent
<1>8. f = g
  BY <1>1, <1>5, <1>7 DEF VlanIsMatched
<1>9. rows[nm].match = db[Default][nm].match /\ rows[nm].vlan = db[Default][nm].vlan
  BY <1>5 DEF BodyOf
<1>10. FlowOf(nm) = f
  BY <1>4, <1>8, <1>9 DEF FlowOf
<1>11. ASSUME f.net \in netAlive PROVE rows[nm] = f
  <2>1. rows[nm].net = nm[1]
    BY <1>2, <1>3, <1>6, <1>11 DEF SyncInv, TablesAreSound
  <2> QED BY <1>3, <1>10, <2>1 DEF FlowOf, Flow
<1> QED BY <1>2, <1>3, <1>6, <1>10, <1>11

LEMMA ReadRulesSync ==
  ASSUME Ofcs = {Default}, OneLevel, VlanIsMatched, TypeInv, ReadRowsExist, SyncInv,
         ReadRules(Default)
  PROVE  SyncInv'
<1> USE DEF dbVars, histVars, httpVars, Goto
<1>1. PICK flows : flows = NetFlows(snap[Default])
  OBVIOUS
<1>2. PICK found : found = {nm \in Names : rules[Default][nm] # NoFlow}
  OBVIOUS
<1>3. PICK kept : kept = {CHOOSE nm \in Equal(Default, f) : TRUE : f \in
                            {g \in flows : Equal(Default, g) # {}}}
  OBVIOUS
<1>4. /\ pc[Default] = "rules" /\ pc'[Default] = "insert"
      /\ new'[Default] = {f \in flows : Equal(Default, f) = {}}
      /\ keep'[Default] = kept
      /\ prune'[Default] = Known(Default) \ (kept \cap found)
      /\ UNCHANGED <<netStatus, netAlive, netUp, portNet, request, toQueue, excused, missed, rows, rules,
                     queue, cur, group, upNets, snap, reading, toRead, db, clean, ok, again>>
  <2>1. /\ pc \in [Ofcs -> Steps] /\ new \in [Ofcs -> SUBSET {f \in Flow : f.net \in Nets}]
        /\ keep \in [Ofcs -> SUBSET Names] /\ prune \in [Ofcs -> SUBSET Names] /\ Default \in Ofcs
    BY TopologyIsTyped DEF TypeInv, TypeOK, PlanTyped
  <2> QED BY <1>1, <1>2, <1>3, <2>1 DEF ReadRules
<1>5. Updating /\ Updating' /\ GroupIsBound /\ SnapIsRight
  BY <1>4 DEF Updating, SyncInv, Inserting
<1>6. /\ RequestsAreSound' /\ CurIsNet' /\ ClearedIsExcused' /\ Settled'
      /\ Affected' = Affected
      /\ \A n : /\ Told(n)' <=> Told(n)
                /\ Calm(n)' <=> Calm(n)
                /\ Bare(n)' <=> Bare(n)
                /\ Attached(n)' = Attached(n)
                /\ SeenNow(n)' = SeenNow(n)
      /\ cur[Default] \in Nets /\ group[Default] \subseteq Nets
  BY <1>4, <1>5, UpdateStep
<1>7. TablesAreSound'
  BY <1>4 DEF SyncInv, TablesAreSound, FlowOf
<1>8. GroupIsBound' /\ SnapIsRight'
  <2>1. BoundTogether(cur[Default])' = BoundTogether(cur[Default])
    BY <1>4 DEF BoundTogether, BindId
  <2>2. \A m : WasRead(m)' <=> WasRead(m)
    BY <1>4 DEF WasRead
  <2> QED BY <1>4, <1>5, <1>6, <2>1, <2>2 DEF GroupIsBound, SnapIsRight
<1>9. Known(Default)' = Known(Default)
  BY <1>4 DEF Known
<1>10. DbIsRight' /\ RowsAreKnown'
  BY <1>4, <1>5, <1>6, <1>9 DEF SyncInv, DbIsRight, RowsAreKnown, Inserting
<1>11. HandIsRight' /\ TwiceIsDead'
  BY <1>1, <1>4 DEF SyncInv, HandIsRight, TwiceIsDead, Inserting
<1>12. \A nm \in Names :
         (Going(nm)' <=> nm \in prune'[Default] \ kept) /\ (FlowOf(nm)' = FlowOf(nm))
  BY <1>4 DEF Going, FlowOf
<1>13. ASSUME NEW f \in flows, f.net \in netAlive
       PROVE  \/ f \in new'[Default]
              \/ \E nm \in Names : nm[1] = f.net /\ rows'[nm] = f /\ ~Going(nm)'
  <2>1. CASE Equal(Default, f) = {}
    BY <1>4, <2>1
  <2>2. CASE Equal(Default, f) # {}
    <3>1. PICK nm : nm = CHOOSE k \in Equal(Default, f) : TRUE
      OBVIOUS
    <3>2. nm \in Equal(Default, f) /\ nm \in kept
      BY <1>3, <2>2, <3>1
    <3>3. nm \in Names /\ nm[1] = f.net /\ rows[nm] = f
      BY <1>1, <1>4, <1>13, <3>2, KeptIsRight, TopologyIsTyped
    <3> QED BY <1>4, <1>12, <3>2, <3>3
  <2> QED BY <2>1, <2>2
<1>14. ASSUME NEW nm \in Names, rows[nm] # NoFlow, nm[1] \in Affected, ~Going(nm)'
       PROVE  FlowOf(nm) \in flows /\ (nm \in prune'[Default] \/ rules[Default][nm] # NoFlow)
  <2>1. nm \in Known(Default)
    BY <1>4, <1>14 DEF SyncInv, RowsAreKnown
  <2>2. nm \in kept
    BY <1>4, <1>12, <1>14, <2>1
  <2>3. PICK f \in flows : Equal(Default, f) # {} /\ nm = CHOOSE k \in Equal(Default, f) : TRUE
    BY <1>3, <2>2
  <2>4. nm \in Equal(Default, f)
    BY <2>3
  <2>5. FlowOf(nm) = f
    BY <1>1, <1>4, <2>4, KeptIsRight, TopologyIsTyped
  <2>6. nm \in prune'[Default] \/ nm \in found
    BY <1>4, <2>1
  <2> QED BY <1>2, <2>5, <2>6
<1>15. WorkIsRight'
  <2> SUFFICES /\ \A f \in flows : f.net \in netAlive =>
                    \/ f \in new'[Default]
                    \/ \E nm \in Names : nm[1] = f.net /\ rows'[nm] = f /\ ~Going(nm)'
               /\ \A nm \in Names : rows[nm] # NoFlow /\ nm[1] \in Affected /\ ~Going(nm)' =>
                    FlowOf(nm) \in flows /\ (nm \in prune'[Default] \/ rules[Default][nm] # NoFlow)
    BY <1>1, <1>4, <1>6, <1>12 DEF WorkIsRight
  <2> QED BY <1>13, <1>14
<1> QED BY <1>6, <1>7, <1>8, <1>10, <1>11, <1>15 DEF SyncInv

\* A step of an update that has read all it needs.
LEMMA WritingStep ==
  ASSUME OneLevel, SyncInv, pc[Default] \in Inserting,
         pc'[Default] \in Inserting \/ (pc'[Default] = "report" /\ ok'[Default]),
         UNCHANGED <<netStatus, netAlive, netUp, portNet, request, toQueue, queue, missed, excused, cur, group,
                     upNets, toRead, snap, db>>,
         again'[Default] \subseteq again[Default], pc'[Default] = "report" => again'[Default] = {},
         \A nm \in Names : nm[1] \notin Affected =>
           /\ nm[1] \in netAlive => rows'[nm] = rows[nm] /\ rules'[Default][nm] = rules[Default][nm]
           /\ rows[nm] = NoFlow => rows'[nm] = NoFlow,
         \A nm \in Known(Default) : rows'[nm] # NoFlow => rows'[nm] = rows[nm]
  PROVE  /\ RequestsAreSound' /\ CurIsNet' /\ ClearedIsExcused' /\ Settled'
         /\ GroupIsBound' /\ SnapIsRight' /\ DbIsRight' /\ TwiceIsDead'
         /\ Affected' = Affected
         /\ Known(Default)' = Known(Default)
<1>1. Updating /\ Updating'
  BY DEF Updating
<1>2. /\ RequestsAreSound' /\ CurIsNet' /\ ClearedIsExcused' /\ Settled'
      /\ Affected' = Affected
      /\ \A n : /\ Told(n)' <=> Told(n)
                /\ Calm(n)' <=> Calm(n)
                /\ Bare(n)' <=> Bare(n)
                /\ Attached(n)' = Attached(n)
                /\ SeenNow(n)' = SeenNow(n)
      /\ cur[Default] \in Nets /\ group[Default] \subseteq Nets
  BY <1>1, UpdateStep
<1>3. GroupIsBound'
  <2>1. BoundTogether(cur[Default])' = BoundTogether(cur[Default])
    BY DEF BoundTogether, BindId
  <2> QED BY <1>1, <2>1 DEF SyncInv, GroupIsBound, Inserting
<1>4. SnapIsRight'
  <2>1. toRead[Default] = {}
    BY <1>1 DEF SyncInv, GroupIsBound, Inserting
  <2>2. \A m : WasRead(m)' <=> WasRead(m)
    BY <2>1 DEF WasRead
  <2> QED BY <1>1, <1>2, <2>2 DEF SyncInv, SnapIsRight
<1>5. Known(Default)' = Known(Default)
  BY DEF Known
<1>6. DbIsRight' /\ TwiceIsDead'
  BY <1>1, <1>5 DEF SyncInv, DbIsRight, TwiceIsDead, Inserting
<1> QED BY <1>2, <1>3, <1>4, <1>5, <1>6

\* The flows that are computed are of networks that were read.
LEMMA FlowsAreOfGroup ==
  ASSUME TypeInv, SyncInv, pc[Default] \in Inserting, Default \in Ofcs,
         NEW f \in NetFlows(snap[Default])
  PROVE  f \in Flow /\ f.net \in Nets /\ f.net \in group[Default] /\ f.net \in Affected
<1>1. snap[Default] \in Snapshots
  BY DEF TypeInv, TypeOK, ReadTyped
<1>2. f \in Flow /\ f.net \in Nets /\ snap[Default][f.net] # {}
  BY <1>1, NetFlowsIsTyped, FlowsHaveSource
<1>3. Updating
  BY DEF Updating
<1> QED BY <1>2, <1>3 DEF SyncInv, GroupIsBound, Affected

LEMMA NewFlowSync ==
  ASSUME Ofcs = {Default}, OneLevel, TypeInv, SyncInv, NewFlow(Default)
  PROVE  SyncInv'
<1> USE DEF dbVars, httpVars, readVars, Goto, SetRule
<1>1. /\ pc \in [Ofcs -> Steps] /\ Default \in Ofcs
      /\ new \in [Ofcs -> SUBSET {f \in Flow : f.net \in Nets}]
      /\ hand \in [Ofcs -> NameOrNone] /\ handFlow \in [Ofcs -> FlowOrNone]
      /\ ok \in [Ofcs -> BOOLEAN]
      /\ rules \in [Ofcs -> [Names -> Body \cup {NoFlow}]]
  BY TopologyIsTyped DEF TypeInv, TypeOK, PlanTyped, TablesTyped
<1>2. /\ pc[Default] = "insert"
      /\ UNCHANGED <<netStatus, netAlive, netUp, portNet, request, toQueue, queue, missed, excused, cur, group,
                     upNets, toRead, snap, db, rows, keep, prune, clean, again>>
  BY DEF NewFlow
<1>3. PICK f \in new[Default], x \in Names :
        /\ x[1] = f.net /\ x \notin Known(Default) /\ rules[Default][x] = NoFlow
        /\ \/ /\ rules' = [rules EXCEPT ![Default][x] = BodyOf(f)]
              /\ new' = [new EXCEPT ![Default] = @ \ {f}]
              /\ hand' = [hand EXCEPT ![Default] = x]
              /\ handFlow' = [handFlow EXCEPT ![Default] = f]
              /\ pc' = [pc EXCEPT ![Default] = "row"]
              /\ UNCHANGED ok
           \/ /\ rules' \in {rules, [rules EXCEPT ![Default][x] = BodyOf(f)]}
              /\ ok' = [ok EXCEPT ![Default] = FALSE]
              /\ pc' = [pc EXCEPT ![Default] = "report"]
  <2>1. PICK f \in new[Default], i \in NameIdx :
          /\ FreshName(Default, f.net, i)
          /\ \/ /\ rules' = [rules EXCEPT ![Default][<<f.net, i>>] = BodyOf(f)]
                /\ new' = [new EXCEPT ![Default] = @ \ {f}]
                /\ hand' = [hand EXCEPT ![Default] = <<f.net, i>>]
                /\ handFlow' = [handFlow EXCEPT ![Default] = f]
                /\ pc' = [pc EXCEPT ![Default] = "row"]
                /\ UNCHANGED ok
             \/ /\ rules' \in {rules, [rules EXCEPT ![Default][<<f.net, i>>] = BodyOf(f)]}
                /\ ok' = [ok EXCEPT ![Default] = FALSE]
                /\ pc' = [pc EXCEPT ![Default] = "report"]
    BY DEF NewFlow
  <2>2. PICK x : x = <<f.net, i>>
    OBVIOUS
  <2>3. x \in Names /\ x[1] = f.net
    BY <1>1, <2>2 DEF Names
  <2>4. x \notin Known(Default) /\ rules[Default][x] = NoFlow
    BY <2>1, <2>2, <2>3 DEF FreshName
  <2> QED BY <2>1, <2>2, <2>3, <2>4
<1>4. f \in NetFlows(snap[Default])
  BY <1>2, <1>3 DEF SyncInv, HandIsRight, Inserting
<1>5. f \in Flow /\ f.net \in Affected /\ BodyOf(f) \in Body /\ BodyOf(f) # NoFlow
  BY <1>1, <1>2, <1>4, FlowsAreOfGroup, BodyIsTyped, SentinelsAreDistinct DEF Inserting
<1>6. rows[x] = NoFlow
  BY <1>2, <1>3, <1>5 DEF SyncInv, RowsAreKnown, Inserting
<1>7. /\ \A nm \in Names : nm # x => rules'[Default][nm] = rules[Default][nm]
      /\ rules'[Default][x] \in {NoFlow, BodyOf(f)}
  BY <1>1, <1>3
<1>8. TablesAreSound'
  BY <1>2, <1>6, <1>7 DEF SyncInv, TablesAreSound, FlowOf
<1>9. CASE pc'[Default] = "report" /\ ~ok'[Default]
  <2>1. f.net \in BoundTogether(cur[Default])
    BY <1>5, AffectedIsBound
  <2> QED BY <1>2, <1>3, <1>7, <1>8, <1>9, <2>1, FailedSync DEF Inserting
<1>10. CASE /\ rules' = [rules EXCEPT ![Default][x] = BodyOf(f)]
            /\ new' = [new EXCEPT ![Default] = @ \ {f}]
            /\ hand' = [hand EXCEPT ![Default] = x]
            /\ handFlow' = [handFlow EXCEPT ![Default] = f]
            /\ pc' = [pc EXCEPT ![Default] = "row"]
            /\ UNCHANGED ok
  <2>1. /\ rules'[Default][x] = BodyOf(f) /\ new'[Default] = new[Default] \ {f}
        /\ hand'[Default] = x /\ handFlow'[Default] = f /\ pc'[Default] = "row"
    BY <1>1, <1>10
  <2>2. /\ RequestsAreSound' /\ CurIsNet' /\ ClearedIsExcused' /\ Settled'
        /\ GroupIsBound' /\ SnapIsRight' /\ DbIsRight' /\ TwiceIsDead'
        /\ Affected' = Affected
        /\ Known(Default)' = Known(Default)
    BY <1>2, <1>3, <1>5, <1>7, <2>1, WritingStep DEF Inserting
  <2>3. \A nm \in Names : rules[Default][nm] # NoFlow => rules'[Default][nm] # NoFlow
    BY <1>5, <1>7, <2>1
  <2>4. RowsAreKnown'
    BY <1>2, <2>1, <2>2, <2>3 DEF SyncInv, RowsAreKnown, Inserting
  <2>5. HandIsRight'
    BY <1>2, <1>3, <1>4, <2>1, <2>2 DEF SyncInv, HandIsRight, Inserting
  <2>6. WorkIsRight'
    <3>1. \A nm \in Names : (Going(nm)' <=> Going(nm)) /\ FlowOf(nm)' = FlowOf(nm)
      BY <1>2, <2>1 DEF Going, FlowOf
    <3> QED BY <1>2, <2>1, <2>2, <2>3, <3>1 DEF SyncInv, WorkIsRight, Inserting
  <2> QED BY <1>8, <2>2, <2>4, <2>5, <2>6 DEF SyncInv
<1> QED BY <1>1, <1>3, <1>9, <1>10

LEMMA NewRowSync ==
  ASSUME Ofcs = {Default}, OneLevel, TypeInv, SyncInv, NewRow(Default)
  PROVE  SyncInv'
<1> USE DEF requestSide, httpVars, readVars, Goto
<1>1. /\ pc \in [Ofcs -> Steps] /\ Default \in Ofcs
      /\ ok \in [Ofcs -> BOOLEAN] /\ rows \in [Names -> FlowOrNone]
      /\ rules \in [Ofcs -> [Names -> Body \cup {NoFlow}]] /\ NoFlow \notin Flow \cup Body
  BY TopologyIsTyped, SentinelsAreDistinct DEF TypeInv, TypeOK, PlanTyped, TablesTyped
<1>2. PICK x \in Names, f \in Flow : x = hand[Default] /\ f = handFlow[Default]
  BY <1>1 DEF TypeInv, HandIsName, NewRow
<1>3. /\ pc[Default] = "row"
      /\ UNCHANGED <<netStatus, netAlive, netUp, portNet, request, toQueue, queue, missed, excused, cur, group,
                     upNets, toRead, snap, db, rules, new, keep, prune, clean, again>>
      /\ \/ /\ f.net \in netAlive /\ rows[x] = NoFlow
            /\ rows' = [rows EXCEPT ![x] = f]
            /\ pc' = [pc EXCEPT ![Default] = "insert"]
            /\ UNCHANGED ok
         \/ /\ ok' = [ok EXCEPT ![Default] = FALSE]
            /\ pc' = [pc EXCEPT ![Default] = "report"]
            /\ UNCHANGED rows
  BY <1>2 DEF NewRow
<1>4. /\ x[1] = f.net /\ x \notin Known(Default) /\ rules[Default][x] = BodyOf(f)
      /\ f \in NetFlows(snap[Default])
  BY <1>2, <1>3 DEF SyncInv, HandIsRight
<1>5. f.net \in Affected /\ BodyOf(f) # NoFlow /\ snap[Default] \in Snapshots
  BY <1>1, <1>3, <1>4, FlowsAreOfGroup, BodyIsTyped DEF Inserting, TypeInv, TypeOK, ReadTyped
<1>6. CASE pc' = [pc EXCEPT ![Default] = "report"] /\ ok' = [ok EXCEPT ![Default] = FALSE] /\ UNCHANGED rows
  <2>1. TablesAreSound'
    BY <1>3, <1>6 DEF SyncInv, TablesAreSound, FlowOf
  <2> QED BY <1>1, <1>3, <1>6, <2>1, FailedSync DEF Inserting
<1>7. CASE /\ f.net \in netAlive /\ rows[x] = NoFlow
           /\ rows' = [rows EXCEPT ![x] = f]
           /\ pc' = [pc EXCEPT ![Default] = "insert"]
           /\ UNCHANGED ok
  <2>1. /\ pc'[Default] = "insert" /\ rows'[x] = f /\ f # NoFlow
        /\ \A nm \in Names : nm # x => rows'[nm] = rows[nm]
    BY <1>1, <1>7
  <2>2. FlowOf(x)' = f /\ \A nm \in Names : nm # x => FlowOf(nm)' = FlowOf(nm)
    BY <1>4, <2>1 DEF FlowOf, Flow
  <2>3. TablesAreSound'
    <3>1. \A nm \in Names : rows'[nm] # NoFlow =>
            rows'[nm].net = IF nm[1] \in netAlive THEN nm[1] ELSE NoNet
      BY <1>4, <1>7, <2>1 DEF SyncInv, TablesAreSound
    <3>2. \A nm \in Names : rows'[nm] # NoFlow => \E s \in Snapshots : FlowOf(nm)' \in NetFlows(s)
      BY <1>4, <1>5, <2>1, <2>2 DEF SyncInv, TablesAreSound
    <3>3. \A nm \in Names : rows'[nm] # NoFlow /\ rules[Default][nm] # NoFlow =>
            rules[Default][nm] = BodyOf(rows'[nm])
      BY <1>4, <2>1 DEF SyncInv, TablesAreSound
    <3> QED BY <1>3, <3>1, <3>2, <3>3 DEF SyncInv, TablesAreSound
  <2>4. /\ RequestsAreSound' /\ CurIsNet' /\ ClearedIsExcused' /\ Settled'
        /\ GroupIsBound' /\ SnapIsRight' /\ DbIsRight' /\ TwiceIsDead'
        /\ Affected' = Affected
        /\ Known(Default)' = Known(Default)
    <3>1. \A nm \in Known(Default) : nm \in Names /\ nm # x
      BY <1>4 DEF Known
    <3>2. \A nm \in Names : nm[1] \notin Affected => rows'[nm] = rows[nm]
      BY <1>4, <1>5, <2>1
    <3> QED BY <1>3, <2>1, <3>1, <3>2, WritingStep DEF Inserting
  <2>5. RowsAreKnown'
    BY <1>3, <1>4, <1>5, <2>1, <2>4 DEF SyncInv, RowsAreKnown, Inserting
  <2>6. HandIsRight'
    BY <1>3, <2>1 DEF SyncInv, HandIsRight, Inserting
  <2>7. WorkIsRight'
    <3>1. x \notin prune[Default]
      BY <1>3, <1>4, <1>1 DEF TypeInv, PrunedIsKnown, Inserting
    <3>2. ~Going(x)' /\ \A nm \in Names : Going(nm)' <=> Going(nm)
      BY <1>3, <2>1, <3>1 DEF Going
    <3>3. WorkIsRight
      BY DEF SyncInv
    <3>4. ASSUME NEW g \in NetFlows(snap[Default]), g.net \in netAlive
          PROVE  g \in new[Default] \/ \E nm \in Names :
                   nm[1] = g.net /\ rows'[nm] = g /\ ~Going(nm)'
      <4>1. \/ g \in new[Default]
            \/ f = g
            \/ \E nm \in Names : nm[1] = g.net /\ rows[nm] = g /\ ~Going(nm)
        BY <1>2, <1>3, <3>3, <3>4 DEF WorkIsRight, Inserting
      <4>2. g # NoFlow
        BY <1>1, <1>5, <3>4, NetFlowsIsTyped
      <4> QED BY <1>4, <1>7, <2>1, <3>2, <4>1, <4>2
    <3>5. ASSUME clean[Default], NEW nm \in Names, rows'[nm] # NoFlow, nm[1] \in Affected,
                   ~Going(nm)'
          PROVE  FlowOf(nm)' \in NetFlows(snap[Default]) /\ (nm \in prune[Default] \/ rules[Default][nm] # NoFlow)
      BY <1>3, <1>4, <1>5, <2>1, <2>2, <3>2, <3>3, <3>5 DEF WorkIsRight, Inserting
    <3> QED BY <1>3, <2>1, <2>4, <3>4, <3>5 DEF WorkIsRight
  <2> QED BY <2>3, <2>4, <2>5, <2>6, <2>7 DEF SyncInv
<1> QED BY <1>3, <1>6, <1>7

\* What is pruned is known, and of a network that was read or is gone.
LEMMA PrunedIsRight ==
  ASSUME TypeInv, SyncInv, pc[Default] \in Inserting, Default \in Ofcs, NEW nm \in prune[Default]
  PROVE  /\ nm \in Known(Default) /\ nm \in Names
         /\ nm[1] \in netAlive => nm[1] \in Affected
BY DEF TypeInv, PrunedIsKnown, SyncInv, DbIsRight, Known, Updating, Affected

LEMMA ReinsertSync ==
  ASSUME Ofcs = {Default}, OneLevel, TypeInv, SyncInv, Reinsert(Default)
  PROVE  SyncInv'
<1> USE DEF dbVars, httpVars, readVars, Goto, SetRule
<1>1. /\ pc \in [Ofcs -> Steps] /\ Default \in Ofcs /\ ok \in [Ofcs -> BOOLEAN]
      /\ prune \in [Ofcs -> SUBSET Names] /\ db \in [Ofcs -> [Names -> FlowOrNone]]
      /\ rules \in [Ofcs -> [Names -> Body \cup {NoFlow}]] /\ NoFlow \notin Body
  BY TopologyIsTyped, SentinelsAreDistinct DEF TypeInv, TypeOK, PlanTyped, TablesTyped, ReadTyped
<1>2. /\ pc[Default] = "insert"
      /\ UNCHANGED <<netStatus, netAlive, netUp, portNet, request, toQueue, queue, missed, excused, cur, group,
                     upNets, toRead, snap, db, rows, keep, clean, new, hand, handFlow,
                     again>>
  BY DEF Reinsert
<1>3. PICK x \in prune[Default] \cap keep[Default] :
        \/ /\ rules' = [rules EXCEPT ![Default][x] = BodyOf(db[Default][x])]
           /\ prune' = [prune EXCEPT ![Default] = @ \ {x}]
           /\ UNCHANGED <<pc, ok>>
        \/ /\ rules' \in {rules, [rules EXCEPT ![Default][x] = BodyOf(db[Default][x])]}
           /\ ok' = [ok EXCEPT ![Default] = FALSE]
           /\ pc' = [pc EXCEPT ![Default] = "report"]
  BY DEF Reinsert
<1>4. x \in Known(Default) /\ x \in Names /\ (x[1] \in netAlive => x[1] \in Affected)
  BY <1>1, <1>2, PrunedIsRight DEF Inserting
<1>5. /\ rows[x] # NoFlow => BodyOf(db[Default][x]) = BodyOf(rows[x])
      /\ BodyOf(db[Default][x]) # NoFlow
  <2>1. db[Default][x] \in Flow
    BY <1>1, <1>4 DEF Known, FlowOrNone
  <2> QED BY <1>1, <1>2, <1>4, <2>1, BodyIsTyped DEF SyncInv, DbIsRight, Updating, Inserting
<1>6. /\ \A nm \in Names : nm # x => rules'[Default][nm] = rules[Default][nm]
      /\ rules'[Default][x] \in {rules[Default][x], BodyOf(db[Default][x])}
  BY <1>1, <1>3, <1>4
<1>7. TablesAreSound'
  BY <1>2, <1>5, <1>6 DEF SyncInv, TablesAreSound, FlowOf
<1>8. CASE pc' = [pc EXCEPT ![Default] = "report"] /\ ok' = [ok EXCEPT ![Default] = FALSE]
  <2>1. x[1] \notin netAlive \ BoundTogether(cur[Default])
    BY <1>4, AffectedIsBound
  <2> QED BY <1>1, <1>2, <1>6, <1>7, <1>8, <2>1, FailedSync DEF Inserting
<1>9. CASE /\ rules' = [rules EXCEPT ![Default][x] = BodyOf(db[Default][x])]
           /\ prune' = [prune EXCEPT ![Default] = @ \ {x}]
           /\ UNCHANGED <<pc, ok>>
  <2>1. rules'[Default][x] # NoFlow /\ prune'[Default] = prune[Default] \ {x}
    BY <1>1, <1>4, <1>5, <1>9
  <2>2. /\ RequestsAreSound' /\ CurIsNet' /\ ClearedIsExcused' /\ Settled'
        /\ GroupIsBound' /\ SnapIsRight' /\ DbIsRight' /\ TwiceIsDead'
        /\ Affected' = Affected
        /\ Known(Default)' = Known(Default)
    BY <1>2, <1>4, <1>6, <1>9, WritingStep DEF Inserting
  <2>3. \A nm \in Names : rules[Default][nm] # NoFlow => rules'[Default][nm] # NoFlow
    BY <1>6, <2>1
  <2>4. RowsAreKnown'
    BY <1>2, <1>9, <2>2, <2>3 DEF SyncInv, RowsAreKnown, Inserting
  <2>5. HandIsRight'
    BY <1>2, <1>9, <2>2 DEF SyncInv, HandIsRight, Inserting
  <2>6. WorkIsRight'
    <3>1. \A nm \in Names : (Going(nm)' <=> Going(nm)) /\ FlowOf(nm)' = FlowOf(nm)
      BY <1>2, <1>3, <1>9, <2>1 DEF Going, FlowOf
    <3> QED BY <1>2, <1>9, <2>1, <2>2, <2>3, <3>1 DEF SyncInv, WorkIsRight, Inserting
  <2> QED BY <1>7, <2>2, <2>4, <2>5, <2>6 DEF SyncInv
<1> QED BY <1>3, <1>8, <1>9

LEMMA DelFlowSync ==
  ASSUME Ofcs = {Default}, OneLevel, TypeInv, SecondEntriesAreSound, SyncInv,
         DelFlow(Default) \/ SkipDelFlow(Default)
  PROVE  SyncInv'
<1> USE DEF dbVars, httpVars, readVars, histVars, Goto, SetRule
<1>1. /\ pc \in [Ofcs -> Steps] /\ Default \in Ofcs /\ clean \in [Ofcs -> BOOLEAN]
      /\ prune \in [Ofcs -> SUBSET Names] /\ hand \in [Ofcs -> NameOrNone]
      /\ again \in [Ofcs -> SUBSET Names]
      /\ rules \in [Ofcs -> [Names -> Body \cup {NoFlow}]]
  BY TopologyIsTyped DEF TypeInv, TypeOK, PlanTyped, TablesTyped, HistoryTyped
<1>2. /\ pc[Default] = "insert"
      /\ UNCHANGED <<netStatus, netAlive, netUp, portNet, request, toQueue, queue, missed, excused, cur, group,
                     upNets, toRead, snap, db, rows, keep, new, handFlow, ok>>
  BY DEF DelFlow, SkipDelFlow
<1>3. PICK x \in Unmarked(Default) :
        /\ LookAt(Default, x)
        /\ rules' \in {rules, [rules EXCEPT ![Default][x] = NoFlow]}
        /\ \/ /\ hand' = [hand EXCEPT ![Default] = x]
              /\ pc' = [pc EXCEPT ![Default] = "unrow"]
              /\ UNCHANGED clean
           \/ clean' = [clean EXCEPT ![Default] = FALSE] /\ UNCHANGED <<pc, hand>>
           \/ x \notin prune[Default] /\ UNCHANGED <<rules, pc, hand, clean>>
  BY DEF DelFlow, SkipDelFlow
<1>a. /\ x \in (prune[Default] \ keep[Default]) \cup again[Default]
      /\ x \in again[Default] => x \in Known(Default) /\ x[1] \notin netAlive
  <2>1. x \in (prune[Default] \ keep[Default]) \cup again[Default]
    BY <1>3 DEF Unmarked, SecondEntries
  <2> QED BY <1>1, <1>2, <2>1 DEF SecondEntriesAreSound, SyncInv, TwiceIsDead, Inserting
<1>b. /\ prune'[Default] = prune[Default] \ {x}
      /\ again'[Default] \subseteq again[Default]
  BY <1>1, <1>3 DEF LookAt
<1>4. x \in Known(Default) /\ x \in Names /\ (x[1] \in netAlive => x[1] \in Affected)
  <2>1. CASE x \in prune[Default]
    BY <1>1, <1>2, <2>1, PrunedIsRight DEF Inserting
  <2>2. CASE x \in again[Default]
    BY <1>1, <1>a, <2>2
  <2> QED BY <1>a, <2>1, <2>2
<1>5. /\ \A nm \in Names : nm # x => rules'[Default][nm] = rules[Default][nm]
      /\ rules'[Default][x] \in {rules[Default][x], NoFlow}
      /\ pc'[Default] \in {"insert", "unrow"}
      /\ pc'[Default] = "unrow" => hand'[Default] = x /\ clean'[Default] = clean[Default]
      /\ pc'[Default] = "insert" =>
           \/ ~clean'[Default]
           \/ /\ clean'[Default] = clean[Default] /\ prune'[Default] = prune[Default]
              /\ rules'[Default] = rules[Default] /\ x \notin prune[Default]
  BY <1>1, <1>2, <1>3, <1>4, <1>b
<1>6. TablesAreSound'
  BY <1>2, <1>5 DEF SyncInv, TablesAreSound, FlowOf
<1>7. /\ RequestsAreSound' /\ CurIsNet' /\ ClearedIsExcused' /\ Settled'
      /\ GroupIsBound' /\ SnapIsRight' /\ DbIsRight' /\ TwiceIsDead'
      /\ Affected' = Affected
      /\ Known(Default)' = Known(Default)
  BY <1>2, <1>4, <1>5, <1>b, WritingStep DEF Inserting
<1>8. RowsAreKnown'
  BY <1>2, <1>4, <1>5, <1>7 DEF SyncInv, RowsAreKnown, Inserting
<1>9. HandIsRight'
  BY <1>2, <1>4, <1>5, <1>7, <1>a, <1>b DEF SyncInv, HandIsRight, Inserting
<1>10. WorkIsRight'
  <2>1. \A nm \in Names : /\ Going(nm)' => Going(nm) \/ (nm = x /\ x[1] \notin netAlive)
                          /\ FlowOf(nm)' = FlowOf(nm)
    BY <1>2, <1>5, <1>a, <1>b DEF Going, FlowOf
  <2>2. WorkIsRight
    BY DEF SyncInv
  <2>3. ASSUME NEW g \in NetFlows(snap[Default]), g.net \in netAlive
        PROVE  g \in new[Default] \/ \E nm \in Names : nm[1] = g.net /\ rows[nm] = g /\ ~Going(nm)'
    BY <1>2, <2>1, <2>2, <2>3 DEF WorkIsRight, Inserting
  <2>4. ASSUME clean'[Default], NEW nm \in Names, rows[nm] # NoFlow, nm[1] \in Affected, ~Going(nm)'
        PROVE  FlowOf(nm)' \in NetFlows(snap[Default]) /\ (nm \in prune'[Default] \/ rules'[Default][nm] # NoFlow)
    <3>1. CASE pc'[Default] = "unrow"
      <4>1. nm # x /\ ~Going(nm) /\ clean[Default]
        BY <1>2, <1>5, <1>b, <2>4, <3>1 DEF Going
      <4>2. FlowOf(nm) \in NetFlows(snap[Default]) /\ (nm \in prune[Default] \/ rules[Default][nm] # NoFlow)
        BY <1>2, <2>2, <2>4, <4>1 DEF WorkIsRight, Inserting
      <4> QED BY <1>5, <1>b, <2>1, <4>1, <4>2
    <3>2. CASE pc'[Default] = "insert"
      <4>1. clean[Default] /\ prune'[Default] = prune[Default] /\ rules'[Default] = rules[Default]
        BY <1>5, <2>4, <3>2
      <4>2. ~Going(nm)
        BY <1>2, <2>4, <3>2, <4>1 DEF Going
      <4> QED BY <1>2, <2>1, <2>2, <2>4, <4>1, <4>2 DEF WorkIsRight, Inserting
    <3> QED BY <1>5, <3>1, <3>2
  <2> QED BY <1>2, <1>5, <1>7, <2>3, <2>4 DEF WorkIsRight
<1> QED BY <1>6, <1>7, <1>8, <1>9, <1>10 DEF SyncInv

LEMMA DeleteRowSync ==
  ASSUME Ofcs = {Default}, OneLevel, TypeInv, SyncInv, DeleteRow(Default)
  PROVE  SyncInv'
<1> USE DEF requestSide, httpVars, readVars, Goto
<1>1. /\ pc \in [Ofcs -> Steps] /\ Default \in Ofcs /\ clean \in [Ofcs -> BOOLEAN]
      /\ rows \in [Names -> FlowOrNone]
  BY TopologyIsTyped DEF TypeInv, TypeOK, PlanTyped, TablesTyped, HistoryTyped
<1>2. /\ pc[Default] = "unrow" /\ pc'[Default] = "insert"
      /\ UNCHANGED <<netStatus, netAlive, netUp, portNet, request, toQueue, queue, missed, excused, cur, group,
                     upNets, toRead, snap, db, rules, keep, new, handFlow, ok, prune,
                     again>>
  BY <1>1 DEF DeleteRow
<1>3. PICK x : x = hand[Default]
  OBVIOUS
<1>4. /\ x \in Known(Default) /\ x \in Names
      /\ x[1] \in netAlive => x[1] \in Affected
  BY <1>2, <1>3 DEF SyncInv, HandIsRight, DbIsRight, Known, Updating, Affected, Inserting
<1>5. \/ rows' = [rows EXCEPT ![x] = NoFlow] /\ UNCHANGED clean
      \/ rows' = rows /\ clean' = [clean EXCEPT ![Default] = FALSE]
  BY <1>3 DEF DeleteRow
<1>6. /\ \A nm \in Names : nm # x => rows'[nm] = rows[nm]
      /\ rows'[x] \in {rows[x], NoFlow}
      /\ clean'[Default] => clean[Default] /\ rows'[x] = NoFlow
  BY <1>1, <1>4, <1>5
<1>7. \A nm \in Names : rows'[nm] # NoFlow => rows'[nm] = rows[nm] /\ FlowOf(nm)' = FlowOf(nm)
  BY <1>6 DEF FlowOf
<1>8. TablesAreSound'
  BY <1>2, <1>7 DEF SyncInv, TablesAreSound
<1>9. /\ RequestsAreSound' /\ CurIsNet' /\ ClearedIsExcused' /\ Settled'
      /\ GroupIsBound' /\ SnapIsRight' /\ DbIsRight' /\ TwiceIsDead'
      /\ Affected' = Affected
      /\ Known(Default)' = Known(Default)
  <2>1. \A nm \in Known(Default) : nm \in Names
    BY DEF Known
  <2> QED BY <1>2, <1>4, <1>6, <1>7, <2>1, WritingStep DEF Inserting
<1>10. RowsAreKnown'
  BY <1>2, <1>7, <1>9 DEF SyncInv, RowsAreKnown, Inserting
<1>11. HandIsRight'
  BY <1>2 DEF SyncInv, HandIsRight, Inserting
<1>12. WorkIsRight'
  <2>1. \A nm \in Names : /\ Going(nm)' => Going(nm)
                          /\ nm # x /\ ~Going(nm)' => ~Going(nm)
    BY <1>2, <1>3 DEF Going
  <2>2. WorkIsRight /\ Going(x)
    BY <1>2, <1>3 DEF SyncInv, Going
  <2>3. ASSUME NEW g \in NetFlows(snap[Default]), g.net \in netAlive
        PROVE  g \in new[Default] \/ \E nm \in Names : nm[1] = g.net /\ rows'[nm] = g /\ ~Going(nm)'
    <3>1. g \in new[Default] \/ \E nm \in Names : nm[1] = g.net /\ rows[nm] = g /\ ~Going(nm)
      BY <1>2, <2>2, <2>3 DEF WorkIsRight, Inserting
    <3> QED BY <1>6, <2>1, <2>2, <3>1
  <2>4. ASSUME clean'[Default], NEW nm \in Names, rows'[nm] # NoFlow, nm[1] \in Affected,
                 ~Going(nm)'
        PROVE  FlowOf(nm)' \in NetFlows(snap[Default]) /\ (nm \in prune[Default] \/ rules[Default][nm] # NoFlow)
    <3>1. nm # x /\ ~Going(nm) /\ clean[Default] /\ rows[nm] # NoFlow /\ FlowOf(nm)' = FlowOf(nm)
      BY <1>6, <1>7, <2>1, <2>4
    <3> QED BY <1>2, <2>2, <2>4, <3>1 DEF WorkIsRight, Inserting
  <2> QED BY <1>2, <1>9, <2>3, <2>4 DEF WorkIsRight
<1> QED BY <1>8, <1>9, <1>10, <1>11, <1>12 DEF SyncInv

LEMMA AllDoneSync ==
  ASSUME Ofcs = {Default}, OneLevel, TypeInv, SyncInv, AllDone(Default)
  PROVE  SyncInv'
<1> USE DEF dbVars, planVars, httpVars, readVars, histVars, Goto
<1>1. /\ pc[Default] = "insert" /\ pc'[Default] = "report"
      /\ new[Default] = {} /\ prune[Default] = {} /\ again[Default] = {}
      /\ UNCHANGED <<netStatus, netAlive, netUp, portNet, request, toQueue, queue, missed, excused, cur, group,
                     upNets, toRead, snap, db, rows, rules, keep, new, hand, handFlow, ok, prune,
                     clean, again>>
  BY TopologyIsTyped DEF AllDone, TypeInv, TypeOK, PlanTyped
<1>2. TablesAreSound'
  BY <1>1 DEF SyncInv, TablesAreSound, FlowOf
<1>3. CASE ~ok[Default]
  BY <1>1, <1>2, <1>3, FailedSync DEF Inserting
<1>4. CASE ok[Default]
  <2>1. /\ RequestsAreSound' /\ CurIsNet' /\ ClearedIsExcused' /\ Settled'
        /\ GroupIsBound' /\ SnapIsRight' /\ DbIsRight' /\ TwiceIsDead'
        /\ Affected' = Affected
        /\ Known(Default)' = Known(Default)
    BY <1>1, <1>4, WritingStep DEF Inserting
  <2>2. RowsAreKnown' /\ HandIsRight'
    BY <1>1 DEF RowsAreKnown, HandIsRight, Inserting
  <2>3. WorkIsRight'
    <3>1. \A nm \in Names : (Going(nm)' <=> Going(nm)) /\ FlowOf(nm)' = FlowOf(nm)
      BY <1>1 DEF Going, FlowOf
    <3> QED BY <1>1, <2>1, <3>1 DEF SyncInv, WorkIsRight, Inserting
  <2> QED BY <1>2, <2>1, <2>2, <2>3 DEF SyncInv
<1> QED BY <1>3, <1>4

\* What was read of a network to which no update is to come.
LEMMA CalmWasSeen ==
  ASSUME OneLevel, TypeInv, SyncInv, Updating, toRead[Default] = {},
         NEW n \in group[Default], Calm(n)
  PROVE  Sight(n) = snap[Default]
<1>1. /\ snap[Default] \in Snapshots /\ netAlive \subseteq Nets
      /\ portNet \in [Ports -> Nets \cup {NoNet, NoPort}]
  <2>1. Default \in Ofcs
    BY TopologyIsTyped
  <2> QED BY <2>1 DEF TypeInv, TypeOK, ReadTyped, TablesTyped
<1>2. /\ cur[Default] \in Nets /\ n \in BoundTogether(cur[Default])
      /\ group[Default] \subseteq BoundTogether(cur[Default])
      /\ BoundTogether(cur[Default]) \cap netAlive \subseteq group[Default]
      /\ \A m \in Nets \ group[Default] : snap[Default][m] = {}
  BY DEF SyncInv, GroupIsBound, CurIsNet, Updating, Inserting
<1>3. BoundTogether(n) = BoundTogether(cur[Default])
  BY <1>2, BindsAreGroups
<1>4. \A m \in group[Default] : snap[Default][m] = SeenNow(m)
  BY DEF SyncInv, SnapIsRight, WasRead
<1>5. \A m \in Nets \ netAlive : Attached(m) = {}
  BY DEF SyncInv, TablesAreSound, Attached
<1>6. \A m \in Nets : snap[Default][m] = Sight(n)[m]
  <2>1. SUFFICES ASSUME NEW m \in Nets PROVE snap[Default][m] = Sight(n)[m]
    OBVIOUS
  <2>2. CASE m \in group[Default]
    <3>1. m \in BoundTogether(n) /\ snap[Default][m] = SeenNow(m)
      BY <1>2, <1>3, <1>4, <2>2
    <3> QED BY <1>5, <3>1 DEF Sight, SeenNow
  <2>3. CASE m \notin group[Default]
    <3>1. m \notin BoundTogether(n) \cap netAlive /\ snap[Default][m] = {}
      BY <1>2, <1>3, <2>3
    <3> QED BY <3>1 DEF Sight
  <2> QED BY <2>2, <2>3
<1> QED BY <1>1, <1>6 DEF Sight, Snapshots

\* An update that returned and failed in nothing leaves its networks right.
LEMMA DoneIsRight ==
  ASSUME OneLevel, TypeInv, SyncInv, pc[Default] = "report", ok[Default], clean[Default],
         Default \in Ofcs, NEW n \in Affected
  PROVE  /\ Calm(n) => HasItsFlows(n)
         /\ Bare(n) => \A nm \in Names : nm[1] = n => rows[nm] = NoFlow
<1>1. PICK flows : flows = NetFlows(snap[Default])
  OBVIOUS
<1>2. /\ snap[Default] \in Snapshots /\ netAlive \subseteq Nets
      /\ rows \in [Names -> FlowOrNone] /\ NoFlow \notin Flow
      /\ portNet \in [Ports -> Nets \cup {NoNet, NoPort}]
  BY SentinelsAreDistinct DEF TypeInv, TypeOK, ReadTyped, TablesTyped
<1>3. /\ Updating /\ new[Default] = {} /\ prune[Default] = {} /\ toRead[Default] = {}
      /\ n \in group[Default] \cup {cur[Default]}
      /\ cur[Default] \in netAlive => cur[Default] \in group[Default]
  BY DEF SyncInv, HandIsRight, GroupIsBound, Updating, CurIsNet, Affected
<1>4. n \in Nets
  BY AffectedIsBound
<1>5. \A nm \in Names : ~Going(nm)
  BY <1>3 DEF Going
<1>6. \A f \in flows : f.net \in netAlive => \E nm \in Names : nm[1] = f.net /\ rows[nm] = f
  BY <1>1, <1>3 DEF SyncInv, WorkIsRight
<1>7. \A nm \in Names : rows[nm] # NoFlow /\ nm[1] = n =>
        FlowOf(nm) \in flows /\ rules[Default][nm] # NoFlow
  BY <1>1, <1>3, <1>5 DEF SyncInv, WorkIsRight
<1>8. ASSUME Calm(n) PROVE HasItsFlows(n)
  <2>1. n \in netAlive /\ n \in group[Default]
    BY <1>3, <1>8 DEF Calm
  <2>5. Sight(n) = snap[Default]
    BY <1>3, <1>8, <2>1, CalmWasSeen
  <2>6. Wanted(n) = {f \in flows : f.net = n}
    BY <1>1, <2>5 DEF Wanted
  <2>7. ASSUME NEW nm \in Names, nm[1] = n, rows[nm] # NoFlow
        PROVE  rows[nm] \in Wanted(n) /\ rules[Default][nm] = BodyOf(rows[nm])
    <3>1. rows[nm] \in Flow /\ rows[nm].net = n
      BY <1>2, <2>1, <2>7 DEF FlowOrNone, SyncInv, TablesAreSound
    <3>2. FlowOf(nm) = rows[nm]
      BY <2>7, <3>1 DEF FlowOf, Flow
    <3>3. rules[Default][nm] = BodyOf(rows[nm])
      BY <1>7, <2>7 DEF SyncInv, TablesAreSound
    <3> QED BY <1>7, <2>6, <2>7, <3>1, <3>2, <3>3
  <2> QED BY <1>6, <2>1, <2>6, <2>7 DEF HasItsFlows
<1>9. ASSUME Bare(n), NEW nm \in Names, nm[1] = n, rows[nm] # NoFlow PROVE FALSE
  <2>1. snap[Default][n] = {}
    BY <1>3, <1>9 DEF SyncInv, SnapIsRight
  <2>2. FlowOf(nm) \in NetFlows(snap[Default]) /\ FlowOf(nm).net = n
    BY <1>1, <1>7, <1>9 DEF FlowOf
  <2> QED BY <1>2, <2>1, <2>2, FlowsHaveSource
<1> QED BY <1>8, <1>9

LEMMA ReportSync ==
  ASSUME Ofcs = {Default}, OneLevel, TypeInv, SyncInv, Report(Default)
  PROVE  SyncInv'
<1> USE DEF requestSide, httpVars, Goto
<1>1. /\ pc[Default] = "report" /\ pc'[Default] = "idle" /\ Default \in Ofcs
      /\ UNCHANGED <<netAlive, netUp, portNet, request, toQueue, queue, missed, rows, rules>>
  BY TopologyIsTyped DEF Report, TypeInv, TypeOK, PlanTyped
<1>2. /\ GroupIsBound' /\ SnapIsRight' /\ DbIsRight' /\ TwiceIsDead' /\ RowsAreKnown'
      /\ HandIsRight' /\ WorkIsRight' /\ ~Updating'
  BY <1>1, NotUpdating
<1>3. CurIsNet' /\ ClearedIsExcused' /\ RequestsAreSound' /\ TablesAreSound'
  BY <1>1, ThreadKeeps DEF SyncInv, CurIsNet, ClearedIsExcused, TablesAreSound, FlowOf
<1>4. Affected' = {}
  BY <1>1, <1>2 DEF Affected
<1>5. \A n : /\ Calm(n)' <=> Calm(n)
             /\ Bare(n)' <=> Bare(n)
             /\ Wanted(n)' = Wanted(n)
  BY <1>1, QuietThread, ThreadKeeps
<1>6. PICK k \in Nets : k = cur[Default]
  BY <1>1 DEF SyncInv, CurIsNet
<1>7. k \in BoundTogether(k) /\ k \in Affected /\ Affected \subseteq BoundTogether(k)
  <2>1. k \in BoundTogether(k)
    BY BindsAreGroups
  <2>2. k \in Affected
    BY <1>1, <1>6, <2>1 DEF Affected
  <2> QED BY <1>6, <2>1, <2>2, AffectedIsBound
<1>8. /\ \A n \in Nets \ {k} : netStatus'[n] = netStatus[n]
      /\ k \in netAlive /\ ~ok[Default] => netStatus'[k] = "ERROR"
      /\ excused' =
           IF ok[Default] THEN IF clean[Default] THEN excused \ (group[Default] \cup {k})
                                                 ELSE excused \cup BoundTogether(k)
                          ELSE (excused \cup BoundTogether(k)) \ ({k} \cap netAlive)
  BY <1>6 DEF Report, TypeInv, TypeOK, TablesTyped
<1>9. ASSUME NEW n \in Nets \ (excused' \cup missed), netStatus'[n] # "ERROR"
      PROVE  /\ Calm(n) => HasItsFlows(n)
             /\ Bare(n) => \A nm \in Names : nm[1] = n => rows[nm] = NoFlow
  <2>1. CASE n \notin Affected
    <3>1. n # k /\ netStatus[n] # "ERROR"
      BY <1>7, <1>8, <1>9, <2>1
    <3>2. n \notin excused
      <4>1. ok[Default] => Affected = group[Default] \cup {k}
        BY <1>1, <1>6 DEF Affected, Updating
      <4> QED BY <1>8, <1>9, <2>1, <3>1, <4>1
    <3> QED BY <1>9, <2>1, <3>1, <3>2 DEF SyncInv, Settled
  <2>2. CASE n \in Affected
    <3>1. ok[Default] /\ clean[Default]
      BY <1>7, <1>8, <1>9, <2>2
    <3> QED BY <1>1, <2>2, <3>1, DoneIsRight
  <2> QED BY <2>1, <2>2
<1>10. \A n : HasItsFlows(n)' <=> HasItsFlows(n)
  BY <1>1, <1>5 DEF HasItsFlows
<1>11. Settled'
  BY <1>1, <1>4, <1>5, <1>9, <1>10 DEF Settled
<1> QED BY <1>2, <1>3, <1>11 DEF SyncInv

\* The computation that raises: its networks are excused.
LEMMA RaiseSync ==
  ASSUME Ofcs = {Default}, OneLevel, TypeInv, SyncInv, Raise(Default)
  PROVE  SyncInv'
<1> USE DEF dbVars, httpVars, Goto
<1>1. /\ pc[Default] = "rules" /\ pc'[Default] = "idle"
      /\ UNCHANGED <<netStatus, netAlive, netUp, portNet, request, toQueue, queue, missed, rows,
                     rules>>
      /\ excused' = excused \cup BoundTogether(cur[Default])
  BY TopologyIsTyped DEF Raise, TypeInv, TypeOK, PlanTyped
<1>2. /\ GroupIsBound' /\ SnapIsRight' /\ DbIsRight' /\ TwiceIsDead' /\ RowsAreKnown'
      /\ HandIsRight' /\ WorkIsRight' /\ ~Updating'
  BY <1>1, NotUpdating
<1>3. CurIsNet' /\ ClearedIsExcused' /\ RequestsAreSound' /\ TablesAreSound'
  BY <1>1, ThreadKeeps DEF SyncInv, CurIsNet, ClearedIsExcused, TablesAreSound, FlowOf
<1>4. Affected' = {} /\ Affected \subseteq excused'
  BY <1>1, <1>2, AffectedIsBound DEF Affected
<1>5. \A n : /\ Calm(n)' <=> Calm(n)
             /\ Bare(n)' <=> Bare(n)
             /\ Wanted(n)' = Wanted(n)
  BY <1>1, QuietThread, ThreadKeeps
<1>6. Settled'
  BY <1>1, <1>4, <1>5, StaysSettled DEF SyncInv
<1> QED BY <1>2, <1>3, <1>6 DEF SyncInv

LEMMA ClearSync ==
  ASSUME Ofcs = {Default}, OneLevel, TypeInv, SyncInv,
         ClearController(Default) \/ ClearRows(Default)
  PROVE  SyncInv'
<1> USE DEF requestSide, httpVars, Goto
<1>1. /\ pc \in [Ofcs -> Steps] /\ Default \in Ofcs
      /\ rules \in [Ofcs -> [Names -> Body \cup {NoFlow}]]
      /\ rows \in [Names -> FlowOrNone]
  BY TopologyIsTyped DEF TypeInv, TypeOK, PlanTyped, TablesTyped
<1>2. /\ UNCHANGED <<netAlive, netUp, portNet, request, toQueue>>
      /\ pc'[Default] \in {"idle", "clearrows"} /\ excused' = Nets
  BY <1>1 DEF ClearController, ClearRows, SyncInv, ClearedIsExcused
<1>3. /\ \A nm \in Names : rules'[Default][nm] \in {rules[Default][nm], NoFlow}
      /\ \A nm \in Names : rows'[nm] \in {rows[nm], NoFlow}
  <2>1. CASE ClearController(Default)
    BY <1>1, <2>1 DEF ClearController, NoNames
  <2>2. CASE ClearRows(Default)
    BY <1>1, <2>2 DEF ClearRows, NoNames
  <2> QED BY <2>1, <2>2
<1>4. /\ GroupIsBound' /\ SnapIsRight' /\ DbIsRight' /\ TwiceIsDead' /\ RowsAreKnown'
      /\ HandIsRight' /\ WorkIsRight' /\ ~Updating'
  BY <1>2, NotUpdating
<1>5. TablesAreSound'
  <2>1. \A nm \in Names : rows'[nm] # NoFlow => rows'[nm] = rows[nm] /\ FlowOf(nm)' = FlowOf(nm)
    BY <1>3 DEF FlowOf
  <2> QED BY <1>2, <1>3, <2>1 DEF SyncInv, TablesAreSound
<1>6. CurIsNet' /\ ClearedIsExcused' /\ RequestsAreSound' /\ Settled'
  BY <1>2, ThreadKeeps DEF SyncInv, CurIsNet, ClearedIsExcused, Settled
<1> QED BY <1>4, <1>5, <1>6 DEF SyncInv

LEMMA RestartSync ==
  ASSUME Ofcs = {Default}, OneLevel, TypeInv, SyncInv, Restart
  PROVE  SyncInv'
<1>1. /\ UNCHANGED <<netAlive, netUp, portNet, rows, rules>>
      /\ pc'[Default] = "idle" /\ excused' = Nets
      /\ request' = [h \in HttpThreads |-> Idle]
  BY DEF Restart
<1>2. /\ GroupIsBound' /\ SnapIsRight' /\ DbIsRight' /\ TwiceIsDead' /\ RowsAreKnown'
      /\ HandIsRight' /\ WorkIsRight' /\ ~Updating'
  BY <1>1, NotUpdating
<1>3. CurIsNet' /\ ClearedIsExcused' /\ TablesAreSound' /\ Settled'
  BY <1>1 DEF SyncInv, CurIsNet, ClearedIsExcused, TablesAreSound, FlowOf, Settled
<1>4. RequestsAreSound'
  BY <1>1 DEF RequestsAreSound, Idle
<1> QED BY <1>2, <1>3, <1>4 DEF SyncInv

LEMMA InitSync == Init => SyncInv
<1> SUFFICES ASSUME Init PROVE SyncInv
  OBVIOUS
<1>1. Default \in Ofcs
  BY TopologyIsTyped
<1>2. pc[Default] = "idle" /\ excused = Nets /\ ~Updating
  BY <1>1 DEF Init, Updating, Inserting
<1>3. /\ GroupIsBound /\ SnapIsRight /\ DbIsRight /\ TwiceIsDead /\ RowsAreKnown
      /\ HandIsRight /\ WorkIsRight /\ CurIsNet /\ ClearedIsExcused /\ Settled
  BY <1>2 DEF GroupIsBound, SnapIsRight, DbIsRight, TwiceIsDead, RowsAreKnown, HandIsRight,
              WorkIsRight, CurIsNet, ClearedIsExcused, Settled, Inserting
<1>4. TablesAreSound
  <2>1. rows = InitRows /\ rules = InitRules /\ netAlive = Nets /\ portNet = InitNet
    BY DEF Init
  <2>2. ASSUME NEW nm \in Names, rows[nm] # NoFlow
        PROVE  /\ nm[1] \in Nets /\ rows[nm].net = nm[1]
               /\ \E s \in Snapshots : FlowOf(nm) \in NetFlows(s)
               /\ rules[Default][nm] # NoFlow => rules[Default][nm] = BodyOf(rows[nm])
    <3>1. rows[nm] \in Flow /\ nm[1] \in Nets /\ rows[nm].net = nm[1]
      BY <2>1, <2>2, InitRowsAreSound DEF Names
    <3>2. FlowOf(nm) = rows[nm]
      BY <3>1 DEF FlowOf, Flow
    <3> QED BY <1>1, <2>1, <2>2, <3>1, <3>2, InitRowsAreSound
  <2> QED BY <2>1, <2>2 DEF TablesAreSound
<1>5. RequestsAreSound
  BY DEF Init, RequestsAreSound, Idle
<1> QED BY <1>3, <1>4, <1>5 DEF SyncInv

LEMMA SameSync == ASSUME SyncInv, UNCHANGED vars PROVE SyncInv'
<1> USE DEF vars, dbVars, readVars, planVars, httpVars, histVars
<1>1. /\ TablesAreSound' /\ RequestsAreSound' /\ CurIsNet' /\ ClearedIsExcused'
  BY DEF SyncInv, TablesAreSound, RequestsAreSound, CurIsNet, ClearedIsExcused, FlowOf
<1>2. (Updating' <=> Updating) /\ Affected' = Affected
  BY DEF Updating, Affected, BoundTogether, BindId
<1>3. GroupIsBound'
  BY <1>2 DEF SyncInv, GroupIsBound, BoundTogether, BindId
<1>4. \A n : /\ Told(n)' <=> Told(n)
             /\ Attached(n)' = Attached(n)
             /\ SeenNow(n)' = SeenNow(n)
             /\ Wanted(n)' = Wanted(n)
             /\ WasRead(n)' <=> WasRead(n)
  BY ThreadKeeps DEF Told, WasRead
<1>5. \A n : (Calm(n)' <=> Calm(n)) /\ (Bare(n)' <=> Bare(n))
  BY <1>4 DEF Calm, Bare
<1>6. SnapIsRight'
  BY <1>2, <1>4, <1>5 DEF SyncInv, SnapIsRight
<1>7. DbIsRight' /\ TwiceIsDead' /\ RowsAreKnown' /\ HandIsRight'
  BY <1>2 DEF SyncInv, DbIsRight, TwiceIsDead, RowsAreKnown, HandIsRight, Known
<1>8. WorkIsRight'
  BY <1>2 DEF SyncInv, WorkIsRight, Going, FlowOf
<1>9. Settled'
  BY <1>2, <1>4, <1>5 DEF SyncInv, Settled, HasItsFlows
<1> QED BY <1>1, <1>3, <1>6, <1>7, <1>8, <1>9 DEF SyncInv

\* Every step keeps SyncInv.
LEMMA NextSync ==
  ASSUME Ofcs = {Default}, OneLevel, VlanIsMatched, IInv, SyncInv, [Next]_vars
  PROVE  SyncInv'
<1>1. TypeInv /\ ReadRowsExist /\ SecondEntriesAreSound
  BY DEF IInv
<1>2. ASSUME NEW h \in HttpThreads, Request(h) PROVE SyncInv'
  BY <1>1, <1>2, RequestSync, DeleteNetSync DEF Request
<1>3. ASSUME NEW h \in HttpThreads, Proceed(h) PROVE SyncInv'
  BY <1>1, <1>3, NewPortSync, EditPortSync, DeletePortSync, EditNetSync, InsertTaskSync DEF Proceed
<1>4. ASSUME NEW c \in Ofcs, ReadStep(c) PROVE SyncInv'
  BY <1>1, <1>4, TakeTaskSync, ReadNetsSync, ReadPortsSync, ReadFlowsSync, ReadNullFlowsSync,
     GiveUpSync, ReadRulesSync, RaiseSync DEF ReadStep
<1>5. ASSUME NEW c \in Ofcs, WriteStep(c) PROVE SyncInv'
  BY <1>1, <1>5, NewFlowSync, NewRowSync, ReinsertSync, DelFlowSync, DeleteRowSync, AllDoneSync,
     ReportSync, ClearSync DEF WriteStep
<1>6. CASE Restart
  BY <1>1, <1>6, RestartSync
<1>7. CASE UNCHANGED vars
  BY <1>7, SameSync
<1> QED BY <1>2, <1>3, <1>4, <1>5, <1>6, <1>7 DEF Next, Thread

\* Nothing is to come: what is settled is in sync.
LEMMA QuietIsInSync ==
  ASSUME Ofcs = {Default}, OneLevel, TypeInv, SyncInv
  PROVE  QuiescentSync
<1> SUFFICES ASSUME Quiescent, NEW n \in Nets \ (excused \cup missed), netStatus[n] # "ERROR"
             PROVE  IF n \in netAlive THEN InSync(n)
                                      ELSE \A nm \in Names : nm[1] = n => rows[nm] = NoFlow
  BY DEF QuiescentSync
<1>1. pc[Default] = "idle" /\ queue[Default] = << >> /\ \A h \in HttpThreads : toQueue[h] = << >>
  BY TopologyIsTyped DEF Quiescent
<1>2. \A m : ~Told(m)
  BY <1>1 DEF Told
<1>3. n \notin Affected
  BY <1>1 DEF Affected, Updating, Inserting
<1>4. CASE n \notin netAlive
  <2>1. Attached(n) = {}
    BY <1>4 DEF SyncInv, TablesAreSound, Attached
  <2>2. Bare(n)
    BY <1>2, <2>1 DEF Bare
  <2> QED BY <1>3, <1>4, <2>2 DEF SyncInv, Settled
<1>5. CASE n \in netAlive
  <2>1. HasItsFlows(n)
    BY <1>2, <1>3, <1>5 DEF Calm, SyncInv, Settled
  <2>2. ASSUME NEW nm \in Names PROVE nm \in RowsOf(n) <=> nm[1] = n /\ rows[nm] # NoFlow
    <3>1. n # NoNet
      BY SentinelsAreDistinct
    <3> QED BY <1>5, <3>1 DEF RowsOf, SyncInv, TablesAreSound
  <2>3. \A f \in Wanted(n) : f # NoFlow
    <3>1. Sight(n) \in Snapshots
      BY DEF Sight, Snapshots, Attached
    <3> QED BY <3>1, NetFlowsIsTyped, SentinelsAreDistinct DEF Wanted
  <2>4. {rows[nm] : nm \in RowsOf(n)} = Wanted(n)
    <3>1. RowsOf(n) \subseteq Names
      BY DEF RowsOf
    <3> QED BY <2>1, <2>2, <2>3, <3>1 DEF HasItsFlows
  <2>5. \A nm \in RowsOf(n) : rules[Default][nm] = BodyOf(rows[nm])
    BY <2>1, <2>2 DEF HasItsFlows, RowsOf
  <2> QED BY <1>5, <2>4, <2>5 DEF InSync
<1> QED BY <1>4, <1>5

\* In a process with one thread no change of the tables is lost: when all is
\* quiet the rows and rules of every network that is not excused or missed are
\* the flows its ports call for, or its status is ERROR, whatever the order of
\* requests, updates, failures and restarts (update_of_flows, run and the
\* requests of ovim.py).
THEOREM NoChangeIsLost ==
  ASSUME Ofcs = {Default}, OneLevel, VlanIsMatched
  PROVE  Spec => []QuiescentSync
<1>1. Init => SyncInv
  BY InitSync
<1>2. IInv /\ SyncInv /\ [Next]_vars => SyncInv'
  BY NextSync
<1>3. IInv /\ SyncInv => QuiescentSync
  BY QuietIsInSync DEF IInv
<1> QED
  BY <1>1, <1>2, <1>3, InductiveInvariant, PTL DEF Spec

-----------------------------------------------------------------------------
(* A rule that is called for comes back *)

\* A step that adds neither rows nor work keeps the plan right.
LEMMA RowsInvIsKept ==
  ASSUME TypeInv, RowsInv, Default \in Ofcs, netAlive' \subseteq netAlive,
         \A nm \in Names :
           rows'[nm] = rows[nm] \/ rows'[nm] = NoFlow \/ rows'[nm].net \notin netAlive',
         \/ pc'[Default] \notin Inserting
         \/ /\ pc[Default] \in Inserting /\ snap'[Default] = snap[Default]
            /\ new'[Default] \subseteq new[Default]
            /\ prune'[Default] \ keep'[Default] \subseteq prune[Default] \ keep[Default]
            /\ pc'[Default] # "row"
  PROVE  RowsInv'
<1>1. /\ new[Default] \subseteq Flow /\ prune[Default] \subseteq Names /\ NoFlow \notin Flow
  BY SentinelsAreDistinct DEF TypeInv, TypeOK, PlanTyped
<1>2. RowsAreUnique'
  BY DEF RowsInv, RowsAreUnique
<1>3. CASE pc'[Default] \notin Inserting
  BY <1>2, <1>3 DEF RowsInv, PlanIsRight, Inserting
<1>4. CASE /\ pc[Default] \in Inserting /\ snap'[Default] = snap[Default]
           /\ new'[Default] \subseteq new[Default]
           /\ prune'[Default] \ keep'[Default] \subseteq prune[Default] \ keep[Default]
           /\ pc'[Default] # "row"
  <2>1. \A f \in new'[Default], nm \in Names : f.net \in netAlive' => rows'[nm] # f
    BY <1>1, <1>4 DEF RowsInv, PlanIsRight
  <2>2. \A nm \in prune'[Default] \ keep'[Default] :
          rows'[nm] # NoFlow /\ rows'[nm].net \in netAlive' =>
            rows'[nm] \notin NetFlows(snap'[Default])
    BY <1>1, <1>4 DEF RowsInv, PlanIsRight
  <2> QED BY <1>2, <1>4, <2>1, <2>2 DEF RowsInv, PlanIsRight
<1> QED BY <1>3, <1>4

LEMMA HttpRowsInv ==
  ASSUME TypeInv, RowsInv, Default \in Ofcs, NEW h \in HttpThreads, Request(h) \/ Proceed(h)
  PROVE  RowsInv'
<1> USE DEF ofcSide, threadSide, readVars, planVars, Begin
<1>1. ASSUME NEW n \in Nets, DeleteNet(h, n) PROVE RowsInv'
  <2>1. UNCHANGED <<pc, snap, new, prune, keep, handFlow>> /\ netAlive' \subseteq netAlive
    BY <1>1 DEF DeleteNet
  <2>2. ASSUME NEW nm \in RowsOf(n) PROVE rows'[nm].net = NoNet
    <3>1. rows[nm] \in Flow /\ nm \in Names
      BY DEF RowsOf, FlowOrNone, TypeInv, TypeOK, TablesTyped
    <3>2. rows'[nm] = [rows[nm] EXCEPT !.net = NoNet]
      BY <1>1, <3>1 DEF DeleteNet
    <3> QED BY <3>1, <3>2 DEF Flow
  <2>3. NoNet \notin netAlive
    BY SentinelsAreDistinct DEF TypeInv, TypeOK, TablesTyped
  <2>4. \A nm \in Names : rows'[nm] = rows[nm] \/ rows'[nm].net \notin netAlive'
    BY <1>1, <2>1, <2>2, <2>3 DEF DeleteNet
  <2>5. CASE pc[Default] # "row"
    BY <2>1, <2>4, <2>5, RowsInvIsKept
  <2>6. CASE pc[Default] = "row"
    <3>1. handFlow[Default] \in Flow /\ NoFlow \notin Flow /\ new[Default] \subseteq Flow
          /\ prune[Default] \subseteq Names
      BY <2>6, SentinelsAreDistinct DEF TypeInv, TypeOK, PlanTyped, HandIsName
    <3>2. RowsAreUnique'
      BY <2>1, <2>4 DEF RowsInv, RowsAreUnique
    <3>3. PlanIsRight'
      BY <2>1, <2>4, <2>6, <3>1 DEF RowsInv, PlanIsRight, Inserting
    <3> QED BY <3>2, <3>3 DEF RowsInv
  <2> QED BY <2>5, <2>6
<1>2. CASE UNCHANGED <<pc, snap, new, prune, keep, handFlow, rows, netAlive>>
  BY <1>2 DEF RowsInv, RowsAreUnique, PlanIsRight
<1> QED
  BY <1>1, <1>2 DEF Request, Proceed, CheckNewPort, NewPort, ReadPortToEdit, ReadPortToDelete,
     ReadNetToEdit, ReinstallNet, ClearRules, EditPort, DeletePort, EditNet, InsertTask

LEMMA ReadRulesRowsInv ==
  ASSUME Ofcs = {Default}, VlanIsMatched, IInv, SyncInv, RowsInv, ReadRules(Default)
  PROVE  RowsInv'
<1> USE DEF dbVars, histVars, httpVars, Goto
<1>0. TypeInv /\ ReadRowsExist /\ Default \in Ofcs
  BY TopologyIsTyped DEF IInv
<1>1. PICK flows : flows = NetFlows(snap[Default])
  OBVIOUS
<1>2. PICK kept : kept = {CHOOSE nm \in Equal(Default, f) : TRUE : f \in
                            {g \in flows : Equal(Default, g) # {}}}
  OBVIOUS
<1>3. /\ pc[Default] = "rules" /\ pc'[Default] = "insert"
      /\ new'[Default] = {f \in flows : Equal(Default, f) = {}}
      /\ keep'[Default] = kept
      /\ prune'[Default] \subseteq Known(Default)
      /\ UNCHANGED <<rows, netAlive, snap>>
  <2>1. /\ pc \in [Ofcs -> Steps] /\ new \in [Ofcs -> SUBSET {f \in Flow : f.net \in Nets}]
        /\ keep \in [Ofcs -> SUBSET Names] /\ prune \in [Ofcs -> SUBSET Names] /\ Default \in Ofcs
    BY <1>0 DEF TypeInv, TypeOK, PlanTyped
  <2> QED BY <1>1, <1>2, <2>1 DEF ReadRules
<1>4. Updating
  BY <1>3 DEF Updating
\* A row of a network that is there, equal to a computed flow, was read.
<1>5. ASSUME NEW nm \in Names, NEW f \in flows, f.net \in netAlive, rows[nm] = f
      PROVE  nm \in Equal(Default, f)
  <2>1. /\ snap[Default] \in Snapshots /\ f \in Flow /\ f.net \in Nets /\ snap[Default][f.net] # {}
        /\ NoFlow \notin Flow /\ NoNet \notin Nets
    BY <1>0, <1>1, NetFlowsIsTyped, FlowsHaveSource, SentinelsAreDistinct DEF TypeInv, TypeOK,
       ReadTyped
  <2>2. nm[1] = f.net
    <3>1. f.net = IF nm[1] \in netAlive THEN nm[1] ELSE NoNet
      BY <1>5, <2>1 DEF SyncInv, TablesAreSound
    <3> QED BY <2>1, <3>1
  <2>3. nm[1] \in Affected
    BY <1>4, <2>1, <2>2 DEF SyncInv, GroupIsBound, Affected
  <2>4. nm \in Known(Default)
    BY <1>3, <1>5, <2>1, <2>3 DEF SyncInv, RowsAreKnown
  <2>5. /\ db[Default][nm].net = f.net
        /\ BodyOf(db[Default][nm]) = BodyOf(f)
    BY <1>4, <1>5, <2>1, <2>2, <2>4 DEF SyncInv, DbIsRight
  <2> QED BY <2>4, <2>5 DEF Equal, AlreadyPresent, BodyOf
<1>6. \A f \in new'[Default], nm \in Names : f.net \in netAlive => rows[nm] # f
  BY <1>3, <1>5
<1>7. ASSUME NEW nm \in Known(Default) \ kept, rows[nm] # NoFlow, rows[nm].net \in netAlive,
               rows[nm] \in flows
      PROVE  FALSE
  <2>1. nm \in Names /\ nm \in Equal(Default, rows[nm])
    BY <1>5, <1>7 DEF Known
  <2>2. PICK k : k = CHOOSE x \in Equal(Default, rows[nm]) : TRUE
    OBVIOUS
  <2>3. k \in Equal(Default, rows[nm]) /\ k \in kept
    BY <1>2, <1>7, <2>1, <2>2
  <2>4. k \in Names /\ rows[k] = rows[nm]
    BY <1>0, <1>1, <1>3, <1>7, <2>3, KeptIsRight
  <2>5. k = nm
    BY <1>7, <2>1, <2>4 DEF RowsInv, RowsAreUnique
  <2> QED BY <1>7, <2>3, <2>5
<1>8. PlanIsRight'
  BY <1>1, <1>3, <1>6, <1>7 DEF PlanIsRight
<1>9. RowsAreUnique'
  BY <1>3 DEF RowsInv, RowsAreUnique
<1> QED BY <1>8, <1>9 DEF RowsInv

LEMMA NewFlowRowsInv ==
  ASSUME TypeInv, RowsInv, Default \in Ofcs, NewFlow(Default)
  PROVE  RowsInv'
<1> USE DEF dbVars, httpVars, readVars, Goto
<1>1. /\ pc \in [Ofcs -> Steps] /\ new \in [Ofcs -> SUBSET {f \in Flow : f.net \in Nets}]
      /\ handFlow \in [Ofcs -> FlowOrNone]
  BY DEF TypeInv, TypeOK, PlanTyped
<1>2. /\ pc[Default] = "insert" /\ UNCHANGED <<rows, netAlive, snap, keep, prune>>
      /\ \/ \E f \in new[Default] : /\ new' = [new EXCEPT ![Default] = @ \ {f}]
                                    /\ handFlow' = [handFlow EXCEPT ![Default] = f]
                                    /\ pc' = [pc EXCEPT ![Default] = "row"]
         \/ pc' = [pc EXCEPT ![Default] = "report"]
  BY DEF NewFlow
<1>3. CASE pc' = [pc EXCEPT ![Default] = "report"]
  <2>1. pc'[Default] \notin Inserting
    BY <1>1, <1>3 DEF Inserting
  <2> QED BY <1>2, <2>1, RowsInvIsKept
<1>4. ASSUME NEW f \in new[Default], new' = [new EXCEPT ![Default] = @ \ {f}],
             handFlow' = [handFlow EXCEPT ![Default] = f], pc' = [pc EXCEPT ![Default] = "row"]
      PROVE  RowsInv'
  <2>1. new'[Default] = new[Default] \ {f} /\ handFlow'[Default] = f /\ pc'[Default] = "row"
    BY <1>1, <1>4
  <2> QED BY <1>2, <2>1 DEF RowsInv, RowsAreUnique, PlanIsRight, Inserting
<1> QED BY <1>2, <1>3, <1>4

LEMMA NewRowRowsInv ==
  ASSUME TypeInv, SyncInv, RowsInv, Default \in Ofcs, NewRow(Default)
  PROVE  RowsInv'
<1> USE DEF requestSide, httpVars, readVars, Goto
<1>1. /\ pc \in [Ofcs -> Steps] /\ rows \in [Names -> FlowOrNone] /\ NoFlow \notin Flow
      /\ prune[Default] \subseteq Names
  BY SentinelsAreDistinct DEF TypeInv, TypeOK, PlanTyped, TablesTyped
<1>2. PICK x \in Names, f \in Flow : x = hand[Default] /\ f = handFlow[Default]
  BY <1>1 DEF TypeInv, HandIsName, NewRow
<1>3. /\ pc[Default] = "row" /\ UNCHANGED <<netAlive, snap, new, keep, prune>>
      /\ \/ f.net \in netAlive /\ rows' = [rows EXCEPT ![x] = f] /\ pc' = [pc EXCEPT ![Default] = "insert"]
         \/ UNCHANGED rows /\ pc' = [pc EXCEPT ![Default] = "report"]
  BY <1>2 DEF NewRow
<1>4. CASE UNCHANGED rows /\ pc' = [pc EXCEPT ![Default] = "report"]
  <2>1. pc'[Default] \notin Inserting
    BY <1>1, <1>4 DEF Inserting
  <2> QED BY <1>3, <1>4, <2>1, RowsInvIsKept
<1>5. CASE f.net \in netAlive /\ rows' = [rows EXCEPT ![x] = f] /\ pc' = [pc EXCEPT ![Default] = "insert"]
  <2>1. /\ pc'[Default] = "insert" /\ rows'[x] = f
        /\ \A nm \in Names : nm # x => rows'[nm] = rows[nm]
    BY <1>1, <1>5
  <2>2. f \notin new[Default] /\ \A nm \in Names : rows[nm] # f
    BY <1>2, <1>3, <1>5 DEF RowsInv, PlanIsRight
  <2>3. x \notin prune[Default]
    BY <1>2, <1>3 DEF TypeInv, PrunedIsKnown, SyncInv, HandIsRight, Inserting
  <2>4. RowsAreUnique'
    BY <1>3, <2>1, <2>2 DEF RowsInv, RowsAreUnique
  <2>5. PlanIsRight'
    BY <1>1, <1>3, <2>1, <2>2, <2>3 DEF RowsInv, PlanIsRight, Inserting
  <2> QED BY <2>4, <2>5 DEF RowsInv
<1> QED BY <1>3, <1>4, <1>5

LEMMA ThreadRowsInv ==
  ASSUME Ofcs = {Default}, VlanIsMatched, IInv, SyncInv, RowsInv, Thread(Default)
  PROVE  RowsInv'
<1> USE DEF dbVars, requestSide, httpVars, readVars, planVars, histVars, Goto
<1>0. /\ TypeInv /\ Default \in Ofcs
      /\ pc \in [Ofcs -> Steps] /\ rows \in [Names -> FlowOrNone]
      /\ prune \in [Ofcs -> SUBSET Names] /\ keep \in [Ofcs -> SUBSET Names]
  BY TopologyIsTyped DEF IInv, TypeInv, TypeOK, PlanTyped, TablesTyped
<1>1. CASE ReadRules(Default)
  BY <1>1, ReadRulesRowsInv
<1>2. CASE NewFlow(Default) \/ NewRow(Default)
  BY <1>0, <1>2, NewFlowRowsInv, NewRowRowsInv
<1>3. CASE \/ TakeTask(Default) \/ ReadNets(Default) \/ ReadPorts(Default) \/ ReadFlows(Default)
           \/ ReadNullFlows(Default) \/ ReadFails(Default) \/ Raise(Default) \/ Refuse(Default)
           \/ AllDone(Default) \/ Report(Default) \/ ClearController(Default)
  <2>1. UNCHANGED <<rows, netAlive>> /\ pc'[Default] \notin Inserting
    BY <1>0, <1>3 DEF TakeTask, ReadNets, ReadPorts, ReadFlows, ReadNullFlows, ReadFails, Raise,
       Refuse, GiveUp, AllDone, Report, ClearController, Inserting
  <2> QED BY <1>0, <2>1, RowsInvIsKept
<1>4. CASE ClearRows(Default)
  <2>1. /\ UNCHANGED netAlive /\ pc'[Default] \notin Inserting
        /\ \A nm \in Names : rows'[nm] = rows[nm] \/ rows'[nm] = NoFlow
    BY <1>0, <1>4 DEF ClearRows, NoNames, Inserting
  <2> QED BY <1>0, <2>1, RowsInvIsKept
<1>5. CASE Reinsert(Default) \/ DelFlow(Default) \/ SkipDelFlow(Default) \/ DeleteRow(Default)
  <2>1. /\ UNCHANGED <<netAlive, snap, new, keep>> /\ pc[Default] \in {"insert", "unrow"}
        /\ pc'[Default] \in {"insert", "unrow", "report"}
        /\ \A nm \in Names : rows'[nm] = rows[nm] \/ rows'[nm] = NoFlow
        /\ prune'[Default] \subseteq prune[Default]
    BY <1>0, <1>5 DEF Reinsert, DelFlow, SkipDelFlow, LookAt, DeleteRow
  <2> QED BY <1>0, <2>1, RowsInvIsKept DEF Inserting
<1> QED BY <1>1, <1>2, <1>3, <1>4, <1>5 DEF Thread, ReadStep, WriteStep

\* Every step keeps RowsInv.
LEMMA NextRowsInv ==
  ASSUME Ofcs = {Default}, VlanIsMatched, IInv, SyncInv, RowsInv, [Next]_vars
  PROVE  RowsInv'
<1>1. TypeInv /\ Default \in Ofcs
  BY TopologyIsTyped DEF IInv
<1>2. ASSUME NEW h \in HttpThreads, Request(h) \/ Proceed(h) PROVE RowsInv'
  BY <1>1, <1>2, HttpRowsInv
<1>3. ASSUME NEW c \in Ofcs, Thread(c) PROVE RowsInv'
  BY <1>3, ThreadRowsInv
<1>4. CASE Restart
  <2>1. UNCHANGED <<rows, netAlive>> /\ pc'[Default] \notin Inserting
    BY <1>1, <1>4 DEF Restart, Inserting
  <2> QED BY <1>1, <2>1, RowsInvIsKept
<1>5. CASE UNCHANGED vars
  BY <1>5 DEF vars, dbVars, readVars, planVars, RowsInv, RowsAreUnique, PlanIsRight
<1> QED BY <1>2, <1>3, <1>4, <1>5 DEF Next

\* A rule that is deleted and still wanted.
LEMMA DeletedComesBack ==
  ASSUME Ofcs = {Default}, OneLevel, IInv, SyncInv, RowsInv, [Next]_vars,
         NEW c \in Ofcs, NEW nm \in Names,
         rules[c][nm] # NoFlow, rules'[c][nm] = NoFlow, pc[c] # "clear",
         rows[nm] # NoFlow, rows[nm].net \in netAlive \ (excused \cup missed),
         rows[nm] \in Wanted(rows[nm].net)
  PROVE  RefreshPending(rows[nm].net)
<1> USE DEF dbVars, requestSide, httpVars, readVars, planVars, histVars, Goto, SetRule
<1>1. /\ TypeInv /\ c = Default /\ Default \in Ofcs
      /\ rules \in [Ofcs -> [Names -> Body \cup {NoFlow}]] /\ NoFlow \notin Body
      /\ netAlive \subseteq Nets /\ rows \in [Names -> FlowOrNone]
  BY SentinelsAreDistinct DEF IInv, TypeInv, TypeOK, TablesTyped
<1>2. CASE UNCHANGED rules
  BY <1>2
<1>3. CASE NewFlow(c) \/ Reinsert(c)
  <2>1. \A f \in Flow : BodyOf(f) # NoFlow
    BY <1>1, BodyIsTyped
  <2>2. CASE NewFlow(c)
    <3>1. PICK f \in new[c] : \E x : rules' \in {rules, [rules EXCEPT ![c][x] = BodyOf(f)]}
      BY <2>2 DEF NewFlow
    <3>2. f \in Flow
      BY <1>1 DEF TypeInv, TypeOK, PlanTyped
    <3> QED BY <1>1, <2>1, <3>1, <3>2
  <2>3. CASE Reinsert(c)
    <3>1. PICK x \in prune[c] : rules' \in {rules, [rules EXCEPT ![c][x] = BodyOf(db[c][x])]}
      BY <2>3 DEF Reinsert
    <3>2. db[c][x] \in Flow
      BY <1>1, <2>3 DEF Reinsert, TypeInv, TypeOK, ReadTyped, PrunedIsKnown, Known, Inserting,
         FlowOrNone
    <3> QED BY <1>1, <2>1, <3>1, <3>2
  <2> QED BY <1>3, <2>2, <2>3
<1>4. CASE DelFlow(c)
  <2>1. PICK x \in Unmarked(c) : rules' \in {rules, [rules EXCEPT ![c][x] = NoFlow]}
    BY <1>4 DEF DelFlow
  <2>2. x = nm /\ pc[c] = "insert"
    BY <1>1, <1>4, <2>1 DEF DelFlow
  <2>3. PICK n : n = rows[nm].net
    OBVIOUS
  <2>4. nm[1] = n /\ n \in Nets /\ n \in netAlive
    <3>1. NoNet \notin Nets
      BY SentinelsAreDistinct
    <3> QED BY <1>1, <2>3, <3>1 DEF SyncInv, TablesAreSound
  <2>a. nm \in prune[c] \ keep[c]
    <3>1. nm \in (prune[c] \ keep[c]) \cup again[c]
      BY <2>1, <2>2 DEF Unmarked, SecondEntries
    <3> QED BY <1>1, <2>2, <2>4, <3>1 DEF SyncInv, TwiceIsDead, Inserting
  <2>5. Updating /\ toRead[Default] = {}
    BY <1>1, <2>2 DEF Updating, Inserting, SyncInv, GroupIsBound
  <2>6. n \in group[Default]
    <3>1. nm \in Known(Default)
      BY <1>1, <2>2, <2>a DEF TypeInv, PrunedIsKnown, Inserting
    <3> QED BY <2>4, <2>5, <3>1 DEF SyncInv, DbIsRight
  <2>7. ~Calm(n)
    <3> SUFFICES ASSUME Calm(n) PROVE FALSE
      OBVIOUS
    <3>1. rows[nm] \in NetFlows(snap[Default])
      BY <1>1, <2>3, <2>5, <2>6, CalmWasSeen DEF Wanted
    <3> QED BY <1>1, <2>2, <2>a, <3>1 DEF RowsInv, PlanIsRight, Inserting
  <2>8. PICK m \in BoundTogether(n) : Told(m)
    BY <2>3, <2>4, <2>7 DEF Calm
  <2> QED BY <1>1, <2>2, <2>3, <2>8 DEF Told, RefreshPending
<1>5. CASE \E h \in HttpThreads : Request(h) \/ Proceed(h)
  <2>1. UNCHANGED rules
    BY <1>5 DEF Request, Proceed, CheckNewPort, NewPort, ReadPortToEdit, ReadPortToDelete,
       DeleteNet, ReadNetToEdit, ReinstallNet, ClearRules, EditPort, DeletePort, EditNet,
         InsertTask, ofcSide, threadSide
  <2> QED BY <1>2, <2>1
<1>6. CASE Thread(c) /\ ~NewFlow(c) /\ ~Reinsert(c) /\ ~DelFlow(c)
  <2>1. UNCHANGED rules
    BY <1>6 DEF Thread, ReadStep, WriteStep, TakeTask, ReadNets, ReadPorts, ReadFlows,
       ReadNullFlows, ReadFails, Raise, Refuse, GiveUp, ReadRules, NewRow, SkipDelFlow, DeleteRow,
       AllDone, Report, ClearController, ClearRows
  <2> QED BY <1>2, <2>1
<1>7. Restart \/ UNCHANGED vars => UNCHANGED rules
  BY DEF Restart, vars
<1> QED BY <1>1, <1>2, <1>3, <1>4, <1>5, <1>6, <1>7 DEF Next

\* In a process with one thread the invariant of its updates holds between any
\* two steps, whatever requests change meanwhile (openflow_thread.py:181-387).
THEOREM UpdateInvariant ==
  ASSUME Ofcs = {Default}, OneLevel, VlanIsMatched
  PROVE  Spec => []UpdateInv
<1>1. Init => SyncInv /\ RowsInv
  <2>1. Init => RowsInv
    BY TopologyIsTyped, InitRowsAreSound DEF Init, RowsInv, RowsAreUnique, PlanIsRight, Inserting
  <2> QED BY <2>1, InitSync
<1>2. IInv /\ SyncInv /\ RowsInv /\ [Next]_vars => (SyncInv /\ RowsInv)'
  BY NextSync, NextRowsInv
<1> QED
  BY <1>1, <1>2, InductiveInvariant, PTL DEF Spec, UpdateInv

\* In a process with one thread an update deletes a rule that the tables still
\* call for (del_flow in update_of_flows) only if another update that reads its
\* network is queued or about to be queued.
THEOREM WantedRulesComeBack ==
  ASSUME Ofcs = {Default}, OneLevel, VlanIsMatched
  PROVE  Spec => WantedRuleComesBack
<1>1. UpdateInv /\ [Next]_vars =>
        [\A c \in Ofcs, nm \in Names :
           /\ rules[c][nm] # NoFlow /\ rules'[c][nm] = NoFlow
           /\ pc[c] # "clear"
           /\ rows[nm] # NoFlow /\ rows[nm].net \in netAlive \ (excused \cup missed)
           /\ rows[nm] \in Wanted(rows[nm].net)
           => RefreshPending(rows[nm].net)]_vars
  BY DeletedComesBack DEF UpdateInv
<1> QED
  BY <1>1, UpdateInvariant, PTL DEF Spec, WantedRuleComesBack
=============================================================================
