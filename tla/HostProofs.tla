----------------------------- MODULE HostProofs -----------------------------
(***************************************************************************)
(* Theorems about HostThread, for any servers, cores, files, requests and  *)
(* bounds: it implements ServerLife, a machine whose server was deleted is *)
(* on its way out, and one is created on cores that nobody uses.           *)
(***************************************************************************)
EXTENDS HostThread, TLAPS

InstanceTask == [op : Actions, id : Servers, status : Status]
Placement == [op : {"place"}, id : Servers, status : {"CREATING", "INACTIVE"}]
Deletion == [op : {"delete"}, id : Servers]

\* The types that the steps on rows and machines rest on.
TablesTyped ==
  /\ row \in [Servers -> Status \cup {NoRow}]
  /\ machine \in [Servers -> MachineStates]
  /\ seen \in [Servers -> Reports \cup {NoStatus}]
  /\ http \in [HttpThreads -> InstanceTask \cup Placement \cup Deletion \cup {Idle}]
  /\ queue \in Seq(InstanceTask \cup {Reload, Exit})
  /\ req \in InstanceTask \cup {Idle, Reload, Exit}
  /\ pending \in Seq(Servers)

\* What is known of the task in progress where the thread is.
TaskFits ==
  /\ pc \in {"act", "read", "files", "create", "write", "panic"} => req \in InstanceTask
  /\ pc \in {"read", "files", "create"} => req.op \in {"start", "startRebuild", "rebuild"}
  /\ pc = "wait" => (req \in InstanceTask /\ req.op = "start") \/ req \in {Reload, Exit}
  /\ pc = "write" => new \in {"ACTIVE", "ERROR"}
  /\ req.op = "terminate" => pc \in {"act", "panic"}

TypeInv == TablesTyped /\ TaskFits

\* A server that is being placed is not there yet, and placed once.
PlacesAreNew ==
  \A h \in HttpThreads :
    http[h].op = "place" =>
      /\ http[h].id \notin born
      /\ \A k \in HttpThreads : http[k].op = "place" /\ http[k].id = http[h].id => k = h

\* A server whose row is gone, or about to go.
Going(s) ==
  \/ row[s] = NoRow
  \/ \E h \in HttpThreads : http[h].op = "delete" /\ http[h].id = s

Excused(s) == s \in abandoned \cup raced

\* Somebody has still to stop it, whether it runs or is being launched.
GoingIsStopped ==
  \A s \in Servers : (Going(s) /\ (IsLive(s) \/ s \in Looked)) => (TerminateAhead(s) \/ Excused(s))

\* The task goes before the row: a request that is about to delete the row has
\* had its terminate queued.
TaskGoesFirst ==
  \A h \in HttpThreads :
    http[h].op = "delete" =>
      TerminateAhead(http[h].id) \/ http[h].id \in shutDown \cup abandoned

PendingIsShutDown == \A i \in DOMAIN pending : pending[i] \in shutDown

\* A launch never finds the row of a server that was shut down, but in a race.
LookedIsRaced == \A s \in Looked : s \in shutDown => s \in raced

RunawayInv == GoingIsStopped /\ TaskGoesFirst /\ PendingIsShutDown /\ LookedIsRaced

IInv == TypeInv /\ PlacesAreNew /\ RunawayInv

\* Records are told apart by their op.
LEMMA Ops ==
  /\ Idle.op = "idle" /\ Reload.op = "reload" /\ Exit.op = "exit"
  /\ Idle \notin InstanceTask /\ Reload \notin InstanceTask /\ Exit \notin InstanceTask
  /\ Idle \notin {Reload, Exit} /\ Reload # Exit
  /\ \A t \in InstanceTask : t.op \in Actions /\ t.id \in Servers /\ t.status \in Status /\ t.op # "idle"
  /\ \A t \in InstanceTask \cup {Reload, Exit, Idle} : t.op \notin {"delete", "place"}
  /\ \A t \in Placement : /\ t.op = "place" /\ t.id \in Servers
                           /\ t.status \in {"CREATING", "INACTIVE"}
  /\ \A t \in Deletion : t.op = "delete" /\ t.id \in Servers
BY DEF Idle, Reload, Exit, InstanceTask, Placement, Deletion, Actions, ImageActions

LEMMA InitType == Init => TypeInv
BY Ops, ServersAreTyped
   DEF Init, TypeInv, TablesTyped, TaskFits, MachineStates, Live, NothingKnown, Status, Reports, Idle

LEMMA InitPlaces == Init => PlacesAreNew
BY Ops DEF Init, PlacesAreNew

LEMMA InitRunaway == Init => RunawayInv
BY Ops, ServersAreTyped
   DEF Init, RunawayInv, GoingIsStopped, TaskGoesFirst, PendingIsShutDown, LookedIsRaced,
       Going, Looked, IsLive, Live, Idle, Status, Reports

-----------------------------------------------------------------------------
(* Types *)

\* The end of a task, or of a try.
LEMMA ConcludeFits ==
  ASSUME req \in InstanceTask,
         NEW status \in {"ACTIVE", "ERROR"}, Conclude(status),
         status = "ERROR" \/ req.op # "terminate"
  PROVE  /\ TaskFits'
         /\ req' \in {req, Idle}
         /\ req.op = "terminate" => req' = req
         /\ pc' \in {"act", "panic", "write", "idle"}
         /\ req' # req => pc' = "idle"
BY Ops DEF Conclude, TaskDone, TaskFits, taskVars, Undecided, Idle

LEMMA DoneFits ==
  ASSUME TaskDone
  PROVE  TaskFits' /\ req' = Idle /\ pc' = "idle"
BY Ops DEF TaskDone, TaskFits

\* A request adds at most a task, and leaves the thread alone.
LEMMA RequestTypes ==
  ASSUME TypeInv,
         \/ \E h \in HttpThreads, s \in Servers, start \in {"yes", "no"} : PostServer(h, s, start)
         \/ \E h \in HttpThreads, ask \in Asked : AskAction(h, ask[1], ask[2])
         \/ \E task \in {Reload, Exit} : AskThread(task)
         \/ \E h \in HttpThreads : HttpStep(h)
  PROVE  TypeInv'
<1> USE DEF TypeInv, TablesTyped
<1>1. CASE \E h \in HttpThreads, s \in Servers, start \in {"yes", "no"} : PostServer(h, s, start)
  <2> PICK h \in HttpThreads, s \in Servers, start \in {"yes", "no"} : PostServer(h, s, start)
    BY <1>1
  <2>1. UNCHANGED <<row, machine, seen, queue, req, pending, pc, new>>
    BY DEF PostServer, dbVars, nodeVars, threadVars, taskVars, memVars
  <2>2. Task("place", s, IF start = "no" THEN "INACTIVE" ELSE "CREATING") \in Placement
    BY DEF Task, Placement
  <2>3. http' \in [HttpThreads -> InstanceTask \cup Placement \cup Deletion \cup {Idle}]
    BY <2>2 DEF PostServer
  <2> QED
    BY <2>1, <2>3 DEF TaskFits
<1>2. CASE \E h \in HttpThreads, ask \in Asked : AskAction(h, ask[1], ask[2])
  <2> PICK h \in HttpThreads, ask \in Asked : AskAction(h, ask[1], ask[2])
    BY <1>2
  <2>1. UNCHANGED <<row, machine, seen, queue, req, pending, pc, new>>
    BY DEF AskAction, nodeVars, threadVars, taskVars, memVars
  <2>2. ask[1] \in Servers /\ ask[2] \in Actions
    BY ServersAreTyped
  <2>3. row[ask[1]] \in Status
    BY <2>2 DEF AskAction
  <2>4. Task(ask[2], ask[1], row[ask[1]]) \in InstanceTask
    BY <2>2, <2>3 DEF Task, InstanceTask
  <2>5. http' \in [HttpThreads -> InstanceTask \cup Placement \cup Deletion \cup {Idle}]
    BY <2>4 DEF AskAction
  <2> QED
    BY <2>1, <2>5 DEF TaskFits
<1>3. CASE \E task \in {Reload, Exit} : AskThread(task)
  <2>1. UNCHANGED <<row, machine, seen, req, pending, pc, new, http>>
    BY <1>3 DEF AskThread, dbVars, nodeVars, taskVars, memVars
  <2>2. queue' \in Seq(InstanceTask \cup {Reload, Exit})
    BY <1>3 DEF AskThread
  <2> QED
    BY <2>1, <2>2 DEF TaskFits
<1>4. CASE \E h \in HttpThreads : InsertTask(h)
  <2> PICK h \in HttpThreads : InsertTask(h)
    BY <1>4
  <2>1. UNCHANGED <<row, machine, seen, req, pending, pc, new>>
    BY DEF InsertTask, dbVars, nodeVars, taskVars, memVars
  <2>2. http[h] \in InstanceTask
    BY Ops DEF InsertTask
  <2>3. [op |-> "delete", id |-> http[h].id] \in Deletion
    BY <2>2, Ops DEF Deletion
  <2>4. queue' \in Seq(InstanceTask \cup {Reload, Exit})
    BY <2>2 DEF InsertTask
  <2>5. http' \in [HttpThreads -> InstanceTask \cup Placement \cup Deletion \cup {Idle}]
    BY <2>3 DEF InsertTask
  <2> QED
    BY <2>1, <2>4, <2>5 DEF TaskFits
<1>5. CASE \E h \in HttpThreads : DeleteInstance(h)
  <2>1. UNCHANGED <<machine, seen, req, queue, pending, pc, new>>
    BY <1>5 DEF DeleteInstance, nodeVars, threadVars, taskVars, memVars
  <2>2. row' \in [Servers -> Status \cup {NoRow}]
    BY <1>5 DEF DeleteInstance
  <2>3. http' \in [HttpThreads -> InstanceTask \cup Placement \cup Deletion \cup {Idle}]
    BY <1>5 DEF DeleteInstance
  <2> QED
    BY <2>1, <2>2, <2>3 DEF TaskFits
<1>6. CASE \E h \in HttpThreads : NewInstance(h)
  <2> PICK h \in HttpThreads : NewInstance(h)
    BY <1>6
  <2>1. UNCHANGED <<machine, seen, queue, req, pending, pc, new>>
    BY DEF NewInstance, nodeVars, threadVars, taskVars, memVars
  <2>2. http[h] \in Placement
    BY Ops DEF NewInstance
  <2>3. Task("start", http[h].id, http[h].status) \in InstanceTask
    BY <2>2, Ops DEF Task, InstanceTask, Actions, Status, Reports
  <2>4. row' \in [Servers -> Status \cup {NoRow}]
    BY <2>2, Ops DEF NewInstance, Status, Reports
  <2>5. http' \in [HttpThreads -> InstanceTask \cup Placement \cup Deletion \cup {Idle}]
    BY <2>3 DEF NewInstance
  <2> QED
    BY <2>1, <2>4, <2>5 DEF TaskFits
<1> QED
  BY <1>1, <1>2, <1>3, <1>4, <1>5, <1>6 DEF HttpStep

\* The steps of a task that conclude with a status.
LEMMA ConcludeTypes ==
  ASSUME TypeInv, req \in InstanceTask,
         NEW status \in {"ACTIVE", "ERROR"}, Conclude(status),
         status = "ERROR" \/ req.op # "terminate",
         UNCHANGED <<row, seen, http, queue, pending>>,
         machine' \in [Servers -> MachineStates]
  PROVE  TypeInv'
BY ConcludeFits DEF TypeInv, TablesTyped

\* The steps that decide nothing.
LEMMA DoneTypes ==
  ASSUME TypeInv, TaskDone,
         UNCHANGED <<seen, http, queue>>,
         row' \in [Servers -> Status \cup {NoRow}],
         machine' \in [Servers -> MachineStates],
         pending' \in Seq(Servers)
  PROVE  TypeInv'
BY DoneFits DEF TypeInv, TablesTyped

LEMMA ActTypes ==
  ASSUME TypeInv,
         \/ ActFails \/ ActStart \/ ActStartRebuild \/ ActRebuild \/ ActTerminate
         \/ ActOther \/ ActCreateImage
  PROVE  TypeInv'
<1>0. pc = "act" /\ req \in InstanceTask /\ req.id \in Servers
  BY Ops DEF TypeInv, TaskFits, ActFails, ActStart, ActStartRebuild, ActRebuild, ActTerminate,
             ActOther, ActCreateImage
<1>1. CASE ActFails
  <2>1. UNCHANGED <<row, machine, seen, http, queue, pending>>
    BY <1>1 DEF ActFails, dbVars, nodeVars, memVars
  <2> QED
    BY <1>0, <1>1, <2>1, ConcludeTypes DEF ActFails, TypeInv, TablesTyped
<1>2. CASE ActStart
  <2>1. UNCHANGED <<row, seen, http, queue, pending>> /\ req.op = "start"
    BY <1>2 DEF ActStart, dbVars, memVars
  <2>2. machine' \in [Servers -> MachineStates]
    BY <1>0, <1>2 DEF ActStart, TypeInv, TablesTyped, MachineStates, Live
  <2>3. CASE Conclude("ACTIVE") \/ Conclude("ERROR")
    BY <1>0, <2>1, <2>2, <2>3, ConcludeTypes
  <2>4. CASE pc' = "read" /\ UNCHANGED taskVars
    BY <1>0, <2>1, <2>2, <2>4 DEF taskVars, TypeInv, TablesTyped, TaskFits
  <2> QED
    BY <1>0, <1>2, <2>3, <2>4 DEF ActStart, TypeInv, TablesTyped, MachineStates, Live
<1>3. CASE ActStartRebuild
  BY <1>0, <1>3 DEF ActStartRebuild, dbVars, nodeVars, taskVars, memVars, TypeInv, TablesTyped, TaskFits
<1>4. CASE ActRebuild
  <2>1. UNCHANGED <<row, seen, http, queue, pending>> /\ req.op = "rebuild"
    BY <1>4 DEF ActRebuild, dbVars, memVars
  <2>2. machine' \in [Servers -> MachineStates]
    BY <1>0, <1>4 DEF ActRebuild, TypeInv, TablesTyped, MachineStates
  <2>3. CASE Conclude("ERROR")
    BY <1>0, <2>1, <2>2, <2>3, ConcludeTypes
  <2>4. CASE pc' = "read" /\ UNCHANGED taskVars
    BY <1>0, <2>1, <2>2, <2>4 DEF taskVars, TypeInv, TablesTyped, TaskFits
  <2> QED
    BY <1>4, <2>3, <2>4 DEF ActRebuild
<1>5. CASE ActTerminate
  <2>1. UNCHANGED <<row, seen, http, queue>> /\ TaskDone
    BY <1>5 DEF ActTerminate, dbVars
  <2>2. machine' \in [Servers -> MachineStates]
    BY <1>0, <1>5 DEF ActTerminate, TypeInv, TablesTyped, MachineStates
  <2>3. pending' \in Seq(Servers)
    <3>1. pending' \in {pending, Append(pending, req.id)}
      BY <1>5 DEF ActTerminate
    <3>2. pending \in Seq(Servers) /\ req.id \in Servers
      BY <1>0 DEF TypeInv, TablesTyped
    <3> QED
      BY <3>1, <3>2
  <2> QED
    BY <2>1, <2>2, <2>3, DoneTypes DEF TypeInv, TablesTyped
<1>6. CASE ActOther
  <2>1. UNCHANGED <<row, seen, http, queue, pending>>
    BY <1>6 DEF ActOther, dbVars, memVars
  <2>2. machine[req.id] \in MachineStates
    BY <1>0 DEF TypeInv, TablesTyped
  <2>3. machine' \in [Servers -> MachineStates] /\ (TaskDone \/ Conclude("ERROR"))
    BY <1>0, <1>6, <2>2 DEF ActOther, TypeInv, TablesTyped, MachineStates, Live
  <2> QED
    BY <1>0, <2>1, <2>3, DoneTypes, ConcludeTypes DEF TypeInv, TablesTyped
<1>7. CASE ActCreateImage
  BY <1>0, <1>7, DoneTypes DEF ActCreateImage, nodeVars, memVars, TypeInv, TablesTyped
<1> QED
  BY <1>1, <1>2, <1>3, <1>4, <1>5, <1>6, <1>7

LEMMA LaunchTypes ==
  ASSUME TypeInv,
         GetInstance \/ PrepareFiles \/ PrepareFilesFails \/ Waited \/ CreateDomain
  PROVE  TypeInv'
<1>0. /\ UNCHANGED <<row, seen, http, queue, pending>>
      /\ req \in InstanceTask /\ req.id \in Servers
      /\ pc # "wait" => req.op \in {"start", "startRebuild", "rebuild"}
  BY Ops DEF TypeInv, TaskFits, GetInstance, PrepareFiles, PrepareFilesFails, Waited,
             CreateDomain, dbVars, nodeVars, memVars
<1>1. machine' \in [Servers -> MachineStates]
  <2>1. CASE CreateDomain
    BY <1>0, <2>1 DEF TypeInv, TablesTyped, CreateDomain, MachineStates, Live
  <2>2. CASE UNCHANGED machine
    BY <2>2 DEF TypeInv, TablesTyped
  <2> QED
    BY <2>1, <2>2 DEF GetInstance, PrepareFiles, PrepareFilesFails, Waited, nodeVars
<1>2. CASE /\ pc \in {"read", "files", "create"}
           /\ Conclude("ACTIVE") \/ Conclude("ERROR")
  BY <1>0, <1>1, <1>2, ConcludeTypes
<1>3. CASE UNCHANGED taskVars /\ pc' = "files" /\ pc = "read"
  BY <1>0, <1>1, <1>3 DEF taskVars, TypeInv, TablesTyped, TaskFits
<1>4. CASE PrepareFiles
  BY <1>0, <1>1, <1>4 DEF PrepareFiles, Rebuilding, taskVars, TypeInv, TablesTyped, TaskFits
<1>5. CASE Waited
  BY <1>0, <1>1, <1>5 DEF Waited, taskVars, TypeInv, TablesTyped, TaskFits
<1> QED
  BY <1>2, <1>3, <1>4, <1>5 DEF GetInstance, PrepareFilesFails, CreateDomain

LEMMA RestTypes ==
  ASSUME TypeInv,
         \/ TakeTask \/ WriteStatus \/ Panic \/ ForceOff \/ EndForceOff \/ ForceOffFails
         \/ SaveLocalinfo \/ Poll \/ (\E s \in Servers : PollWrite(s))
         \/ EndThread \/ Load
  PROVE  TypeInv'
<1> USE DEF TypeInv, TablesTyped
<1>1. CASE TakeTask
  <2>1. UNCHANGED <<row, machine, seen, http, pending>>
    BY <1>1 DEF TakeTask, dbVars, nodeVars, memVars
  <2>2. Head(queue) \in InstanceTask \cup {Reload, Exit} /\ Tail(queue) \in Seq(InstanceTask \cup {Reload, Exit})
    BY <1>1 DEF TakeTask
  <2> QED
    BY <1>1, <2>1, <2>2, Ops DEF TakeTask, TaskFits
<1>2. CASE WriteStatus
  <2>1. UNCHANGED <<machine, seen, http, queue, pending>> /\ TaskDone
    BY <1>2 DEF WriteStatus, nodeVars
  <2>2. row' \in [Servers -> Status \cup {NoRow}]
    BY <1>2 DEF WriteStatus, TaskFits, Status, Reports
  <2> QED
    BY <2>1, <2>2, DoneTypes
<1>3. CASE Panic
  BY <1>3, DoneTypes DEF Panic, dbVars, nodeVars
<1>4. CASE ForceOff
  <2>1. UNCHANGED <<row, seen, http, queue, taskVars>>
    BY <1>4 DEF ForceOff, dbVars
  <2>2. Head(pending) \in Servers /\ pending' \in Seq(Servers)
    BY <1>4 DEF ForceOff, MayForceOff
  <2>3. machine' \in [Servers -> MachineStates]
    BY <1>4, <2>2 DEF ForceOff, MachineStates
  <2>4. TaskFits'
    BY <1>4, <2>1 DEF ForceOff, MayForceOff, TaskFits, taskVars
  <2> QED
    BY <2>1, <2>2, <2>3, <2>4 DEF taskVars
<1>5. CASE EndForceOff
  BY <1>5 DEF EndForceOff, dbVars, nodeVars, taskVars, memVars, TaskFits
<1>6. CASE ForceOffFails
  <2>1. UNCHANGED <<row, machine, seen, http, queue, pending>>
    BY <1>6 DEF ForceOffFails, dbVars, nodeVars, memVars
  <2>2. CASE pc = "wait" /\ req.op = "start"
    BY <1>6, <2>1, <2>2, Ops, ConcludeTypes DEF ForceOffFails, TaskFits
  <2>3. CASE pc = "wait" /\ req.op # "start"
    <3>1. req \in {Reload, Exit}
      BY <2>3 DEF TaskFits
    <3>2. UNCHANGED taskVars /\ pc' \in {"load", "stopped"}
      BY <1>6, <2>3, <3>1, Ops DEF ForceOffFails
    <3> QED
      BY <2>1, <2>3, <3>2 DEF TaskFits, taskVars
  <2>4. CASE pc # "wait"
    BY <1>6, <2>1, <2>4 DEF ForceOffFails, MayForceOff, TaskFits, taskVars
  <2> QED
    BY <2>2, <2>3, <2>4
<1>7. CASE SaveLocalinfo
  BY <1>7 DEF SaveLocalinfo, dbVars, taskVars, TaskFits
<1>8. CASE Poll
  <2>1. seen' \in [Servers -> Reports \cup {NoStatus}]
    BY <1>8 DEF Poll, Reported, MachineStates, Live, Reports
  <2> QED
    BY <1>8, <2>1 DEF Poll, dbVars, nodeVars, taskVars, TaskFits
<1>9. CASE \E s \in Servers : PollWrite(s)
  <2> PICK s \in Servers : PollWrite(s)
    BY <1>9
  <2>1. row' \in [Servers -> Status \cup {NoRow}]
    BY DEF PollWrite, Status
  <2>2. seen' \in [Servers -> Reports \cup {NoStatus}]
    BY DEF PollWrite
  <2> QED
    BY <2>1, <2>2 DEF PollWrite, nodeVars, taskVars, TaskFits
<1>10. CASE EndThread
  BY <1>10, Ops DEF EndThread, dbVars, TaskFits
<1>11. CASE Load
  BY <1>11, Ops DEF Load, dbVars, TaskFits
<1> QED
  BY <1>1, <1>2, <1>3, <1>4, <1>5, <1>6, <1>7, <1>8, <1>9, <1>10, <1>11

LEMMA EnvironmentTypes ==
  ASSUME TypeInv,
         \/ Restart
         \/ \E s \in Servers, state \in GuestEvents \cup {"none"} : ShutsDown(s, state)
         \/ \E s \in Servers, state \in GuestEvents : GuestEvent(s, state)
         \/ ReplaceImage
  PROVE  TypeInv'
<1> USE DEF TypeInv, TablesTyped
<1>1. CASE Restart
  BY <1>1, Ops DEF Restart, dbVars, nodeVars, TaskFits
<1>2. CASE \E s \in Servers, state \in GuestEvents \cup {"none"} : ShutsDown(s, state)
  BY <1>2, ServersAreTyped
     DEF ShutsDown, dbVars, threadVars, taskVars, memVars, TaskFits, MachineStates, Live
<1>3. CASE \E s \in Servers, state \in GuestEvents : GuestEvent(s, state)
  BY <1>3, ServersAreTyped
     DEF GuestEvent, dbVars, threadVars, taskVars, memVars, TaskFits, MachineStates, Live
<1>4. CASE ReplaceImage
  BY <1>4 DEF ReplaceImage, dbVars, threadVars, taskVars, memVars, TaskFits
<1> QED
  BY <1>1, <1>2, <1>3, <1>4

LEMMA StutterTypes ==
  ASSUME TypeInv, UNCHANGED vars
  PROVE  TypeInv'
BY DEF vars, dbVars, nodeVars, threadVars, taskVars, memVars, TypeInv, TablesTyped, TaskFits

LEMMA TypeInvStep ==
  ASSUME TypeInv, [Next]_vars
  PROVE  TypeInv'
BY RequestTypes, ActTypes, LaunchTypes, RestTypes, EnvironmentTypes, StutterTypes
   DEF Next, ThreadStep

\* Only a placement adds a request to place, of a server that is new.
LEMMA PlacesStep ==
  ASSUME TypeInv, PlacesAreNew, [Next]_vars
  PROVE  PlacesAreNew'
<1>1. CASE /\ UNCHANGED born
           /\ \A h \in HttpThreads : http'[h] = http[h] \/ http'[h].op # "place"
  BY <1>1 DEF PlacesAreNew
<1>2. CASE \E h \in HttpThreads, s \in Servers, start \in {"yes", "no"} : PostServer(h, s, start)
  <2> PICK h \in HttpThreads, s \in Servers, start \in {"yes", "no"} : PostServer(h, s, start)
    BY <1>2
  <2>1. /\ s \notin born /\ UNCHANGED born
        /\ \A k \in HttpThreads : http[k].op = "place" => http[k].id # s
        /\ \A k \in HttpThreads : k # h => http'[k] = http[k]
        /\ http'[h].op = "place" /\ http'[h].id = s
    BY Ops DEF PostServer, dbVars, Task, TypeInv, TablesTyped
  <2> QED
    BY <2>1 DEF PlacesAreNew
<1>3. CASE \E h \in HttpThreads : NewInstance(h)
  <2> PICK h \in HttpThreads : NewInstance(h)
    BY <1>3
  <2>1. /\ born' \subseteq born \cup {http[h].id} /\ http[h].op = "place"
        /\ \A k \in HttpThreads : k # h => http'[k] = http[k]
        /\ http'[h].op # "place"
    BY Ops DEF NewInstance, Task, TypeInv, TablesTyped
  <2> QED
    BY <2>1 DEF PlacesAreNew
<1>4. CASE \/ \E h \in HttpThreads, ask \in Asked : AskAction(h, ask[1], ask[2])
           \/ \E task \in {Reload, Exit} : AskThread(task)
           \/ \E h \in HttpThreads : InsertTask(h) \/ DeleteInstance(h)
  <2>1. CASE \E h \in HttpThreads, ask \in Asked : AskAction(h, ask[1], ask[2])
    <3>1. \A ask \in Asked : ask[2] \in Actions
      BY ServersAreTyped
    <3> QED
      BY <1>1, <2>1, <3>1 DEF AskAction, Task, Actions, ImageActions, TypeInv, TablesTyped
  <2>2. CASE \/ \E task \in {Reload, Exit} : AskThread(task)
             \/ \E h \in HttpThreads : InsertTask(h) \/ DeleteInstance(h)
    BY <1>1, <2>2, Ops DEF AskThread, InsertTask, DeleteInstance, dbVars, TypeInv, TablesTyped
  <2> QED
    BY <1>4, <2>1, <2>2
<1>5. CASE ThreadStep
  BY <1>1, <1>5
     DEF ThreadStep, TakeTask, ActFails, ActStart, ActStartRebuild, ActRebuild, ActTerminate, ActOther,
         ActCreateImage, GetInstance, PrepareFiles, PrepareFilesFails, Waited, CreateDomain, WriteStatus,
         Panic, ForceOff, EndForceOff, ForceOffFails, SaveLocalinfo, Poll, PollWrite, EndThread, Load, dbVars
<1>6. CASE Restart
  BY <1>1, <1>6, Ops DEF Restart, dbVars
<1>7. CASE \/ \E s \in Servers, state \in GuestEvents \cup {"none"} : ShutsDown(s, state)
           \/ \E s \in Servers, state \in GuestEvents : GuestEvent(s, state)
           \/ ReplaceImage \/ UNCHANGED vars
  BY <1>1, <1>7 DEF ShutsDown, GuestEvent, ReplaceImage, vars, dbVars
<1> QED
  BY <1>2, <1>3, <1>4, <1>5, <1>6, <1>7 DEF Next, HttpStep

-----------------------------------------------------------------------------
(* The life of a server *)

LEMMA LookedIs ==
  ASSUME TypeInv
  PROVE  /\ pc \in {"files", "create"} => Looked = {req.id}
         /\ (pc = "wait" /\ req.op = "start") => Looked = {req.id}
         /\ pc \notin {"files", "wait", "create"} => Looked = {}
         /\ (pc = "wait" /\ req.op # "start") => Looked = {}
         /\ Looked \subseteq Servers
BY Ops DEF TypeInv, TaskFits, Looked

\* The thread stops looking, or was not.
LEMMA GivenUp ==
  ASSUME TypeInv, UNCHANGED <<row, machine, born>>, Looked' = {}
  PROVE  [Life!LifeNext]_(Life!lifeVars)
<1>1. CASE Looked = {}
  BY <1>1 DEF Life!lifeVars
<1>2. CASE Looked # {}
  <2>1. PICK s \in Servers : Looked = {s}
    BY <1>2, LookedIs DEF Looked
  <2>2. Life!GiveUp(s)
    BY <2>1 DEF Life!GiveUp
  <2> QED
    BY <2>2 DEF Life!LifeNext
<1> QED
  BY <1>1, <1>2

\* The machine of one server changes.
LEMMA Changed ==
  ASSUME TypeInv, UNCHANGED <<row, born>>, Looked' = Looked,
         NEW s \in Servers, NEW state \in MachineStates,
         machine[s] # "none" \/ state = "none",
         machine' = [machine EXCEPT ![s] = state]
  PROVE  [Life!LifeNext]_(Life!lifeVars)
<1>1. CASE machine[s] # "none"
  <2>1. Life!Change(s, state) /\ state \in Life!MachineStates
    BY <1>1 DEF Life!Change, Life!MachineStates, MachineStates, Live
  <2> QED
    BY <2>1 DEF Life!LifeNext
<1>2. CASE machine[s] = "none"
  <2>1. machine' = machine
    BY <1>2 DEF TypeInv, TablesTyped
  <2> QED
    BY <2>1 DEF Life!lifeVars
<1> QED
  BY <1>1, <1>2

\* A status is written to a row that is there.
LEMMA Written ==
  ASSUME TypeInv, UNCHANGED <<machine, born>>, Looked' = Looked,
         NEW s \in Servers, NEW status \in Reports,
         row' = IF row[s] = NoRow THEN row ELSE [row EXCEPT ![s] = status]
  PROVE  [Life!LifeNext]_(Life!lifeVars)
<1>1. CASE row[s] # NoRow
  <2>1. Life!Report(s, status) /\ status \in Life!Reports
    BY <1>1 DEF Life!Report, Life!Reports, Reports
  <2> QED
    BY <2>1 DEF Life!LifeNext
<1>2. CASE row[s] = NoRow
  BY <1>2 DEF Life!lifeVars
<1> QED
  BY <1>1, <1>2

LEMMA InitLife == Init => Life!LifeInit
<1> SUFFICES ASSUME Init PROVE Life!LifeInit
  OBVIOUS
<1>1. Looked = {}
  BY DEF Init, Looked
<1>2. \A s \in Servers : row[s] # NoRow <=> diskOf[s] # Absent
  BY ServersAreTyped DEF Init, Status, Reports
<1>3. row \in [Servers -> {NoRow} \cup Life!Reports]
  BY DEF Init, Life!Reports
<1>4. machine \in [Servers -> Life!MachineStates]
  BY DEF Init, Life!MachineStates
<1>5. born = {s \in Servers : row[s] # NoRow}
  BY <1>2 DEF Init
<1>6. \A s \in Servers \ born : machine[s] = "none"
  BY DEF Init
<1> QED
  BY <1>1, <1>3, <1>4, <1>5, <1>6 DEF Life!LifeInit

LEMMA RequestLives ==
  ASSUME TypeInv, PlacesAreNew,
         \/ \E h \in HttpThreads, s \in Servers, start \in {"yes", "no"} : PostServer(h, s, start)
         \/ \E h \in HttpThreads, ask \in Asked : AskAction(h, ask[1], ask[2])
         \/ \E task \in {Reload, Exit} : AskThread(task)
         \/ \E h \in HttpThreads : HttpStep(h)
  PROVE  [Life!LifeNext]_(Life!lifeVars)
<1>0. UNCHANGED <<machine, pc, req>> /\ Looked' = Looked
  BY DEF PostServer, AskAction, AskThread, HttpStep, NewInstance, InsertTask, DeleteInstance,
         nodeVars, threadVars, taskVars, Looked
<1>1. CASE \E h \in HttpThreads : NewInstance(h)
  <2> PICK h \in HttpThreads : NewInstance(h)
    BY <1>1
  <2>1. CASE UNCHANGED <<row, born>>
    BY <1>0, <2>1 DEF Life!lifeVars
  <2>2. CASE /\ row' = [row EXCEPT ![http[h].id] = http[h].status]
             /\ born' = born \cup {http[h].id}
    <3>1. http[h] \in Placement /\ http[h].id \notin born
      BY Ops DEF NewInstance, TypeInv, TablesTyped, PlacesAreNew
    <3>2. Life!Order(http[h].id, http[h].status)
      BY <1>0, <2>2, <3>1 DEF Life!Order
    <3> QED
      BY <3>1, <3>2, Ops DEF Life!LifeNext
  <2> QED
    BY <2>1, <2>2 DEF NewInstance
<1>2. CASE \E h \in HttpThreads : DeleteInstance(h)
  <2> PICK h \in HttpThreads : DeleteInstance(h)
    BY <1>2
  <2>1. http[h].id \in Servers
    BY Ops DEF DeleteInstance, TypeInv, TablesTyped
  <2>2. UNCHANGED born /\ row' \in {row, [row EXCEPT ![http[h].id] = NoRow]}
    BY DEF DeleteInstance
  <2>3. CASE row[http[h].id] = NoRow \/ row' = row
    <3>1. row' = row
      BY <2>1, <2>2, <2>3 DEF TypeInv, TablesTyped
    <3> QED
      BY <1>0, <2>2, <3>1 DEF Life!lifeVars
  <2>4. CASE row[http[h].id] # NoRow /\ row' # row
    <3>1. Life!Remove(http[h].id)
      BY <1>0, <2>2, <2>4 DEF Life!Remove
    <3> QED
      BY <2>1, <3>1 DEF Life!LifeNext
  <2> QED
    BY <2>3, <2>4
<1>3. CASE \/ \E h \in HttpThreads, s \in Servers, start \in {"yes", "no"} : PostServer(h, s, start)
           \/ \E h \in HttpThreads, ask \in Asked : AskAction(h, ask[1], ask[2])
           \/ \E task \in {Reload, Exit} : AskThread(task)
           \/ \E h \in HttpThreads : InsertTask(h)
  BY <1>0, <1>3 DEF PostServer, AskAction, AskThread, InsertTask, dbVars, Life!lifeVars
<1> QED
  BY <1>1, <1>2, <1>3 DEF HttpStep

LEMMA ActLives ==
  ASSUME TypeInv,
         \/ ActFails \/ ActStart \/ ActStartRebuild \/ ActRebuild \/ ActTerminate
         \/ ActOther \/ ActCreateImage
  PROVE  [Life!LifeNext]_(Life!lifeVars)
<1>0. /\ pc = "act" /\ req \in InstanceTask /\ req.id \in Servers
      /\ machine[req.id] \in MachineStates
      /\ UNCHANGED <<row, born>>
      /\ Looked = {}
  BY Ops, LookedIs DEF TypeInv, TablesTyped, TaskFits, ActFails, ActStart, ActStartRebuild, ActRebuild,
             ActTerminate, ActOther, ActCreateImage, dbVars
<1>1. pc' \notin {"files", "wait", "create"}
  BY <1>0 DEF ActFails, ActStart, ActStartRebuild, ActRebuild, ActTerminate, ActOther,
              ActCreateImage, Conclude, TaskDone, MachineStates, Live
<1>2. Looked' = {}
  BY <1>1 DEF Looked
<1>3. CASE UNCHANGED machine
  BY <1>0, <1>2, <1>3 DEF Life!lifeVars
<1>4. CASE \E state \in MachineStates :
             /\ machine[req.id] # "none" \/ state = "none"
             /\ machine' = [machine EXCEPT ![req.id] = state]
  BY <1>0, <1>2, <1>4, Changed
<1>5. CASE ActFails \/ ActStartRebuild \/ ActCreateImage
  BY <1>3, <1>5 DEF ActFails, ActStartRebuild, ActCreateImage, nodeVars
<1>6. CASE ActStart
  BY <1>0, <1>3, <1>4, <1>6 DEF ActStart, MachineStates, Live
<1>7. CASE ActRebuild \/ ActTerminate
  BY <1>3, <1>4, <1>7 DEF ActRebuild, ActTerminate, MachineStates
<1>8. CASE ActOther
  BY <1>0, <1>3, <1>4, <1>8 DEF ActOther, MachineStates, Live
<1> QED
  BY <1>5, <1>6, <1>7, <1>8

LEMMA LaunchLives ==
  ASSUME TypeInv,
         GetInstance \/ PrepareFiles \/ PrepareFilesFails \/ Waited \/ CreateDomain
  PROVE  [Life!LifeNext]_(Life!lifeVars)
<1>0. /\ UNCHANGED <<row, born>>
      /\ req \in InstanceTask /\ req.id \in Servers
      /\ pc # "read" => Looked = {req.id}
      /\ pc = "read" => Looked = {}
  BY Ops, LookedIs DEF TypeInv, TaskFits, GetInstance, PrepareFiles, PrepareFilesFails, Waited,
                       CreateDomain, dbVars
<1>1. CASE UNCHANGED machine /\ (Conclude("ACTIVE") \/ Conclude("ERROR"))
  <2>1. Looked' = {}
    BY <1>1 DEF Conclude, TaskDone, Looked
  <2> QED
    BY <1>0, <1>1, <2>1, GivenUp
<1>2. CASE UNCHANGED <<machine, taskVars>> /\ pc' \in {"wait", "create"} /\ pc # "read"
  <2>1. Looked' = Looked
    BY <1>0, <1>2, Ops DEF Looked, taskVars
  <2> QED
    BY <1>0, <1>2, <2>1 DEF Life!lifeVars
<1>3. CASE GetInstance /\ pc' = "files" /\ UNCHANGED taskVars /\ row[req.id] # NoRow
  <2>1. Looked' = {req.id}
    BY <1>0, <1>3, Ops DEF Looked, taskVars
  <2>2. Life!Look(req.id)
    BY <1>0, <1>3, <2>1 DEF Life!Look, GetInstance, nodeVars
  <2> QED
    BY <1>0, <2>2 DEF Life!LifeNext
<1>4. CASE /\ CreateDomain
           /\ machine[req.id] = "none"
           /\ machine' = [machine EXCEPT ![req.id] = "running"]
           /\ Conclude("ACTIVE")
  <2>1. Looked' = {}
    BY <1>4 DEF Conclude, TaskDone, Looked
  <2>2. Looked = {req.id}
    BY <1>0, <1>4 DEF CreateDomain
  <2>3. Life!Launch(req.id)
    BY <1>0, <1>4, <2>1, <2>2 DEF Life!Launch
  <2> QED
    BY <1>0, <2>3 DEF Life!LifeNext
<1>5. CASE GetInstance
  BY <1>1, <1>3, <1>5 DEF GetInstance, nodeVars
<1>6. CASE PrepareFiles \/ PrepareFilesFails \/ Waited
  BY <1>1, <1>2, <1>6 DEF PrepareFiles, PrepareFilesFails, Waited, nodeVars
<1>7. CASE CreateDomain
  BY <1>1, <1>4, <1>7 DEF CreateDomain
<1> QED
  BY <1>5, <1>6, <1>7

LEMMA RestLives ==
  ASSUME TypeInv,
         \/ TakeTask \/ WriteStatus \/ Panic \/ ForceOff \/ EndForceOff \/ ForceOffFails
         \/ SaveLocalinfo \/ Poll \/ (\E s \in Servers : PollWrite(s))
         \/ EndThread \/ Load
  PROVE  [Life!LifeNext]_(Life!lifeVars)
<1>1. CASE ForceOff
  <2>1. UNCHANGED <<row, born>> /\ Looked' = Looked
    BY <1>1 DEF ForceOff, MayForceOff, dbVars, taskVars, Looked
  <2>2. Head(pending) \in Servers
    BY <1>1 DEF ForceOff, MayForceOff, TypeInv, TablesTyped
  <2>3. "none" \in MachineStates
    BY DEF MachineStates
  <2> QED
    BY <1>1, <2>1, <2>2, <2>3, Changed DEF ForceOff
<1>2. CASE WriteStatus
  <2>1. req.id \in Servers /\ new \in Reports
    BY <1>2, Ops DEF WriteStatus, TypeInv, TaskFits, Reports
  <2>2. UNCHANGED <<machine, born>> /\ Looked' = Looked
    BY <1>2 DEF WriteStatus, nodeVars, TaskDone, Looked
  <2>3. CASE row' = row
    BY <2>2, <2>3 DEF Life!lifeVars
  <2> QED
    BY <1>2, <2>1, <2>2, <2>3, Written DEF WriteStatus
<1>3. CASE \E s \in Servers : PollWrite(s)
  <2> PICK s \in Servers : PollWrite(s)
    BY <1>3
  <2>1. seen[s] \in Reports
    BY DEF PollWrite, TypeInv, TablesTyped
  <2>2. UNCHANGED <<machine, born>> /\ Looked' = Looked
    BY DEF PollWrite, nodeVars, taskVars, Looked
  <2>3. CASE row' = row
    BY <2>2, <2>3 DEF Life!lifeVars
  <2> QED
    BY <2>1, <2>2, <2>3, Written DEF PollWrite
<1>4. CASE ForceOffFails
  <2>1. UNCHANGED <<row, machine, born>>
    BY <1>4 DEF ForceOffFails, dbVars, nodeVars
  <2>2. Looked' = {}
    <3>1. CASE pc = "wait" /\ req.op = "start"
      BY <1>4, <3>1 DEF ForceOffFails, Conclude, TaskDone, Looked
    <3>2. CASE pc = "wait" /\ req.op # "start"
      <4>1. req \in {Reload, Exit}
        BY <3>2 DEF TypeInv, TaskFits
      <4> QED
        BY <1>4, <3>2, <4>1, Ops DEF ForceOffFails, Looked
    <3>3. CASE pc # "wait"
      BY <1>4, <3>3 DEF ForceOffFails, MayForceOff, Looked
    <3> QED
      BY <3>1, <3>2, <3>3
  <2> QED
    BY <2>1, <2>2, GivenUp
<1>5. CASE TakeTask \/ Panic \/ EndForceOff \/ SaveLocalinfo \/ Poll \/ EndThread \/ Load
  <2>1. UNCHANGED <<row, machine, born>>
    BY <1>5 DEF TakeTask, Panic, EndForceOff, SaveLocalinfo, Poll, EndThread, Load, dbVars, nodeVars
  <2>2. Looked' = {}
    BY <1>5, Ops DEF TakeTask, Panic, EndForceOff, SaveLocalinfo, Poll, EndThread, Load, TaskDone, Looked
  <2> QED
    BY <2>1, <2>2, GivenUp
<1> QED
  BY <1>1, <1>2, <1>3, <1>4, <1>5

LEMMA EnvironmentLives ==
  ASSUME TypeInv,
         \/ Restart
         \/ \E s \in Servers, state \in GuestEvents \cup {"none"} : ShutsDown(s, state)
         \/ \E s \in Servers, state \in GuestEvents : GuestEvent(s, state)
         \/ ReplaceImage
  PROVE  [Life!LifeNext]_(Life!lifeVars)
<1>1. CASE Restart
  <2>1. UNCHANGED <<row, machine, born>> /\ Looked' = {}
    BY <1>1 DEF Restart, dbVars, nodeVars, Looked
  <2> QED
    BY <2>1, GivenUp
<1>2. CASE \E s \in Servers, state \in MachineStates :
             /\ machine[s] = "running"
             /\ machine' = [machine EXCEPT ![s] = state]
             /\ UNCHANGED <<dbVars, threadVars>>
  <2>1. UNCHANGED <<row, born>> /\ Looked' = Looked
    BY <1>2 DEF dbVars, threadVars, taskVars, Looked
  <2> QED
    BY <1>2, <2>1, Changed
<1>3. CASE \E s \in Servers, state \in GuestEvents \cup {"none"} : ShutsDown(s, state)
  BY <1>2, <1>3, ServersAreTyped DEF ShutsDown, MachineStates, Live
<1>4. CASE \E s \in Servers, state \in GuestEvents : GuestEvent(s, state)
  BY <1>2, <1>4, ServersAreTyped DEF GuestEvent, MachineStates, Live
<1>5. CASE ReplaceImage
  BY <1>5 DEF ReplaceImage, dbVars, threadVars, taskVars, Looked, Life!lifeVars
<1> QED
  BY <1>1, <1>3, <1>4, <1>5

LEMMA LifeStep ==
  ASSUME TypeInv, PlacesAreNew, [Next]_vars
  PROVE  [Life!LifeNext]_(Life!lifeVars)
<1>1. CASE UNCHANGED vars
  BY <1>1 DEF vars, dbVars, nodeVars, threadVars, taskVars, Looked, Life!lifeVars
<1> QED
  BY <1>1, RequestLives, ActLives, LaunchLives, RestLives, EnvironmentLives DEF Next, ThreadStep

\* Whatever the requests, the thread, the guests, failures and stops do: each
\* step is one of the life of a server, or none.
THEOREM ServersLive == Spec => ImplementsServerLife
<1>1. Init => TypeInv /\ PlacesAreNew
  BY InitType, InitPlaces
<1>2. TypeInv /\ PlacesAreNew /\ [Next]_vars => TypeInv' /\ PlacesAreNew'
  BY TypeInvStep, PlacesStep
<1>3. Init => Life!LifeInit
  BY InitLife
<1>4. TypeInv /\ PlacesAreNew /\ [Next]_vars => [Life!LifeNext]_(Life!lifeVars)
  BY LifeStep
<1> QED
  BY <1>1, <1>2, <1>3, <1>4, PTL DEF Spec, ImplementsServerLife, Life!LifeSpec

-----------------------------------------------------------------------------
(* The machines of deleted servers *)

\* A step that gives no orders: what is ahead stays ahead, no row goes, and no
\* machine comes up but one that was looked for.
Quiet ==
  /\ UNCHANGED <<queue, pending, http, shutDown, born, lost>>
  /\ req' \in {req, Idle}
  /\ req.op = "terminate" => req' = req
  /\ \A s \in Servers : row'[s] = NoRow <=> row[s] = NoRow
  /\ \A s \in Servers : IsLive(s)' => IsLive(s) \/ s \in Looked
  /\ Looked' \subseteq Looked
  /\ abandoned \subseteq abandoned'
  /\ raced \subseteq raced'

LEMMA QuietStep ==
  ASSUME RunawayInv, Quiet, TypeInv
  PROVE  RunawayInv'
<1>1. \A s : TerminateAhead(s) => TerminateAhead(s)'
  BY DEF Quiet, TerminateAhead
<1>2. \A s \in Servers : Going(s)' => Going(s)
  BY DEF Quiet, Going
<1>3. GoingIsStopped'
  BY <1>1, <1>2 DEF Quiet, RunawayInv, GoingIsStopped, Excused
<1>4. TaskGoesFirst'
  BY <1>1 DEF Quiet, RunawayInv, TaskGoesFirst
<1>5. PendingIsShutDown' /\ LookedIsRaced'
  BY DEF Quiet, RunawayInv, PendingIsShutDown, LookedIsRaced
<1> QED
  BY <1>3, <1>4, <1>5 DEF RunawayInv

\* The requests: the thread, the machines and the history stay as they are.
LEMMA RequestStops ==
  ASSUME TypeInv, RunawayInv,
         UNCHANGED <<machine, pc, req, pending, shutDown, raced, abandoned>>,
         \A s \in Servers : Going(s)' => Going(s) \/ TerminateAhead(s)',
         \A s : TerminateAhead(s) => TerminateAhead(s)',
         \A h \in HttpThreads : http'[h].op = "delete" =>
           http'[h] = http[h] \/ \E s : http'[h].id = s /\ TerminateAhead(s)'
  PROVE  RunawayInv'
<1>1. Looked' = Looked /\ \A s : IsLive(s)' <=> IsLive(s)
  BY DEF Looked, IsLive
<1>2. GoingIsStopped'
  BY <1>1 DEF RunawayInv, GoingIsStopped, Excused
<1>3. TaskGoesFirst'
  <2> SUFFICES ASSUME NEW h \in HttpThreads, http'[h].op = "delete", NEW s, http'[h].id = s
               PROVE  TerminateAhead(s)' \/ s \in shutDown' \cup abandoned'
    BY DEF TaskGoesFirst, TerminateAhead
  <2>1. CASE http'[h] = http[h]
    <3>1. TerminateAhead(s) \/ s \in shutDown \cup abandoned
      BY <2>1 DEF RunawayInv, TaskGoesFirst
    <3> QED
      BY <3>1
  <2> QED
    BY <2>1
<1>4. PendingIsShutDown' /\ LookedIsRaced'
  BY <1>1 DEF RunawayInv, PendingIsShutDown, LookedIsRaced
<1> QED
  BY <1>2, <1>3, <1>4 DEF RunawayInv

\* A task at the end of the queue hides none of those before it.
LEMMA Queued ==
  ASSUME NEW S, NEW q \in Seq(S), NEW t \in S
  PROVE  /\ \A i \in DOMAIN q : i \in DOMAIN Append(q, t) /\ Append(q, t)[i] = q[i]
         /\ Len(q) + 1 \in DOMAIN Append(q, t) /\ Append(q, t)[Len(q) + 1] = t
OBVIOUS

LEMMA PostServerStops ==
  ASSUME IInv, NEW h \in HttpThreads, NEW s \in Servers, NEW start \in {"yes", "no"},
         PostServer(h, s, start)
  PROVE  RunawayInv'
<1>1. UNCHANGED <<row, machine, pc, req, queue, pending, shutDown, raced, abandoned>>
  BY DEF PostServer, dbVars, nodeVars, threadVars, taskVars, memVars
<1>2. \A k \in HttpThreads : http'[k] = http[k] \/ (http[k] = Idle /\ http'[k].op # "delete" /\ k = h)
  BY Ops DEF PostServer, Task, IInv, TypeInv, TablesTyped
<1>3. \A t : TerminateAhead(t) => TerminateAhead(t)'
  BY <1>1, <1>2, Ops DEF TerminateAhead
<1>4. \A t \in Servers : Going(t)' => Going(t)
  BY <1>1, <1>2 DEF Going
<1> QED
  BY <1>1, <1>2, <1>3, <1>4, RequestStops DEF IInv

LEMMA NewInstanceStops ==
  ASSUME IInv, NEW h \in HttpThreads, NewInstance(h)
  PROVE  RunawayInv'
<1>1. UNCHANGED <<machine, pc, req, queue, pending, shutDown, raced, abandoned>>
  BY DEF NewInstance, nodeVars, threadVars, taskVars, memVars, histVars
<1>2. http[h] \in Placement
  BY Ops DEF NewInstance, IInv, TypeInv, TablesTyped
<1>3. \A k \in HttpThreads :
        http'[k] = http[k] \/ (http[k].op = "place" /\ http'[k].op # "delete" /\ k = h)
  BY Ops DEF NewInstance, Task, IInv, TypeInv, TablesTyped
<1>4. \A t : TerminateAhead(t) => TerminateAhead(t)'
  BY <1>1, <1>3 DEF TerminateAhead
<1>5. \A t \in Servers : row'[t] = NoRow => row[t] = NoRow
  BY <1>2, Ops, ServersAreTyped DEF NewInstance, Status, Reports, IInv, TypeInv, TablesTyped
<1>6. \A t \in Servers : Going(t)' => Going(t)
  BY <1>3, <1>5 DEF Going
<1> QED
  BY <1>1, <1>3, <1>4, <1>6, RequestStops DEF IInv

LEMMA AskActionStops ==
  ASSUME IInv, NEW h \in HttpThreads, NEW s \in Servers, NEW act \in Actions,
         AskAction(h, s, act)
  PROVE  RunawayInv'
<1>1. UNCHANGED <<row, machine, pc, req, queue, pending, shutDown, raced, abandoned>>
  BY DEF AskAction, nodeVars, threadVars, taskVars, memVars, histVars
<1>2. \A k \in HttpThreads : http'[k] = http[k] \/ (http[k] = Idle /\ http'[k].op # "delete" /\ k = h)
  BY Ops DEF AskAction, Task, IInv, TypeInv, TablesTyped, Actions, ImageActions
<1>3. \A t : TerminateAhead(t) => TerminateAhead(t)'
  BY <1>1, <1>2, Ops DEF TerminateAhead
<1>4. \A t \in Servers : Going(t)' => Going(t)
  BY <1>1, <1>2 DEF Going
<1> QED
  BY <1>1, <1>2, <1>3, <1>4, RequestStops DEF IInv

LEMMA AskThreadStops ==
  ASSUME IInv, NEW task \in {Reload, Exit}, AskThread(task)
  PROVE  RunawayInv'
<1>1. /\ UNCHANGED <<row, http, machine, pc, req, pending, shutDown, raced, abandoned>>
      /\ queue' = Append(queue, task)
  BY DEF AskThread, dbVars, nodeVars, taskVars, memVars, histVars
<1>2. \A i \in DOMAIN queue : i \in DOMAIN queue' /\ queue'[i] = queue[i]
  BY <1>1, Queued DEF IInv, TypeInv, TablesTyped
<1>3. \A t : TerminateAhead(t) => TerminateAhead(t)'
  BY <1>1, <1>2 DEF TerminateAhead
<1> QED
  BY <1>1, <1>3, RequestStops DEF IInv, Going

\* The row is about to go, and the terminate is in the queue.
LEMMA InsertTaskStops ==
  ASSUME IInv, NEW h \in HttpThreads, InsertTask(h)
  PROVE  RunawayInv'
<1>1. /\ UNCHANGED <<row, machine, pc, req, pending, shutDown, raced, abandoned>>
      /\ queue' = Append(queue, http[h])
      /\ http[h] \in InstanceTask
  BY Ops DEF InsertTask, dbVars, nodeVars, taskVars, memVars, histVars, IInv, TypeInv, TablesTyped
<1>2. /\ \A i \in DOMAIN queue : i \in DOMAIN queue' /\ queue'[i] = queue[i]
      /\ \E i \in DOMAIN queue' : queue'[i] = http[h]
  BY <1>1, Queued DEF IInv, TypeInv, TablesTyped
<1>3. http[h].op = "terminate" => \E s : s = http[h].id /\ TerminateAhead(s)'
  BY <1>2 DEF TerminateAhead
<1>4. \A k \in HttpThreads :
        \/ http'[k] = http[k] /\ k # h
        \/ k = h /\ http'[k] = Idle /\ http[k].op # "terminate"
        \/ k = h /\ http'[k].op = "delete" /\ http'[k].id = http[h].id /\ http[h].op = "terminate"
  BY DEF InsertTask, IInv, TypeInv, TablesTyped
<1>5. \A t : TerminateAhead(t) => TerminateAhead(t)'
  <2> SUFFICES ASSUME NEW t, TerminateAhead(t) PROVE TerminateAhead(t)'
    OBVIOUS
  <2>1. CASE \E k \in HttpThreads : http[k].op = "terminate" /\ http[k].id = t
    BY <1>3, <1>4, <2>1 DEF TerminateAhead
  <2> QED
    BY <1>1, <1>2, <2>1 DEF TerminateAhead
<1>6. \A t \in Servers : Going(t)' => Going(t) \/ TerminateAhead(t)'
  BY <1>1, <1>3, <1>4, Ops DEF Going
<1>7. \A k \in HttpThreads : http'[k].op = "delete" =>
        http'[k] = http[k] \/ \E s : http'[k].id = s /\ TerminateAhead(s)'
  BY <1>3, <1>4, Ops
<1> QED
  BY <1>1, <1>5, <1>6, <1>7, RequestStops DEF IInv

LEMMA DeleteInstanceStops ==
  ASSUME IInv, NEW h \in HttpThreads, DeleteInstance(h)
  PROVE  RunawayInv'
<1>1. UNCHANGED <<machine, pc, req, queue, pending, shutDown, raced, abandoned>>
  BY DEF DeleteInstance, nodeVars, threadVars, taskVars, memVars, histVars
<1>2. \A k \in HttpThreads : http'[k] = http[k] \/ (k = h /\ http'[k] = Idle)
  BY DEF DeleteInstance, IInv, TypeInv, TablesTyped
<1>3. \A t : TerminateAhead(t) => TerminateAhead(t)'
  BY <1>1, <1>2 DEF TerminateAhead, DeleteInstance
<1>4. \A t \in Servers : Going(t)' => Going(t)
  BY <1>2, Ops DEF Going, DeleteInstance, IInv, TypeInv, TablesTyped
<1> QED
  BY <1>1, <1>2, <1>3, <1>4, Ops, RequestStops DEF IInv

LEMMA ActIsQuiet ==
  ASSUME TypeInv,
         ActFails \/ ActStart \/ ActStartRebuild \/ ActRebuild \/ ActOther \/ ActCreateImage
  PROVE  Quiet
<1>0. /\ pc = "act" /\ req \in InstanceTask /\ req.id \in Servers
      /\ machine[req.id] \in MachineStates
      /\ UNCHANGED <<row, born, lost, queue, pending, http, shutDown, raced, abandoned>>
  BY Ops DEF TypeInv, TablesTyped, TaskFits, ActFails, ActStart, ActStartRebuild, ActRebuild,
             ActOther, ActCreateImage, dbVars, memVars, histVars
<1>1. pc' \notin {"files", "wait", "create"}
  BY <1>0 DEF ActFails, ActStart, ActStartRebuild, ActRebuild, ActOther,
              ActCreateImage, Conclude, TaskDone, MachineStates, Live
<1>2. Looked' = {}
  BY <1>1 DEF Looked
<1>3. req' \in {req, Idle} /\ (req.op = "terminate" => req' = req)
  <2>1. CASE ActFails
    BY <2>1 DEF ActFails, Conclude, TaskDone, Undecided, taskVars
  <2>2. CASE ActOther
    BY <2>2 DEF ActOther, Conclude, TaskDone, taskVars
  <2>3. CASE ActStart \/ ActStartRebuild \/ ActRebuild \/ ActCreateImage
    BY <1>0, <2>3
       DEF ActStart, ActStartRebuild, ActRebuild, ActCreateImage, ImageActions, Conclude, TaskDone, taskVars,
           MachineStates, Live
  <2> QED
    BY <2>1, <2>2, <2>3
<1>4. \A s \in Servers : IsLive(s)' => IsLive(s)
  <2>1. CASE UNCHANGED machine
    BY <2>1 DEF IsLive
  <2>2. CASE \E state : /\ state \in Live => machine[req.id] \in Live
                        /\ machine' = [machine EXCEPT ![req.id] = state]
    BY <1>0, <2>2 DEF IsLive, TypeInv, TablesTyped
  <2>3. CASE ActFails \/ ActStartRebuild \/ ActCreateImage
    BY <2>1, <2>3 DEF ActFails, ActStartRebuild, ActCreateImage, nodeVars
  <2>4. CASE ActStart
    BY <1>0, <2>1, <2>2, <2>4 DEF ActStart, MachineStates, Live
  <2>5. CASE ActRebuild
    BY <2>1, <2>2, <2>5 DEF ActRebuild, Live
  <2>6. CASE ActOther
    BY <1>0, <2>1, <2>2, <2>6 DEF ActOther, IsLive, MachineStates, Live
  <2> QED
    BY <2>3, <2>4, <2>5, <2>6
<1> QED
  BY <1>0, <1>2, <1>3, <1>4 DEF Quiet

LEMMA LaunchIsQuiet ==
  ASSUME TypeInv, PrepareFiles \/ PrepareFilesFails \/ Waited \/ CreateDomain
  PROVE  Quiet
<1>0. /\ UNCHANGED <<row, born, lost, queue, pending, http, shutDown, raced, abandoned>>
      /\ req \in InstanceTask /\ req.id \in Servers /\ req.op # "terminate"
      /\ Looked = {req.id}
  BY Ops, LookedIs DEF TypeInv, TaskFits, PrepareFiles, PrepareFilesFails, Waited, CreateDomain,
                       dbVars, memVars, histVars
<1>1. Looked' \subseteq Looked
  <2>1. CASE UNCHANGED taskVars
    BY <1>0, <2>1 DEF taskVars, Looked
  <2>2. CASE Conclude("ACTIVE") \/ Conclude("ERROR")
    BY <2>2 DEF Conclude, TaskDone, Looked
  <2> QED
    BY <2>1, <2>2 DEF PrepareFiles, PrepareFilesFails, Waited, CreateDomain
<1>2. \A s \in Servers : s # req.id => machine'[s] = machine[s]
  BY DEF PrepareFiles, PrepareFilesFails, Waited, CreateDomain, nodeVars, TypeInv, TablesTyped
<1>3. \A s \in Servers : IsLive(s)' => IsLive(s) \/ s \in Looked
  BY <1>0, <1>2 DEF IsLive
<1>4. req' \in {req, Idle}
  BY DEF PrepareFiles, PrepareFilesFails, Waited, CreateDomain, Conclude, TaskDone, taskVars
<1> QED
  BY <1>0, <1>1, <1>3, <1>4 DEF Quiet

LEMMA RestIsQuiet ==
  ASSUME TypeInv,
         \/ WriteStatus \/ EndForceOff \/ ForceOffFails \/ SaveLocalinfo
         \/ Poll \/ (\E s \in Servers : PollWrite(s)) \/ EndThread \/ Load
  PROVE  Quiet
<1>0. /\ UNCHANGED <<born, lost, machine, queue, pending, http, shutDown, raced, abandoned>>
      /\ pc \notin {"act", "panic"}
      /\ req.op # "terminate"
  BY DEF TypeInv, TaskFits, WriteStatus, EndForceOff, ForceOffFails, MayForceOff, SaveLocalinfo, Poll,
         PollWrite, EndThread, Load, dbVars, nodeVars, memVars, histVars
<1>1. \A s \in Servers : row'[s] = NoRow <=> row[s] = NoRow
  <2>1. CASE WriteStatus
    <3>1. new # NoRow
      BY <2>1, ServersAreTyped DEF WriteStatus, TypeInv, TaskFits, Status, Reports
    <3> QED
      BY <2>1, <3>1 DEF WriteStatus, TypeInv, TablesTyped
  <2>2. CASE \E s \in Servers : PollWrite(s)
    <3> PICK s \in Servers : PollWrite(s)
      BY <2>2
    <3>1. seen[s] # NoRow
      BY ServersAreTyped DEF PollWrite, TypeInv, TablesTyped, Status
    <3> QED
      BY <3>1 DEF PollWrite, TypeInv, TablesTyped
  <2>3. CASE EndForceOff \/ ForceOffFails \/ SaveLocalinfo \/ Poll \/ EndThread \/ Load
    BY <2>3 DEF EndForceOff, ForceOffFails, SaveLocalinfo, Poll, EndThread, Load, dbVars
  <2> QED
    BY <2>1, <2>2, <2>3
<1>2. Looked' \subseteq Looked
  <2>1. CASE ForceOffFails
    <3>1. CASE pc = "wait" /\ req.op = "start"
      BY <2>1, <3>1 DEF ForceOffFails, Conclude, TaskDone, Looked
    <3>2. CASE pc = "wait" /\ req.op # "start"
      <4>1. req \in {Reload, Exit}
        BY <3>2 DEF TypeInv, TaskFits
      <4> QED
        BY <2>1, <3>2, <4>1, Ops DEF ForceOffFails, Looked
    <3>3. CASE pc # "wait"
      BY <2>1, <3>3 DEF ForceOffFails, MayForceOff, Looked
    <3> QED
      BY <3>1, <3>2, <3>3
  <2>2. CASE \/ WriteStatus \/ EndForceOff \/ SaveLocalinfo \/ Poll
             \/ (\E s \in Servers : PollWrite(s)) \/ EndThread \/ Load
    BY <2>2 DEF WriteStatus, EndForceOff, SaveLocalinfo, Poll, PollWrite, EndThread, Load, TaskDone,
                Looked
  <2> QED
    BY <2>1, <2>2
<1>3. \A s \in Servers : IsLive(s)' => IsLive(s)
  BY <1>0 DEF IsLive
<1>4. req' \in {req, Idle}
  <2>1. CASE ForceOffFails
    BY <2>1, Ops DEF ForceOffFails, MayForceOff, Conclude, TaskDone, taskVars, TypeInv, TaskFits
  <2>2. CASE \/ WriteStatus \/ EndForceOff \/ SaveLocalinfo \/ Poll
             \/ (\E s \in Servers : PollWrite(s)) \/ EndThread \/ Load
    BY <2>2 DEF WriteStatus, EndForceOff, SaveLocalinfo, Poll, PollWrite, EndThread, Load, TaskDone,
                taskVars
  <2> QED
    BY <2>1, <2>2
<1> QED
  BY <1>0, <1>1, <1>2, <1>3, <1>4 DEF Quiet

LEMMA GuestsAreQuiet ==
  ASSUME TypeInv,
         \/ \E s \in Servers, state \in GuestEvents \cup {"none"} : ShutsDown(s, state)
         \/ \E s \in Servers, state \in GuestEvents : GuestEvent(s, state)
         \/ ReplaceImage
  PROVE  Quiet
<1>1. UNCHANGED <<row, born, lost, pc, req, queue, pending, http, shutDown, raced, abandoned>>
  BY DEF ShutsDown, GuestEvent, ReplaceImage, dbVars, threadVars, taskVars, memVars, histVars
<1>2. \A s \in Servers : IsLive(s)' => IsLive(s)
  BY DEF ShutsDown, GuestEvent, ReplaceImage, IsLive, Live, TypeInv, TablesTyped
<1> QED
  BY <1>1, <1>2 DEF Quiet, Looked

\* A head that is taken leaves the others in the queue.
LEMMA Taken ==
  ASSUME NEW S, NEW q \in Seq(S), q # << >>, NEW i \in DOMAIN q
  PROVE  \/ q[i] = Head(q)
         \/ \E j \in DOMAIN Tail(q) : Tail(q)[j] = q[i]
<1>1. CASE i = 1
  BY <1>1
<1>2. CASE i # 1
  <2>1. i - 1 \in DOMAIN Tail(q) /\ Tail(q)[i - 1] = q[i]
    BY <1>2
  <2> QED
    BY <2>1
<1> QED
  BY <1>1, <1>2

LEMMA TakeTaskStops ==
  ASSUME IInv, TakeTask
  PROVE  RunawayInv'
<1>1. /\ UNCHANGED <<row, http, machine, pending, shutDown, raced, abandoned>>
      /\ queue # << >> /\ queue \in Seq(InstanceTask \cup {Reload, Exit})
      /\ req' = Head(queue) /\ queue' = Tail(queue)
      /\ req.op # "terminate"
  BY DEF TakeTask, dbVars, nodeVars, memVars, histVars, IInv, TypeInv, TablesTyped, TaskFits
<1>2. \A s : TerminateAhead(s) => TerminateAhead(s)'
  <2> SUFFICES ASSUME NEW s, TerminateAhead(s) PROVE TerminateAhead(s)'
    OBVIOUS
  <2>1. CASE \E i \in DOMAIN queue : queue[i].op = "terminate" /\ queue[i].id = s
    <3>1. PICK i \in DOMAIN queue : queue[i].op = "terminate" /\ queue[i].id = s
      BY <2>1
    <3>2. queue[i] = req' \/ \E j \in DOMAIN queue' : queue'[j] = queue[i]
      BY <1>1, Taken
    <3> QED
      BY <3>1, <3>2 DEF TerminateAhead
  <2> QED
    BY <1>1, <2>1 DEF TerminateAhead
<1>3. Looked' = {}
  BY DEF TakeTask, Looked
<1>4. GoingIsStopped'
  BY <1>1, <1>2, <1>3 DEF IInv, RunawayInv, GoingIsStopped, Going, Excused, IsLive
<1>5. TaskGoesFirst'
  BY <1>1, <1>2 DEF IInv, RunawayInv, TaskGoesFirst
<1>6. PendingIsShutDown' /\ LookedIsRaced'
  BY <1>1, <1>3 DEF IInv, RunawayInv, PendingIsShutDown, LookedIsRaced
<1> QED
  BY <1>4, <1>5, <1>6 DEF RunawayInv

\* A live machine is put on the list; one that is not is gone.
LEMMA ActTerminateStops ==
  ASSUME IInv, ActTerminate
  PROVE  RunawayInv'
<1>1. /\ UNCHANGED <<row, http, queue, raced, abandoned>>
      /\ shutDown' = shutDown \cup {req.id}
      /\ req.id \in Servers /\ req' = Idle
      /\ pending \in Seq(Servers)
  BY Ops DEF ActTerminate, TaskDone, dbVars, IInv, TypeInv, TablesTyped, TaskFits
<1>2. Looked' = {}
  BY DEF ActTerminate, TaskDone, Looked
<1>3. \A i \in DOMAIN pending : i \in DOMAIN pending' /\ pending'[i] = pending[i]
  BY <1>1, Queued DEF ActTerminate
<1>4. \A s \in Servers : TerminateAhead(s) => TerminateAhead(s)' \/ s = req.id
  BY <1>1, <1>3 DEF TerminateAhead
<1>5. machine'[req.id] \in Live => \E i \in DOMAIN pending' : pending'[i] = req.id
  <2>1. CASE IsLive(req.id)
    <3>1. pending' = Append(pending, req.id)
      BY <2>1 DEF ActTerminate
    <3> QED
      BY <1>1, <3>1, Queued
  <2>2. CASE ~IsLive(req.id)
    <3>1. machine' = [machine EXCEPT ![req.id] = "none"]
      BY <2>2 DEF ActTerminate
    <3> QED
      BY <1>1, <3>1 DEF IInv, TypeInv, TablesTyped, Live
  <2> QED
    BY <2>1, <2>2
<1>6. \A s \in Servers : s # req.id => (IsLive(s)' => IsLive(s))
  BY DEF ActTerminate, IsLive, IInv, TypeInv, TablesTyped
<1>7. GoingIsStopped'
  <2> SUFFICES ASSUME NEW s \in Servers, Going(s)', IsLive(s)'
               PROVE  TerminateAhead(s)' \/ Excused(s)'
    BY <1>2 DEF GoingIsStopped
  <2>1. CASE s = req.id
    BY <1>5, <2>1 DEF TerminateAhead, IsLive
  <2>2. CASE s # req.id
    BY <1>1, <1>4, <1>6, <2>2 DEF IInv, RunawayInv, GoingIsStopped, Going, Excused
  <2> QED
    BY <2>1, <2>2
<1>8. TaskGoesFirst'
  <2> SUFFICES ASSUME NEW h \in HttpThreads, http[h].op = "delete", NEW s, s = http[h].id
               PROVE  TerminateAhead(s)' \/ s \in shutDown' \cup abandoned'
    BY <1>1 DEF TaskGoesFirst, TerminateAhead
  <2>1. s \in Servers
    BY Ops DEF IInv, TypeInv, TablesTyped
  <2> QED
    BY <1>1, <1>4, <2>1 DEF IInv, RunawayInv, TaskGoesFirst
<1>9. PendingIsShutDown' /\ LookedIsRaced'
  <2>1. pending' = pending \/ pending' = Append(pending, req.id)
    BY DEF ActTerminate
  <2> QED
    BY <1>1, <1>2, <2>1 DEF IInv, RunawayInv, PendingIsShutDown, LookedIsRaced
<1> QED
  BY <1>7, <1>8, <1>9 DEF RunawayInv

\* The row was found: if it is about to go, its terminate is still ahead or
\* this is the race.
LEMMA GetInstanceStops ==
  ASSUME IInv, GetInstance
  PROVE  RunawayInv'
<1>1. /\ UNCHANGED <<row, machine, http, queue, pending, shutDown, abandoned>>
      /\ raced \subseteq raced'
      /\ req.id \in Servers /\ req.op # "terminate" /\ pc = "read"
  BY Ops DEF GetInstance, dbVars, nodeVars, memVars, IInv, TypeInv, TaskFits
<1>2. \A s : TerminateAhead(s) => TerminateAhead(s)'
  BY <1>1 DEF TerminateAhead
<1>3. TaskGoesFirst' /\ PendingIsShutDown'
  BY <1>1, <1>2 DEF IInv, RunawayInv, TaskGoesFirst, PendingIsShutDown
<1>4. CASE pc' = "files" /\ UNCHANGED taskVars
  <2>1. row[req.id] # NoRow /\ (req.id \in shutDown => req.id \in raced')
    BY <1>1, <1>4 DEF GetInstance, Conclude, TaskDone
  <2>2. Looked' \subseteq {req.id}
    BY <1>4 DEF Looked, taskVars
  <2>3. LookedIsRaced'
    BY <1>1, <2>1, <2>2 DEF LookedIsRaced
  <2>4. Going(req.id) => TerminateAhead(req.id) \/ req.id \in abandoned \cup raced'
    BY <2>1 DEF Going, IInv, RunawayInv, TaskGoesFirst
  <2>5. GoingIsStopped'
    <3> SUFFICES ASSUME NEW s \in Servers, Going(s), IsLive(s) \/ s = req.id
                 PROVE  TerminateAhead(s) \/ s \in abandoned \cup raced'
      BY <1>1, <1>2, <2>2 DEF GoingIsStopped, Going, IsLive, Excused
    <3> QED
      BY <1>1, <2>4 DEF IInv, RunawayInv, GoingIsStopped, Excused
  <2> QED
    BY <1>3, <2>3, <2>5 DEF RunawayInv
<1>5. CASE Conclude("ACTIVE") \/ Conclude("ERROR")
  <2>1. Looked' = {}
    BY <1>5 DEF Conclude, TaskDone, Looked
  <2>2. GoingIsStopped' /\ LookedIsRaced'
    BY <1>1, <1>2, <2>1
       DEF IInv, RunawayInv, GoingIsStopped, LookedIsRaced, Going, IsLive, Excused
  <2> QED
    BY <1>3, <2>2 DEF RunawayInv
<1> QED
  BY <1>4, <1>5 DEF GetInstance

LEMMA PanicStops ==
  ASSUME IInv, Panic
  PROVE  RunawayInv'
<1>1. /\ UNCHANGED <<row, machine, http, queue, pending, shutDown, raced>>
      /\ abandoned' = abandoned \cup {req.id}
  BY DEF Panic, dbVars, nodeVars
<1>2. \A s : TerminateAhead(s) => TerminateAhead(s)' \/ s = req.id
  BY <1>1 DEF TerminateAhead
<1>3. Looked' = {}
  BY DEF Panic, TaskDone, Looked
<1>4. GoingIsStopped'
  BY <1>1, <1>2, <1>3 DEF IInv, RunawayInv, GoingIsStopped, Going, IsLive, Excused
<1>5. TaskGoesFirst'
  BY <1>1, <1>2 DEF IInv, RunawayInv, TaskGoesFirst
<1>6. PendingIsShutDown' /\ LookedIsRaced'
  BY <1>1, <1>3 DEF IInv, RunawayInv, PendingIsShutDown, LookedIsRaced
<1> QED
  BY <1>4, <1>5, <1>6 DEF RunawayInv

\* The head of the list is stopped.  A launch of it can be in progress only
\* after the race.
LEMMA ForceOffStops ==
  ASSUME IInv, ForceOff
  PROVE  RunawayInv'
<1> DEFINE s == Head(pending)
<1>1. /\ UNCHANGED <<row, http, queue, req, shutDown, raced, abandoned>>
      /\ pending # << >> /\ pending \in Seq(Servers) /\ pending' = Tail(pending)
      /\ s \in Servers
      /\ machine' = [machine EXCEPT ![s] = "none"]
      /\ Looked' = Looked
  BY DEF ForceOff, MayForceOff, dbVars, taskVars, histVars, Looked, IInv, TypeInv, TablesTyped
<1>2. \A t : TerminateAhead(t) => TerminateAhead(t)' \/ t = s
  <2> SUFFICES ASSUME NEW t, TerminateAhead(t), t # s PROVE TerminateAhead(t)'
    OBVIOUS
  <2>1. CASE \E i \in DOMAIN pending : pending[i] = t
    <3>1. PICK i \in DOMAIN pending : pending[i] = t
      BY <2>1
    <3>2. \E j \in DOMAIN pending' : pending'[j] = t
      BY <1>1, <3>1, Taken
    <3> QED
      BY <3>2 DEF TerminateAhead
  <2> QED
    BY <1>1, <2>1 DEF TerminateAhead
<1>3. s \in shutDown
  BY <1>1 DEF IInv, RunawayInv, PendingIsShutDown
<1>4. \A t \in Servers : IsLive(t)' => IsLive(t) /\ t # s
  BY <1>1 DEF IsLive, Live, IInv, TypeInv, TablesTyped
<1>5. GoingIsStopped'
  <2> SUFFICES ASSUME NEW t \in Servers, Going(t), IsLive(t)' \/ t \in Looked
               PROVE  TerminateAhead(t)' \/ Excused(t)
    BY <1>1 DEF GoingIsStopped, Going, Excused
  <2>1. CASE t = s
    BY <1>3, <1>4, <2>1 DEF IInv, RunawayInv, LookedIsRaced, Excused
  <2>2. CASE t # s
    BY <1>2, <1>4, <2>2 DEF IInv, RunawayInv, GoingIsStopped
  <2> QED
    BY <2>1, <2>2
<1>6. TaskGoesFirst'
  BY <1>1, <1>2, <1>3 DEF IInv, RunawayInv, TaskGoesFirst
<1>7. PendingIsShutDown' /\ LookedIsRaced'
  <2>1. \A j \in DOMAIN Tail(pending) : j + 1 \in DOMAIN pending /\ Tail(pending)[j] = pending[j + 1]
    BY <1>1
  <2> QED
    BY <1>1, <2>1 DEF IInv, RunawayInv, PendingIsShutDown, LookedIsRaced
<1> QED
  BY <1>5, <1>6, <1>7 DEF RunawayInv

\* What was still ahead is forgotten, and excused.
LEMMA RestartStops ==
  ASSUME IInv, Restart
  PROVE  RunawayInv'
<1>1. /\ UNCHANGED <<row, machine, shutDown, raced>>
      /\ abandoned' = abandoned \cup {s \in Servers : TerminateAhead(s)}
      /\ http' = [h \in HttpThreads |-> Idle]
      /\ pending' = << >>
  BY DEF Restart, dbVars, nodeVars
<1>2. Looked' = {}
  BY DEF Restart, Looked
<1>3. \A s \in Servers : Going(s)' => Going(s)
  BY <1>1, Ops DEF Going
<1>4. GoingIsStopped'
  BY <1>1, <1>2, <1>3 DEF IInv, RunawayInv, GoingIsStopped, IsLive, Excused
<1>5. TaskGoesFirst' /\ PendingIsShutDown' /\ LookedIsRaced'
  BY <1>1, <1>2, Ops DEF TaskGoesFirst, PendingIsShutDown, LookedIsRaced
<1> QED
  BY <1>4, <1>5 DEF RunawayInv

LEMMA RunawayStep ==
  ASSUME IInv, [Next]_vars
  PROVE  RunawayInv'
<1>0. TypeInv /\ RunawayInv
  BY DEF IInv
<1>1. CASE \E h \in HttpThreads, s \in Servers, start \in {"yes", "no"} : PostServer(h, s, start)
  BY <1>1, PostServerStops
<1>2. CASE \E h \in HttpThreads, ask \in Asked : AskAction(h, ask[1], ask[2])
  <2>1. \A ask \in Asked : ask[1] \in Servers /\ ask[2] \in Actions
    BY ServersAreTyped
  <2> QED
    BY <1>2, <2>1, AskActionStops
<1>3. CASE \E task \in {Reload, Exit} : AskThread(task)
  BY <1>3, AskThreadStops
<1>4. CASE \E h \in HttpThreads : HttpStep(h)
  BY <1>4, NewInstanceStops, InsertTaskStops, DeleteInstanceStops DEF HttpStep
<1>5. CASE ThreadStep
  BY <1>0, <1>5, QuietStep, ActIsQuiet, LaunchIsQuiet, RestIsQuiet, TakeTaskStops,
     ActTerminateStops, GetInstanceStops, PanicStops, ForceOffStops
     DEF ThreadStep
<1>6. CASE Restart
  BY <1>6, RestartStops
<1>7. CASE \/ \E s \in Servers, state \in GuestEvents \cup {"none"} : ShutsDown(s, state)
           \/ \E s \in Servers, state \in GuestEvents : GuestEvent(s, state)
           \/ ReplaceImage
  BY <1>0, <1>7, QuietStep, GuestsAreQuiet
<1>8. CASE UNCHANGED vars
  <2>1. Quiet
    BY <1>8 DEF vars, dbVars, nodeVars, threadVars, taskVars, memVars, histVars, Quiet, Looked, IsLive
  <2> QED
    BY <1>0, <2>1, QuietStep
<1> QED
  BY <1>1, <1>2, <1>3, <1>4, <1>5, <1>6, <1>7, <1>8 DEF Next

\* The inductive invariant of the thread with its requests.
THEOREM InductiveInvariant == Spec => []IInv
<1>1. Init => IInv
  BY InitType, InitPlaces, InitRunaway DEF IInv
<1>2. IInv /\ [Next]_vars => IInv'
  BY TypeInvStep, PlacesStep, RunawayStep DEF IInv
<1> QED
  BY <1>1, <1>2, PTL DEF Spec

\* However requests, the thread, failures and stops interleave: a machine that
\* runs without a row in instances is still to be stopped by somebody, or a
\* terminate of it failed twice or was forgotten by a restart, or a launch found
\* the row between the terminate and its deletion.
THEOREM DeletedAreStopped == Spec => []NoRunawayMachine
<1>1. IInv => NoRunawayMachine
  BY DEF IInv, RunawayInv, GoingIsStopped, NoRunawayMachine, Going, Excused
<1> QED
  BY <1>1, InductiveInvariant, PTL

-----------------------------------------------------------------------------
(***************************************************************************)
(* A machine is created on cores that nobody uses: the cores of a deleted  *)
(* server are given to the next at once, while its machine has 10 s to     *)
(* shut down.  What keeps the two apart is the order of the tasks and the  *)
(* wait of launch_server.                                                  *)
(***************************************************************************)

IsFor(task, s) == task \in InstanceTask /\ task.id = s
Terminates(task, s) == task.op = "terminate" /\ task.id = s
InPending(s) == \E i \in DOMAIN pending : pending[i] = s

\* Two servers with a core in common, which neither has lost to another.
Share(s, t) == s # t /\ Uses[s] \cap Uses[t] # {} /\ {s, t} \cap Robbed = {}

\* Servers with rows have cores of their own, but for those that lost some.
RowsApart == \A s, t \in Servers : Share(s, t) => row[s] = NoRow \/ row[t] = NoRow

\* Cores are lost only to a server that was placed at the same time.
RivalsInv ==
  /\ Robbed \subseteq rivals
  /\ \A h \in HttpThreads, t \in Servers :
       (http[h].op = "place" /\ row[t] # NoRow /\ Uses[http[h].id] \cap Uses[t] # {}) => t \in rivals
  /\ \A h, k \in HttpThreads :
       (h # k /\ http[h].op = "place" /\ http[k].op = "place") => http[h].id \in rivals

\* Machines and launches are of servers that have had a row,
BornFirst ==
  \A s \in Servers : row[s] # NoRow \/ machine[s] # "none" \/ s \in Looked => s \in born

\* and so are tasks and requests.
TasksAreBorn ==
  \A s \in Servers :
    (\/ \E i \in DOMAIN queue : IsFor(queue[i], s)
     \/ IsFor(req, s)
     \/ \E h \in HttpThreads : http[h].op \notin {"idle", "place"} /\ http[h].id = s)
    => s \in born

\* The terminate of s was carried out or given up.
Served(s) == s \in shutDown \cup abandoned

\* It was, or it is before the thread.
Ordered(s) ==
  \/ Served(s)
  \/ Terminates(req, s)
  \/ \E i \in DOMAIN queue : Terminates(queue[i], s)

WasOrdered == \A s \in Servers : Going(s) /\ s \in born => Ordered(s)

\* It was, or the thread will have it before the task at i.
OrderedBefore(i, s) ==
  \/ Served(s)
  \/ Terminates(req, s)
  \/ \E j \in DOMAIN queue : j < i /\ Terminates(queue[j], s)

\* The tasks of a server come after the terminate of those whose cores it has.
InOrder ==
  \A s, t \in Servers :
    Share(s, t) /\ row[s] # NoRow /\ t \in born =>
      /\ \A i \in DOMAIN queue : IsFor(queue[i], s) => OrderedBefore(i, t)
      /\ IsFor(req, s) => Served(t)

\* A live machine that was told to shut down is on the list.
ShutDownIsPending ==
  \A s \in Servers : s \in shutDown /\ IsLive(s) => InPending(s) \/ Excused(s)

\* A live machine on the cores of a launch is on the list.
LaunchFits ==
  \A s, t \in Servers :
    s \in Looked /\ Share(s, t) /\ IsLive(t) => InPending(t) \/ Excused(s) \/ Excused(t)

WaitedIsEmpty == pc = "create" /\ req.op = "start" => pending = << >>

OrderInv == RowsApart /\ TasksAreBorn /\ WasOrdered /\ InOrder
ListInv == ShutDownIsPending /\ LaunchFits
CoresInv == IInv /\ BornFirst /\ OrderInv /\ ListInv /\ WaitedIsEmpty /\ RivalsInv

LEMMA ShareKept ==
  ASSUME Robbed \subseteq Robbed'
  PROVE  \A s, t : Share(s, t)' => Share(s, t)
BY DEF Share

LEMMA SameLost ==
  ASSUME UNCHANGED lost
  PROVE  Robbed \subseteq Robbed'
BY DEF Robbed

LEMMA InitCores == Init => BornFirst /\ OrderInv /\ ListInv /\ WaitedIsEmpty /\ RivalsInv
<1> SUFFICES ASSUME Init PROVE BornFirst /\ OrderInv /\ ListInv /\ WaitedIsEmpty /\ RivalsInv
  OBVIOUS
<1>1. /\ queue = << >> /\ req = Idle /\ pc = "load" /\ shutDown = {}
      /\ \A h \in HttpThreads : http[h] = Idle
      /\ \A s \in Servers : /\ row[s] = NoRow <=> diskOf[s] = Absent
                            /\ machine[s] # "none" => diskOf[s] # Absent
                            /\ s \in born <=> diskOf[s] # Absent
  BY ServersAreTyped DEF Init, Status, Reports
<1>2. Looked = {}
  BY <1>1 DEF Looked
<1>3. BornFirst /\ ListInv /\ WaitedIsEmpty
  BY <1>1, <1>2 DEF BornFirst, ListInv, ShutDownIsPending, LaunchFits, WaitedIsEmpty
<1>4. RowsApart
  <2>1. diskOf \in InitFiles
    BY DEF Init
  <2> QED
    BY <1>1, <2>1, CoresOfRunning DEF RowsApart, Share
<1>5. TasksAreBorn /\ WasOrdered /\ InOrder
  BY <1>1, Ops DEF TasksAreBorn, WasOrdered, InOrder, IsFor, Going
<1>6. RivalsInv
  BY <1>1, Ops DEF RivalsInv, Robbed, Init
<1> QED
  BY <1>3, <1>4, <1>5, <1>6 DEF OrderInv

\* It is the life of a server that its machine comes after its row.
LEMMA BornStep ==
  ASSUME TypeInv, PlacesAreNew, BornFirst, [Next]_vars
  PROVE  BornFirst' /\ born \subseteq born'
<1>1. [Life!LifeNext]_(Life!lifeVars)
  BY LifeStep
<1>2. CASE UNCHANGED <<row, machine, born, Looked>>
  BY <1>2 DEF BornFirst
<1>3. CASE Life!LifeNext
  <2>1. PICK s \in Servers :
          \/ \E status \in {"CREATING", "INACTIVE"} : Life!Order(s, status)
          \/ \E status \in Life!Reports : Life!Report(s, status)
          \/ Life!Remove(s) \/ Life!Look(s) \/ Life!GiveUp(s) \/ Life!Launch(s)
          \/ \E state \in Life!MachineStates : Life!Change(s, state)
    BY <1>3 DEF Life!LifeNext
  <2>2. CASE \E status \in {"CREATING", "INACTIVE"} : Life!Order(s, status)
    BY <2>2 DEF Life!Order, BornFirst, TypeInv, TablesTyped
  <2>3. CASE \/ \E status \in Life!Reports : Life!Report(s, status)
             \/ Life!Remove(s)
    BY <2>3 DEF Life!Report, Life!Remove, BornFirst, TypeInv, TablesTyped
  <2>4. CASE Life!Look(s) \/ Life!GiveUp(s)
    BY <2>4 DEF Life!Look, Life!GiveUp, BornFirst
  <2>5. CASE Life!Launch(s)
    BY <2>5 DEF Life!Launch, BornFirst, TypeInv, TablesTyped
  <2>6. CASE \E state \in Life!MachineStates : Life!Change(s, state)
    BY <2>6 DEF Life!Change, BornFirst, TypeInv, TablesTyped
  <2> QED
    BY <2>1, <2>2, <2>3, <2>4, <2>5, <2>6
<1> QED
  BY <1>1, <1>2, <1>3 DEF Life!lifeVars

-----------------------------------------------------------------------------
(* Steps that give no orders *)

LEMMA OneLooked == \A s, t \in Looked : s = t
BY DEF Looked

\* The queue stays as it is, and nothing is served less.
LEMMA OrderKept ==
  ASSUME TypeInv, OrderInv,
         UNCHANGED <<queue, http, born, lost>>,
         req' \in {req, Idle},
         \A s \in Servers : row'[s] = NoRow <=> row[s] = NoRow,
         \A s \in Servers : Served(s) => Served(s)',
         \A s \in Servers : Terminates(req, s) => Terminates(req', s) \/ Served(s)'
  PROVE  OrderInv'
<1>0. \A s, t : Share(s, t)' => Share(s, t)
  BY SameLost, ShareKept
<1>1. \A s : IsFor(req', s) => IsFor(req, s)
  BY Ops DEF IsFor
<1>2. RowsApart' /\ TasksAreBorn'
  BY <1>0, <1>1 DEF OrderInv, RowsApart, TasksAreBorn, IsFor
<1>3. WasOrdered'
  <2>1. \A s \in Servers : Going(s)' => Going(s)
    BY DEF Going
  <2>2. \A s \in Servers : Ordered(s) => Ordered(s)'
    BY DEF Ordered, Terminates
  <2> QED
    BY <2>1, <2>2 DEF OrderInv, WasOrdered
<1>4. InOrder'
  <2>1. \A s \in Servers : \A i : OrderedBefore(i, s) => OrderedBefore(i, s)'
    BY DEF OrderedBefore, Terminates
  <2> QED
    BY <1>0, <1>1, <2>1 DEF OrderInv, InOrder, IsFor
<1> QED
  BY <1>2, <1>3, <1>4 DEF OrderInv

LEMMA QuietCores ==
  ASSUME IInv, OrderInv, ListInv, Quiet
  PROVE  OrderInv' /\ ListInv'
<1>0. \A s, t : Share(s, t)' => Share(s, t)
  BY SameLost, ShareKept DEF Quiet
<1>1. \A s : (Served(s) => Served(s)') /\ (Excused(s) => Excused(s)') /\ (InPending(s) => InPending(s)')
  BY DEF Quiet, Served, Excused, InPending
<1>2. OrderInv'
  <2>1. \A s : Terminates(req, s) => Terminates(req', s)
    BY DEF Quiet, Terminates
  <2> QED
    BY <1>1, <2>1, OrderKept DEF Quiet, IInv
<1>3. ShutDownIsPending'
  BY <1>1 DEF Quiet, IInv, RunawayInv, LookedIsRaced, ListInv, ShutDownIsPending, Excused
<1>4. LaunchFits'
  <2>1. \A s, t : Share(s, t) => s # t
    BY DEF Share
  <2> QED
    BY <1>0, <1>1, <2>1, OneLooked DEF Quiet, ListInv, LaunchFits
<1> QED
  BY <1>2, <1>3, <1>4 DEF ListInv

-----------------------------------------------------------------------------
(* Requests *)

LEMMA RequestList ==
  ASSUME ListInv, UNCHANGED <<machine, pc, req, pending, shutDown, raced, abandoned>>,
         Robbed \subseteq Robbed'
  PROVE  ListInv'
<1>0. \A s, t : Share(s, t)' => Share(s, t)
  BY ShareKept
<1>1. Looked' = Looked /\ \A s : IsLive(s)' <=> IsLive(s)
  BY DEF Looked, IsLive
<1> QED
  BY <1>0, <1>1 DEF ListInv, ShutDownIsPending, LaunchFits, InPending, Excused

\* Nothing has changed before the row is inserted.
LEMMA PostServerOrders ==
  ASSUME IInv, OrderInv,
         NEW h \in HttpThreads, NEW s \in Servers, NEW start \in {"yes", "no"},
         PostServer(h, s, start)
  PROVE  OrderInv'
<1>0. \A a, b : Share(a, b)' => Share(a, b)
  BY SameLost, ShareKept DEF PostServer, dbVars
<1>1. UNCHANGED <<row, born, req, queue, shutDown, abandoned>>
  BY DEF PostServer, dbVars, threadVars, taskVars
<1>2. \A k \in HttpThreads : http'[k] = http[k] \/ http'[k].op = "place"
  BY DEF PostServer, Task, IInv, TypeInv, TablesTyped
<1>3. RowsApart' /\ InOrder'
  BY <1>0, <1>1 DEF OrderInv, RowsApart, InOrder, IsFor, OrderedBefore, Served, Terminates
<1>4. TasksAreBorn'
  BY <1>1, <1>2 DEF OrderInv, TasksAreBorn, IsFor
<1>5. WasOrdered'
  <2>1. \A t \in Servers : Going(t)' => Going(t)
    BY <1>1, <1>2 DEF Going
  <2>2. \A t : Ordered(t) => Ordered(t)'
    BY <1>1 DEF Ordered, Served, Terminates
  <2> QED
    BY <1>1, <2>1, <2>2 DEF OrderInv, WasOrdered
<1> QED
  BY <1>3, <1>4, <1>5 DEF OrderInv

LEMMA MoreRobbed ==
  ASSUME IInv, NEW h \in HttpThreads, NewInstance(h)
  PROVE  Robbed \subseteq Robbed'
BY DEF NewInstance, Robbed

\* The new server takes cores that no row has, or that who had them has lost;
\* no task is for it yet.
LEMMA NewInstanceOrders ==
  ASSUME IInv, BornFirst, OrderInv, NEW h \in HttpThreads, NewInstance(h)
  PROVE  OrderInv'
<1> PICK s : s = http[h].id
  OBVIOUS
<1>0. \A a, b : Share(a, b)' => Share(a, b)
  BY MoreRobbed, ShareKept
<1>1. /\ UNCHANGED <<req, queue, shutDown, abandoned>>
      /\ http[h] \in Placement /\ s \in Servers /\ s \notin born
      /\ born' \subseteq born \cup {s} /\ born \subseteq born'
  BY Ops DEF NewInstance, threadVars, taskVars, histVars, IInv, TypeInv, TablesTyped, PlacesAreNew
<1>2. \A k \in HttpThreads :
        \/ http'[k] = http[k] \/ http'[k] = Idle
        \/ http[k].op = "place" /\ http'[k].op # "delete" /\ http'[k].id = s /\ s \in born'
  BY Ops DEF NewInstance, Task, IInv, TypeInv, TablesTyped
<1>3. row[s] = NoRow /\ \A t \in Servers \ {s} : row'[t] = row[t]
  BY <1>1 DEF NewInstance, BornFirst, IInv, TypeInv, TablesTyped
<1>4. /\ \A i \in DOMAIN queue : ~IsFor(queue[i], s)
      /\ ~IsFor(req, s)
      /\ \A k \in HttpThreads : http[k].op \notin {"idle", "place"} => http[k].id # s
  BY <1>1 DEF OrderInv, TasksAreBorn
<1>5. \A t \in Servers :
        (row[t] # NoRow /\ s \in born') => ~Share(s, t)' /\ ~Share(t, s)'
  <2> SUFFICES ASSUME NEW t \in Servers, row[t] # NoRow, s \in born',
                      s # t, Uses[s] \cap Uses[t] # {}
               PROVE  t \in Robbed'
    BY DEF Share
  <2>1. lost'[t] = lost[t] \cup (Uses[t] \cap Uses[s])
    BY <1>1 DEF NewInstance
  <2> QED
    BY <2>1 DEF Robbed
<1>6. RowsApart'
  <2>1. row'[s] # NoRow => s \in born'
    BY <1>1, <1>3 DEF NewInstance
  <2>2. \A a, b : Share(a, b)' => a # b
    BY DEF Share
  <2> QED
    BY <1>0, <1>3, <1>5, <2>1, <2>2 DEF OrderInv, RowsApart
<1>7. TasksAreBorn'
  BY <1>1, <1>2, Ops DEF OrderInv, TasksAreBorn, IsFor
<1>8. WasOrdered'
  <2>1. \A t \in Servers : (Going(t)' /\ t \in born') => t # s /\ Going(t)
    <3>1. s \in born' => row'[s] # NoRow
      BY <1>1, Ops, ServersAreTyped DEF NewInstance, IInv, TypeInv, TablesTyped, Status, Reports
    <3> QED
      BY <1>2, <1>3, <1>4, <3>1, Ops DEF Going
  <2>2. \A t : Ordered(t) => Ordered(t)'
    BY <1>1 DEF Ordered, Served, Terminates
  <2> QED
    BY <1>1, <2>1, <2>2 DEF OrderInv, WasOrdered
<1>9. InOrder'
  <2> SUFFICES ASSUME NEW a \in Servers, NEW b \in Servers,
                      Share(a, b)', row'[a] # NoRow, b \in born', a # s
               PROVE  Share(a, b) /\ row[a] # NoRow /\ b \in born
    BY <1>1, <1>4 DEF OrderInv, InOrder, IsFor, OrderedBefore, Served, Terminates
  <2> QED
    BY <1>0, <1>1, <1>3, <1>5
<1> QED
  BY <1>6, <1>7, <1>8, <1>9 DEF OrderInv

LEMMA AskActionOrders ==
  ASSUME IInv, BornFirst, OrderInv,
         NEW h \in HttpThreads, NEW s \in Servers, NEW act \in Actions, AskAction(h, s, act)
  PROVE  OrderInv'
<1>0. \A a, b : Share(a, b)' => Share(a, b)
  BY SameLost, ShareKept DEF AskAction
<1>1. UNCHANGED <<row, born, req, queue, shutDown, abandoned>> /\ row[s] # NoRow
  BY DEF AskAction, threadVars, taskVars, histVars
<1>2. \A k \in HttpThreads :
        \/ http'[k] = http[k]
        \/ http'[k].op # "delete" /\ http'[k].id = s
  BY Ops DEF AskAction, Task, IInv, TypeInv, TablesTyped, Actions, ImageActions
<1>3. s \in born
  BY <1>1 DEF BornFirst
<1>4. RowsApart' /\ InOrder'
  BY <1>0, <1>1 DEF OrderInv, RowsApart, InOrder, IsFor, OrderedBefore, Served, Terminates
<1>5. TasksAreBorn'
  BY <1>1, <1>2, <1>3 DEF OrderInv, TasksAreBorn, IsFor
<1>6. WasOrdered'
  <2>1. \A t \in Servers : Going(t)' => Going(t)
    BY <1>1, <1>2 DEF Going
  <2>2. \A t : Ordered(t) => Ordered(t)'
    BY <1>1 DEF Ordered, Served, Terminates
  <2> QED
    BY <1>1, <2>1, <2>2 DEF OrderInv, WasOrdered
<1> QED
  BY <1>4, <1>5, <1>6 DEF OrderInv

LEMMA DeleteInstanceOrders ==
  ASSUME IInv, OrderInv, NEW h \in HttpThreads, DeleteInstance(h)
  PROVE  OrderInv'
<1>0. \A s, t : Share(s, t)' => Share(s, t)
  BY SameLost, ShareKept DEF DeleteInstance
<1>1. UNCHANGED <<born, req, queue, shutDown, abandoned>>
  BY DEF DeleteInstance, threadVars, taskVars, histVars
<1>2. \A k \in HttpThreads : http'[k] = http[k] \/ http'[k] = Idle
  BY DEF DeleteInstance, IInv, TypeInv, TablesTyped
<1>3. \A t \in Servers : row'[t] # NoRow => row[t] # NoRow
  BY DEF DeleteInstance, IInv, TypeInv, TablesTyped
<1>4. \A t \in Servers : Going(t)' => Going(t)
  BY <1>2, Ops DEF Going, DeleteInstance, IInv, TypeInv, TablesTyped
<1>5. RowsApart' /\ InOrder'
  BY <1>0, <1>1, <1>3 DEF OrderInv, RowsApart, InOrder, IsFor, OrderedBefore, Served, Terminates
<1>6. TasksAreBorn'
  BY <1>1, <1>2, Ops DEF OrderInv, TasksAreBorn, IsFor
<1>7. WasOrdered'
  <2>1. \A t : Ordered(t) => Ordered(t)'
    BY <1>1 DEF Ordered, Served, Terminates
  <2> QED
    BY <1>1, <1>4, <2>1 DEF OrderInv, WasOrdered
<1> QED
  BY <1>5, <1>6, <1>7 DEF OrderInv

LEMMA Appended ==
  ASSUME NEW S, NEW q \in Seq(S), NEW t \in S
  PROVE  /\ Len(q) + 1 \in DOMAIN Append(q, t) /\ Append(q, t)[Len(q) + 1] = t
         /\ \A i \in DOMAIN q :
              i \in DOMAIN Append(q, t) /\ Append(q, t)[i] = q[i] /\ i < Len(q) + 1
         /\ \A i \in DOMAIN Append(q, t) :
              i = Len(q) + 1 \/ (i \in DOMAIN q /\ Append(q, t)[i] = q[i])
OBVIOUS

\* A task comes last: if it is for a server that has cores of one that is gone,
\* the terminate of that one is before it.
LEMMA AppendOrders ==
  ASSUME TypeInv, OrderInv, NEW task \in InstanceTask \cup {Reload, Exit},
         queue' = Append(queue, task),
         UNCHANGED <<row, born, lost, req, shutDown, abandoned>>,
         \A s \in Servers : IsFor(task, s) => s \in born,
         \A s \in Servers : Going(s)' => Going(s) \/ Terminates(task, s),
         \A h \in HttpThreads :
           http'[h] \in {http[h], Idle} \/ (http'[h].id = http[h].id /\ http[h].op \notin {"idle", "place"})
  PROVE  OrderInv'
<1>0. \A s, t : Share(s, t)' => Share(s, t)
  BY SameLost, ShareKept
<1>1. PICK n :
        /\ n \in DOMAIN queue' /\ queue'[n] = task
        /\ \A i \in DOMAIN queue : i \in DOMAIN queue' /\ queue'[i] = queue[i] /\ i < n
        /\ \A i \in DOMAIN queue' : i = n \/ (i \in DOMAIN queue /\ queue'[i] = queue[i])
  BY Appended DEF TypeInv, TablesTyped
<1>2. RowsApart'
  BY <1>0 DEF OrderInv, RowsApart
<1>3. TasksAreBorn'
  BY <1>1, Ops DEF OrderInv, TasksAreBorn, IsFor
<1>4. WasOrdered'
  <2>1. \A s : Ordered(s) \/ Terminates(task, s) => Ordered(s)'
    BY <1>1 DEF Ordered, Served, Terminates
  <2> QED
    BY <2>1 DEF OrderInv, WasOrdered
<1>5. InOrder'
  <2> SUFFICES ASSUME NEW s \in Servers, NEW t \in Servers, Share(s, t), row[s] # NoRow, t \in born
               PROVE  /\ \A i \in DOMAIN queue' : IsFor(queue'[i], s) => OrderedBefore(i, t)'
                      /\ IsFor(req, s) => Served(t)
    BY <1>0 DEF InOrder, IsFor, Served
  <2>1. \A i : OrderedBefore(i, t) => OrderedBefore(i, t)'
    BY <1>1 DEF OrderedBefore, Served, Terminates
  <2>2. Ordered(t)
    BY DEF OrderInv, RowsApart, WasOrdered, Going
  <2>3. OrderedBefore(n, t)'
    <3>1. CASE Served(t) \/ Terminates(req, t)
      BY <3>1 DEF OrderedBefore, Served, Terminates
    <3>2. CASE \E i \in DOMAIN queue : Terminates(queue[i], t)
      <4> PICK i \in DOMAIN queue : Terminates(queue[i], t)
        BY <3>2
      <4>1. i \in DOMAIN queue' /\ i < n /\ Terminates(queue'[i], t)
        BY <1>1
      <4> QED
        BY <4>1 DEF OrderedBefore, Terminates
    <3> QED
      BY <2>2, <3>1, <3>2 DEF Ordered
  <2>4. \A i \in DOMAIN queue : IsFor(queue[i], s) => OrderedBefore(i, t)
    BY DEF OrderInv, InOrder
  <2>5. IsFor(req, s) => Served(t)
    BY DEF OrderInv, InOrder
  <2> QED
    BY <1>1, <2>1, <2>3, <2>4, <2>5
<1> QED
  BY <1>2, <1>3, <1>4, <1>5 DEF OrderInv

LEMMA InsertTaskOrders ==
  ASSUME IInv, OrderInv, NEW h \in HttpThreads, InsertTask(h)
  PROVE  OrderInv'
<1>1. /\ UNCHANGED <<row, born, lost, req, shutDown, abandoned>>
      /\ queue' = Append(queue, http[h])
      /\ http[h] \in InstanceTask
  BY Ops DEF InsertTask, dbVars, taskVars, histVars, IInv, TypeInv, TablesTyped
<1>2. \A k \in HttpThreads :
        \/ http'[k] \in {http[k], Idle}
        \/ k = h /\ http'[k].id = http[k].id /\ http[h].op = "terminate"
  BY DEF InsertTask, IInv, TypeInv, TablesTyped
<1>3. \A k \in HttpThreads :
        http'[k] \in {http[k], Idle} \/ (http'[k].id = http[k].id /\ http[k].op \notin {"idle", "place"})
  BY <1>1, <1>2, Ops
<1>4. \A s \in Servers : Going(s)' => Going(s) \/ Terminates(http[h], s)
  BY <1>1, <1>2, Ops DEF Going, Terminates
<1>5. \A s \in Servers : IsFor(http[h], s) => s \in born
  BY <1>1, Ops DEF IsFor, OrderInv, TasksAreBorn
<1> QED
  BY <1>1, <1>3, <1>4, <1>5, AppendOrders DEF IInv

LEMMA AskThreadOrders ==
  ASSUME IInv, OrderInv, NEW task \in {Reload, Exit}, AskThread(task)
  PROVE  OrderInv'
<1>1. UNCHANGED <<row, born, lost, req, shutDown, abandoned, http>> /\ queue' = Append(queue, task)
  BY DEF AskThread, dbVars, taskVars, histVars
<1>2. \A s \in Servers : ~IsFor(task, s) /\ (Going(s)' => Going(s))
  BY <1>1, Ops DEF IsFor, Going
<1> QED
  BY <1>1, <1>2, AppendOrders DEF IInv

-----------------------------------------------------------------------------
(* The thread *)

LEMMA TakenAt ==
  ASSUME NEW S, NEW q \in Seq(S), q # << >>
  PROVE  /\ \A i \in DOMAIN q :
              \/ i = 1 /\ q[i] = Head(q)
              \/ i - 1 \in DOMAIN Tail(q) /\ Tail(q)[i - 1] = q[i]
         /\ \A i \in DOMAIN Tail(q) : i + 1 \in DOMAIN q /\ q[i + 1] = Tail(q)[i]
         /\ 1 \in DOMAIN q /\ q[1] = Head(q)
         /\ DOMAIN q \subseteq Nat \ {0} /\ DOMAIN Tail(q) \subseteq Nat \ {0}
OBVIOUS

\* The head becomes the task in progress; the others keep their order.
LEMMA TakeTaskOrders ==
  ASSUME IInv, OrderInv, ListInv, TakeTask
  PROVE  OrderInv' /\ ListInv'
<1>0. UNCHANGED lost /\ \A s, t : Share(s, t)' => Share(s, t)
  BY SameLost, ShareKept DEF TakeTask, dbVars
<1>1. /\ UNCHANGED <<row, born, http, machine, pending, shutDown, raced, abandoned>>
      /\ req.op # "terminate" /\ req' = Head(queue) /\ queue' = Tail(queue)
  BY DEF TakeTask, dbVars, nodeVars, memVars, histVars, IInv, TypeInv, TaskFits
<1>2. /\ \A i \in DOMAIN queue :
           \/ i = 1 /\ queue[i] = req'
           \/ i - 1 \in DOMAIN queue' /\ queue'[i - 1] = queue[i]
      /\ \A i \in DOMAIN queue' : i + 1 \in DOMAIN queue /\ queue[i + 1] = queue'[i]
      /\ 1 \in DOMAIN queue /\ queue[1] = req'
      /\ DOMAIN queue \subseteq Nat \ {0} /\ DOMAIN queue' \subseteq Nat \ {0}
  BY <1>1, TakenAt DEF TakeTask, IInv, TypeInv, TablesTyped
<1>3. ListInv'
  <2>1. Looked' = {}
    BY DEF TakeTask, Looked
  <2> QED
    BY <1>1, <2>1 DEF ListInv, ShutDownIsPending, LaunchFits, IsLive, InPending, Excused
<1>4. RowsApart'
  BY <1>0, <1>1 DEF OrderInv, RowsApart
<1>5. TasksAreBorn'
  BY <1>1, <1>2 DEF OrderInv, TasksAreBorn, IsFor
<1>6. WasOrdered'
  <2>1. \A s : Ordered(s) => Ordered(s)'
    <3> SUFFICES ASSUME NEW s, NEW i \in DOMAIN queue, Terminates(queue[i], s)
                 PROVE  Terminates(req', s) \/ \E j \in DOMAIN queue' : Terminates(queue'[j], s)
      BY <1>1 DEF Ordered, Served, Terminates
    <3> QED
      BY <1>2
  <2> QED
    BY <1>1, <2>1 DEF OrderInv, WasOrdered, Going
<1>7. InOrder'
  <2>1. \A s : \A i \in DOMAIN queue' : OrderedBefore(i + 1, s) => OrderedBefore(i, s)'
    <3> SUFFICES ASSUME NEW s, NEW i \in DOMAIN queue', OrderedBefore(i + 1, s), ~Served(s)
                 PROVE  OrderedBefore(i, s)'
      BY <1>1 DEF OrderedBefore, Served
    <3>1. PICK j \in DOMAIN queue : j < i + 1 /\ Terminates(queue[j], s)
      BY <1>1 DEF OrderedBefore, Terminates
    <3>2. CASE j = 1
      BY <1>2, <3>1, <3>2 DEF OrderedBefore, Terminates
    <3>3. CASE j # 1
      <4>1. j - 1 \in DOMAIN queue' /\ queue'[j - 1] = queue[j] /\ j - 1 < i
        BY <1>2, <3>1, <3>3
      <4> QED
        BY <3>1, <4>1 DEF OrderedBefore, Terminates
    <3> QED
      BY <3>2, <3>3
  <2>2. \A s : OrderedBefore(1, s) => Served(s)
    BY <1>1, <1>2 DEF OrderedBefore, Terminates
  <2> SUFFICES ASSUME NEW s \in Servers, NEW t \in Servers, Share(s, t), row[s] # NoRow, t \in born
               PROVE  /\ \A i \in DOMAIN queue' : IsFor(queue'[i], s) => OrderedBefore(i, t)'
                      /\ IsFor(req', s) => Served(t)
    BY <1>0, <1>1 DEF InOrder, IsFor, Served
  <2>3. \A i \in DOMAIN queue : IsFor(queue[i], s) => OrderedBefore(i, t)
    BY DEF OrderInv, InOrder
  <2> QED
    BY <1>2, <2>1, <2>2, <2>3
<1> QED
  BY <1>3, <1>4, <1>5, <1>6, <1>7 DEF OrderInv

\* A live machine comes on the list.
LEMMA ActTerminateOrders ==
  ASSUME IInv, OrderInv, ListInv, ActTerminate
  PROVE  OrderInv' /\ ListInv'
<1>0. UNCHANGED lost /\ \A s, t : Share(s, t)' => Share(s, t)
  BY SameLost, ShareKept DEF ActTerminate, dbVars
<1>1. /\ UNCHANGED <<row, born, http, queue, raced, abandoned>>
      /\ shutDown' = shutDown \cup {req.id}
      /\ req.id \in Servers /\ req' = Idle
      /\ pending \in Seq(Servers)
  BY Ops DEF ActTerminate, TaskDone, dbVars, IInv, TypeInv, TablesTyped, TaskFits
<1>2. OrderInv'
  <2>1. \A s \in Servers : Served(s) => Served(s)'
    BY <1>1 DEF Served
  <2>2. \A s \in Servers : Terminates(req, s) => Served(s)'
    BY <1>1 DEF Served, Terminates
  <2> QED
    BY <1>0, <1>1, <2>1, <2>2, OrderKept DEF IInv
<1>3. Looked' = {}
  BY DEF ActTerminate, TaskDone, Looked
<1>4. \A s : InPending(s) => InPending(s)'
  <2>1. \A i \in DOMAIN pending : i \in DOMAIN pending' /\ pending'[i] = pending[i]
    BY <1>1, Queued DEF ActTerminate
  <2> QED
    BY <2>1 DEF InPending
<1>5. machine'[req.id] \in Live => \E i \in DOMAIN pending' : pending'[i] = req.id
  <2>1. CASE IsLive(req.id)
    <3>1. pending' = Append(pending, req.id)
      BY <2>1 DEF ActTerminate
    <3> QED
      BY <1>1, <3>1, Queued
  <2>2. CASE ~IsLive(req.id)
    <3>1. machine' = [machine EXCEPT ![req.id] = "none"]
      BY <2>2 DEF ActTerminate
    <3> QED
      BY <1>1, <3>1 DEF IInv, TypeInv, TablesTyped, Live
  <2> QED
    BY <2>1, <2>2
<1>6. \A s \in Servers : s # req.id => (IsLive(s)' => IsLive(s))
  BY DEF ActTerminate, IsLive, IInv, TypeInv, TablesTyped
<1>7. ShutDownIsPending'
  <2> SUFFICES ASSUME NEW s \in Servers, s \in shutDown', IsLive(s)'
               PROVE  InPending(s)' \/ Excused(s)'
    BY DEF ShutDownIsPending
  <2>1. CASE s = req.id
    BY <1>5, <2>1 DEF InPending, IsLive
  <2>2. CASE s # req.id
    BY <1>1, <1>4, <1>6, <2>2 DEF ListInv, ShutDownIsPending, Excused
  <2> QED
    BY <2>1, <2>2
<1> QED
  BY <1>2, <1>3, <1>7 DEF ListInv, LaunchFits

\* The row is there, so the terminates of those that had its cores were served.
LEMMA GetInstanceOrders ==
  ASSUME IInv, BornFirst, OrderInv, ListInv, GetInstance
  PROVE  OrderInv' /\ ListInv'
<1>0. UNCHANGED lost /\ \A s, t : Share(s, t)' => Share(s, t)
  BY SameLost, ShareKept DEF GetInstance, dbVars
<1>1. /\ UNCHANGED <<row, born, machine, http, queue, pending, shutDown, abandoned>>
      /\ raced \subseteq raced'
      /\ req \in InstanceTask /\ req.id \in Servers /\ req.op # "terminate"
      /\ req' \in {req, Idle}
  BY Ops DEF GetInstance, dbVars, nodeVars, memVars, IInv, TypeInv, TaskFits, Conclude, TaskDone,
             taskVars
<1>2. OrderInv'
  <2>1. \A s \in Servers : (Served(s) => Served(s)') /\ ~Terminates(req, s)
    BY <1>1 DEF Served, Terminates
  <2> QED
    BY <1>0, <1>1, <2>1, OrderKept DEF IInv
<1>3. \A s : Excused(s) => Excused(s)'
  BY <1>1 DEF Excused
<1>4. ShutDownIsPending'
  BY <1>1, <1>3 DEF ListInv, ShutDownIsPending, IsLive, InPending
<1>5. LaunchFits'
  <2> SUFFICES ASSUME NEW s \in Servers, NEW t \in Servers, s \in Looked', Share(s, t), IsLive(t)
               PROVE  InPending(t) \/ Excused(t)
    BY <1>0, <1>1, <1>3 DEF LaunchFits, InPending, IsLive
  <2>1. s = req.id /\ row[s] # NoRow
    BY DEF GetInstance, Conclude, TaskDone, taskVars, Looked
  <2>2. t \in born
    BY DEF BornFirst, IsLive, Live
  <2>3. Served(t)
    BY <1>1, <2>1, <2>2 DEF OrderInv, InOrder, IsFor
  <2> QED
    BY <2>3 DEF Served, ListInv, ShutDownIsPending, Excused
<1> QED
  BY <1>2, <1>4, <1>5 DEF ListInv

LEMMA PanicOrders ==
  ASSUME IInv, OrderInv, ListInv, Panic
  PROVE  OrderInv' /\ ListInv'
<1>0. UNCHANGED lost /\ \A s, t : Share(s, t)' => Share(s, t)
  BY SameLost, ShareKept DEF Panic, dbVars
<1>1. /\ UNCHANGED <<row, born, machine, http, queue, pending, shutDown, raced>>
      /\ abandoned' = abandoned \cup {req.id}
      /\ req' = Idle
  BY DEF Panic, TaskDone, dbVars, nodeVars
<1>2. OrderInv'
  <2>1. \A s \in Servers : (Served(s) => Served(s)') /\ (Terminates(req, s) => Served(s)')
    BY <1>1 DEF Served, Terminates
  <2> QED
    BY <1>0, <1>1, <2>1, OrderKept DEF IInv
<1>3. Looked' = {}
  BY DEF Panic, TaskDone, Looked
<1> QED
  BY <1>1, <1>2, <1>3 DEF ListInv, ShutDownIsPending, LaunchFits, IsLive, InPending, Excused

\* What leaves the list does not live.
LEMMA ForceOffOrders ==
  ASSUME IInv, OrderInv, ListInv, ForceOff
  PROVE  OrderInv' /\ ListInv'
<1> DEFINE s == Head(pending)
<1>0. UNCHANGED lost /\ \A a, b : Share(a, b)' => Share(a, b)
  BY SameLost, ShareKept DEF ForceOff, dbVars
<1>1. /\ UNCHANGED <<row, born, http, queue, req, shutDown, raced, abandoned>>
      /\ pending # << >> /\ pending \in Seq(Servers) /\ pending' = Tail(pending)
      /\ machine' = [machine EXCEPT ![s] = "none"]
      /\ Looked' = Looked
  BY DEF ForceOff, MayForceOff, dbVars, taskVars, histVars, Looked, IInv, TypeInv, TablesTyped
<1>2. OrderInv'
  BY <1>0, <1>1, OrderKept DEF IInv, Served, Terminates
<1>3. \A t : InPending(t) => InPending(t)' \/ t = s
  <2> SUFFICES ASSUME NEW t, NEW i \in DOMAIN pending, pending[i] = t, t # s
               PROVE  \E j \in DOMAIN pending' : pending'[j] = t
    BY DEF InPending
  <2> QED
    BY <1>1, Taken
<1>4. \A t \in Servers : IsLive(t)' => IsLive(t) /\ t # s
  BY <1>1 DEF IsLive, Live, IInv, TypeInv, TablesTyped
<1> QED
  BY <1>0, <1>1, <1>2, <1>3, <1>4 DEF ListInv, ShutDownIsPending, LaunchFits, Excused

\* Everything ahead is forgotten, and excused.
LEMMA RestartOrders ==
  ASSUME IInv, OrderInv, ListInv, Restart
  PROVE  OrderInv' /\ ListInv'
<1>0. UNCHANGED lost /\ \A s, t : Share(s, t)' => Share(s, t)
  BY SameLost, ShareKept DEF Restart, dbVars
<1>1. /\ UNCHANGED <<row, born, machine, shutDown, raced>>
      /\ abandoned' = abandoned \cup {s \in Servers : TerminateAhead(s)}
      /\ http' = [h \in HttpThreads |-> Idle]
      /\ queue' = << >> /\ req' = Idle /\ pending' = << >>
  BY DEF Restart, dbVars, nodeVars
<1>2. RowsApart' /\ TasksAreBorn' /\ InOrder'
  BY <1>0, <1>1, Ops DEF OrderInv, RowsApart, TasksAreBorn, InOrder, IsFor
<1>3. WasOrdered'
  <2>1. \A s \in Servers : Ordered(s) => Served(s)'
    BY <1>1 DEF Ordered, Served, Terminates, TerminateAhead
  <2>2. \A s \in Servers : Going(s)' => Going(s)
    BY <1>1, Ops DEF Going
  <2> QED
    BY <1>1, <2>1, <2>2 DEF OrderInv, WasOrdered, Ordered
<1>4. ShutDownIsPending'
  <2>1. \A s \in Servers : InPending(s) \/ Excused(s) => Excused(s)'
    BY <1>1 DEF InPending, Excused, TerminateAhead
  <2> QED
    BY <1>1, <2>1 DEF ListInv, ShutDownIsPending, IsLive
<1>5. LaunchFits'
  BY DEF Restart, Looked, LaunchFits
<1> QED
  BY <1>2, <1>3, <1>4, <1>5 DEF OrderInv, ListInv

-----------------------------------------------------------------------------
(* The invariant and the launch *)

LEMMA OrdersStep ==
  ASSUME IInv, BornFirst, OrderInv, ListInv, [Next]_vars
  PROVE  OrderInv' /\ ListInv'
<1>0. TypeInv
  BY DEF IInv
<1>1. CASE \E h \in HttpThreads, s \in Servers, start \in {"yes", "no"} : PostServer(h, s, start)
  <2>1. UNCHANGED <<machine, pc, req, pending, shutDown, raced, abandoned>> /\ Robbed \subseteq Robbed'
    BY <1>1, SameLost DEF PostServer, dbVars, nodeVars, threadVars, taskVars, memVars
  <2> QED
    BY <1>1, <2>1, PostServerOrders, RequestList
<1>2. CASE \E h \in HttpThreads, ask \in Asked : AskAction(h, ask[1], ask[2])
  <2>1. UNCHANGED <<machine, pc, req, pending, shutDown, raced, abandoned>> /\ Robbed \subseteq Robbed'
    BY <1>2, SameLost DEF AskAction, nodeVars, threadVars, taskVars, memVars
  <2>2. \A ask \in Asked : ask[1] \in Servers /\ ask[2] \in Actions
    BY ServersAreTyped
  <2> QED
    BY <1>2, <2>1, <2>2, AskActionOrders, RequestList
<1>3. CASE \E task \in {Reload, Exit} : AskThread(task)
  <2>1. UNCHANGED <<machine, pc, req, pending, shutDown, raced, abandoned>> /\ Robbed \subseteq Robbed'
    BY <1>3, SameLost DEF AskThread, dbVars, nodeVars, taskVars, memVars, histVars
  <2> QED
    BY <1>3, <2>1, AskThreadOrders, RequestList
<1>4. CASE \E h \in HttpThreads : HttpStep(h)
  <2>1. UNCHANGED <<machine, pc, req, pending, shutDown, raced, abandoned>>
    BY <1>4 DEF HttpStep, NewInstance, InsertTask, DeleteInstance, nodeVars, threadVars, taskVars, memVars,
                histVars
  <2>2. Robbed \subseteq Robbed'
    BY <1>4, MoreRobbed, SameLost DEF HttpStep, InsertTask, DeleteInstance, dbVars
  <2> QED
    BY <1>4, <2>1, <2>2, NewInstanceOrders, InsertTaskOrders, DeleteInstanceOrders, RequestList DEF HttpStep
<1>5. CASE ThreadStep
  BY <1>0, <1>5, QuietCores, ActIsQuiet, LaunchIsQuiet, RestIsQuiet, TakeTaskOrders,
     ActTerminateOrders, GetInstanceOrders, PanicOrders, ForceOffOrders
     DEF ThreadStep
<1>6. CASE Restart
  BY <1>6, RestartOrders
<1>7. CASE \/ \E s \in Servers, state \in GuestEvents \cup {"none"} : ShutsDown(s, state)
           \/ \E s \in Servers, state \in GuestEvents : GuestEvent(s, state)
           \/ ReplaceImage
  BY <1>0, <1>7, QuietCores, GuestsAreQuiet
<1>8. CASE UNCHANGED vars
  <2>1. Quiet
    BY <1>8 DEF vars, dbVars, nodeVars, threadVars, taskVars, memVars, histVars, Quiet, Looked, IsLive
  <2> QED
    BY <2>1, QuietCores
<1> QED
  BY <1>1, <1>2, <1>3, <1>4, <1>5, <1>6, <1>7, <1>8 DEF Next

\* Only the wait and the preparation of a rebuild lead to createXML.
LEMMA WaitedStep ==
  ASSUME TypeInv, WaitedIsEmpty, [Next]_vars
  PROVE  WaitedIsEmpty'
<1>1. CASE UNCHANGED <<pc, req, pending>>
  BY <1>1 DEF WaitedIsEmpty
<1>2. CASE pc' # "create"
  BY <1>2 DEF WaitedIsEmpty
<1>3. CASE \/ \E h \in HttpThreads, s \in Servers, start \in {"yes", "no"} : PostServer(h, s, start)
           \/ \E h \in HttpThreads, ask \in Asked : AskAction(h, ask[1], ask[2])
           \/ \E task \in {Reload, Exit} : AskThread(task)
           \/ \E h \in HttpThreads : HttpStep(h)
           \/ \E s \in Servers, state \in GuestEvents \cup {"none"} : ShutsDown(s, state)
           \/ \E s \in Servers, state \in GuestEvents : GuestEvent(s, state)
           \/ ReplaceImage
  BY <1>1, <1>3 DEF PostServer, AskAction, AskThread, HttpStep, NewInstance, InsertTask, DeleteInstance,
                    ShutsDown, GuestEvent, ReplaceImage, threadVars, taskVars, memVars
<1>4. CASE \/ TakeTask \/ ActFails \/ ActStart \/ ActStartRebuild \/ ActRebuild \/ ActTerminate
           \/ ActOther \/ ActCreateImage
  <2>1. CASE TakeTask \/ ActStartRebuild \/ ActRebuild \/ ActTerminate \/ ActCreateImage \/ ActFails
    BY <1>2, <2>1 DEF TakeTask, ActStartRebuild, ActRebuild, ActTerminate, ActCreateImage, ActFails,
                      Conclude, TaskDone
  <2>2. CASE ActStart
    <3>1. machine[req.id] \in MachineStates
      BY <2>2, Ops DEF ActStart, TypeInv, TablesTyped, TaskFits
    <3> QED
      BY <1>2, <2>2, <3>1 DEF ActStart, Conclude, TaskDone, MachineStates, Live
  <2>3. CASE ActOther
    BY <1>2, <2>3 DEF ActOther, Conclude, TaskDone
  <2> QED
    BY <1>4, <2>1, <2>2, <2>3
<1>5. CASE GetInstance \/ PrepareFilesFails \/ CreateDomain \/ WriteStatus \/ Panic
  BY <1>2, <1>5 DEF GetInstance, PrepareFilesFails, CreateDomain, WriteStatus, Panic, Conclude, TaskDone
<1>6. CASE PrepareFiles
  BY <1>6 DEF PrepareFiles, Rebuilding, taskVars, WaitedIsEmpty
<1>7. CASE Waited
  BY <1>7 DEF Waited, memVars, WaitedIsEmpty
<1>8. CASE \/ ForceOff \/ EndForceOff \/ ForceOffFails \/ SaveLocalinfo \/ Poll
           \/ (\E s \in Servers : PollWrite(s)) \/ EndThread \/ Load
  <2>1. CASE ForceOffFails
    BY <1>2, <2>1, Ops DEF ForceOffFails, MayForceOff, Conclude, TaskDone, TypeInv, TaskFits
  <2>2. CASE \/ ForceOff \/ EndForceOff \/ SaveLocalinfo \/ Poll
             \/ (\E s \in Servers : PollWrite(s)) \/ EndThread \/ Load
    BY <1>2, <2>2 DEF ForceOff, EndForceOff, SaveLocalinfo, Poll, PollWrite, EndThread, Load
  <2> QED
    BY <1>8, <2>1, <2>2
<1>9. CASE Restart
  BY <1>2, <1>9 DEF Restart
<1> QED
  BY <1>1, <1>3, <1>4, <1>5, <1>6, <1>7, <1>8, <1>9 DEF Next, ThreadStep, vars, threadVars, taskVars, memVars

\* Cores that were looked for are taken by another only if both were placed at
\* the same time.
LEMMA RivalsStep ==
  ASSUME TypeInv, RivalsInv, [Next]_vars
  PROVE  RivalsInv'
<1>1. CASE /\ UNCHANGED <<lost, rivals>>
           /\ \A h \in HttpThreads : http'[h] = http[h] \/ http'[h].op # "place"
           /\ \A s \in Servers : row[s] = NoRow => row'[s] = NoRow
  BY <1>1 DEF RivalsInv, Robbed
<1>2. CASE \E h \in HttpThreads, s \in Servers, start \in {"yes", "no"} : PostServer(h, s, start)
  <2> PICK h \in HttpThreads, s \in Servers, start \in {"yes", "no"} : PostServer(h, s, start)
    BY <1>2
  <2>1. /\ UNCHANGED <<lost, row>> /\ rivals \subseteq rivals'
        /\ http[h].op # "place" /\ http'[h].op = "place" /\ http'[h].id = s
        /\ \A k \in HttpThreads : k # h => http'[k] = http[k]
    BY Ops DEF PostServer, dbVars, Task, TypeInv, TablesTyped
  <2>2. Robbed' \subseteq rivals'
    BY <2>1 DEF RivalsInv, Robbed
  <2>3. \A t \in Servers : (row[t] # NoRow /\ Uses[s] \cap Uses[t] # {}) => t \in rivals
    <3> SUFFICES ASSUME NEW t \in Servers, row[t] # NoRow, Uses[s] \cap Uses[t] # {}
                 PROVE  lost[t] # {}
      BY DEF RivalsInv, Robbed
    <3>1. Uses[s] \cap (Uses[t] \ lost[t]) = {}
      BY DEF PostServer, CoresInUse
    <3> QED
      BY <3>1
  <2>4. \A k \in HttpThreads : http[k].op = "place" => http[k].id \in rivals' /\ s \in rivals'
    BY DEF PostServer, Placing
  <2> QED
    BY <2>1, <2>2, <2>3, <2>4 DEF RivalsInv
<1>3. CASE \E h \in HttpThreads : NewInstance(h)
  <2> PICK h \in HttpThreads : NewInstance(h)
    BY <1>3
  <2>1. /\ UNCHANGED rivals
        /\ http[h].op = "place" /\ http'[h].op # "place"
        /\ \A k \in HttpThreads : k # h => http'[k] = http[k]
        /\ \A t \in Servers : t # http[h].id => row'[t] = row[t]
    BY Ops DEF NewInstance, histVars, Task, TypeInv, TablesTyped
  <2>2. Robbed' \subseteq rivals
    <3> SUFFICES ASSUME NEW t \in Servers, lost'[t] # {}, lost[t] = {}
                 PROVE  t \in rivals
      BY DEF RivalsInv, Robbed
    <3>1. row[t] # NoRow /\ Uses[t] \cap Uses[http[h].id] # {}
      BY DEF NewInstance
    <3> QED
      BY <2>1, <3>1 DEF RivalsInv
  <2>3. \A k \in HttpThreads : http'[k].op = "place" => http[h].id \in rivals /\ http[k].id \in rivals
    BY <2>1 DEF RivalsInv
  <2> QED
    BY <2>1, <2>2, <2>3 DEF RivalsInv
<1>4. CASE \E h \in HttpThreads, ask \in Asked : AskAction(h, ask[1], ask[2])
  <2>1. \A ask \in Asked : ask[2] \in Actions
    BY ServersAreTyped
  <2>2. UNCHANGED <<lost, rivals, row>>
    BY <1>4 DEF AskAction
  <2>3. \A h \in HttpThreads : http'[h] = http[h] \/ http'[h].op # "place"
    BY <1>4, <2>1 DEF AskAction, Task, Actions, ImageActions, TypeInv, TablesTyped
  <2> QED
    BY <1>1, <2>2, <2>3
<1>5. CASE \/ \E task \in {Reload, Exit} : AskThread(task)
           \/ \E h \in HttpThreads : InsertTask(h) \/ DeleteInstance(h)
  BY <1>1, <1>5, Ops DEF AskThread, InsertTask, DeleteInstance, dbVars, histVars, TypeInv, TablesTyped
<1>6. CASE ThreadStep
  <2>1. UNCHANGED <<lost, rivals, http>>
    BY <1>6
       DEF ThreadStep, TakeTask, ActFails, ActStart, ActStartRebuild, ActRebuild, ActTerminate, ActOther,
           ActCreateImage, GetInstance, PrepareFiles, PrepareFilesFails, Waited, CreateDomain, WriteStatus,
           Panic, ForceOff, EndForceOff, ForceOffFails, SaveLocalinfo, Poll, PollWrite, EndThread, Load,
           dbVars, histVars
  <2>2. \A s \in Servers : row[s] = NoRow => row'[s] = NoRow
    <3>1. CASE UNCHANGED row
      BY <3>1
    <3>2. CASE WriteStatus \/ \E s \in Servers : PollWrite(s)
      BY <3>2 DEF WriteStatus, PollWrite, TypeInv, TablesTyped
    <3> QED
      BY <1>6, <3>1, <3>2
         DEF ThreadStep, TakeTask, ActFails, ActStart, ActStartRebuild, ActRebuild, ActTerminate, ActOther,
             ActCreateImage, GetInstance, PrepareFiles, PrepareFilesFails, Waited, CreateDomain,
             Panic, ForceOff, EndForceOff, ForceOffFails, SaveLocalinfo, Poll, EndThread, Load, dbVars
  <2> QED
    BY <1>1, <2>1, <2>2
<1>7. CASE Restart
  BY <1>1, <1>7, Ops DEF Restart, dbVars
<1>8. CASE \/ \E s \in Servers, state \in GuestEvents \cup {"none"} : ShutsDown(s, state)
           \/ \E s \in Servers, state \in GuestEvents : GuestEvent(s, state)
           \/ ReplaceImage \/ UNCHANGED vars
  BY <1>1, <1>8 DEF ShutsDown, GuestEvent, ReplaceImage, vars, dbVars, histVars
<1> QED
  BY <1>2, <1>3, <1>4, <1>5, <1>6, <1>7, <1>8 DEF Next, HttpStep

\* A machine comes up by createXML only.
LEMMA OnlyCreated ==
  ASSUME TypeInv, [Next]_vars,
         NEW s \in Servers, machine[s] = "none", machine'[s] = "running"
  PROVE  CreateDomain /\ s = req.id
<1> USE DEF TypeInv, TablesTyped
<1>1. machine' # machine
  OBVIOUS
<1>2. ~\E id, state : state # "running" /\ machine' = [machine EXCEPT ![id] = state]
  OBVIOUS
<1>3. ~\E id, state : machine[id] \in Live /\ machine' = [machine EXCEPT ![id] = state]
  BY DEF Live
<1>4. ~\/ \E h \in HttpThreads, t \in Servers, start \in {"yes", "no"} : PostServer(h, t, start)
       \/ \E h \in HttpThreads, ask \in Asked : AskAction(h, ask[1], ask[2])
       \/ \E task \in {Reload, Exit} : AskThread(task)
       \/ \E h \in HttpThreads : HttpStep(h)
       \/ Restart \/ ReplaceImage
  BY <1>1 DEF PostServer, AskAction, AskThread, HttpStep, NewInstance, InsertTask, DeleteInstance, Restart,
              ReplaceImage, nodeVars
<1>5. /\ ~\E t \in Servers, state \in GuestEvents \cup {"none"} : ShutsDown(t, state)
      /\ ~\E t \in Servers, state \in GuestEvents : GuestEvent(t, state)
  BY <1>3 DEF ShutsDown, GuestEvent, Live
<1>6. ~(TakeTask \/ ActFails \/ ActStartRebuild \/ ActCreateImage)
  BY <1>1 DEF TakeTask, ActFails, ActStartRebuild, ActCreateImage, nodeVars
<1>7. ~(ActRebuild \/ ActTerminate)
  BY <1>1, <1>2 DEF ActRebuild, ActTerminate
<1>8. ~ActStart
  <2> SUFFICES ASSUME ActStart PROVE FALSE
    OBVIOUS
  <2>1. machine[req.id] \in MachineStates
    BY Ops DEF ActStart, TaskFits
  <2> QED
    BY <1>1, <1>3, <2>1 DEF ActStart, MachineStates, Live
<1>9. ~ActOther
  <2> SUFFICES ASSUME ActOther PROVE FALSE
    OBVIOUS
  <2>1. CASE machine' = [machine EXCEPT ![req.id] = machine[req.id]]
    BY <1>1, <2>1
  <2> QED
    BY <1>1, <1>2, <1>3, <2>1 DEF ActOther, Live
<1>10. ~(GetInstance \/ PrepareFiles \/ PrepareFilesFails \/ Waited \/ WriteStatus \/ Panic)
  BY <1>1 DEF GetInstance, PrepareFiles, PrepareFilesFails, Waited, WriteStatus, Panic, nodeVars
<1>11. ~(ForceOff \/ EndForceOff \/ ForceOffFails)
  BY <1>1, <1>2 DEF ForceOff, EndForceOff, ForceOffFails, nodeVars
<1>12. ~(SaveLocalinfo \/ Poll \/ (\E t \in Servers : PollWrite(t)) \/ EndThread \/ Load)
  BY <1>1 DEF SaveLocalinfo, Poll, PollWrite, EndThread, Load, nodeVars
<1>13. CreateDomain
  BY <1>1, <1>4, <1>5, <1>6, <1>7, <1>8, <1>9, <1>10, <1>11, <1>12
     DEF Next, ThreadStep, vars, nodeVars
<1>14. s = req.id
  BY <1>13 DEF CreateDomain
<1> QED
  BY <1>13, <1>14

LEMMA LaunchStep ==
  ASSUME CoresInv, [Next]_vars,
         NEW s \in Servers, NEW t \in Servers, s # t,
         machine[s] = "none", machine'[s] = "running", Uses[s] \cap Uses[t] # {}, IsLive(t)
  PROVE  \/ Rebuilding /\ \E i \in DOMAIN pending : pending[i] = t
         \/ {s, t} \cap (abandoned \cup raced \cup (Robbed \cap rivals)) # {}
<1>1. CreateDomain /\ s = req.id
  BY OnlyCreated DEF CoresInv, IInv
<1>2. pc = "create" /\ s \in Looked /\ req.op \in {"start", "startRebuild", "rebuild"}
  BY <1>1, LookedIs DEF CreateDomain, CoresInv, IInv, TypeInv, TaskFits
<1>3. InPending(t) \/ Excused(s) \/ Excused(t) \/ {s, t} \cap Robbed # {}
  BY <1>2 DEF CoresInv, ListInv, LaunchFits, Share
<1>4. req.op = "start" => ~InPending(t)
  BY <1>2 DEF CoresInv, WaitedIsEmpty, InPending
<1> QED
  BY <1>2, <1>3, <1>4 DEF Excused, InPending, Rebuilding, CoresInv, RivalsInv

\* What is known of the cores of machines, tasks and launches is invariant.
THEOREM CoresInvariant == Spec => []CoresInv
<1>1. Init => CoresInv
  BY InitType, InitPlaces, InitRunaway, InitCores DEF CoresInv, IInv
<1>2. CoresInv /\ [Next]_vars => CoresInv'
  <2> SUFFICES ASSUME CoresInv, [Next]_vars PROVE CoresInv'
    OBVIOUS
  <2>1. IInv' /\ BornFirst'
    BY TypeInvStep, PlacesStep, RunawayStep, BornStep DEF CoresInv, IInv
  <2>2. OrderInv' /\ ListInv' /\ WaitedIsEmpty' /\ RivalsInv'
    BY OrdersStep, WaitedStep, RivalsStep DEF CoresInv, IInv
  <2> QED
    BY <2>1, <2>2 DEF CoresInv
<1> QED
  BY <1>1, <1>2, PTL DEF Spec

\* A start never meets a live machine on the cores that the server was given:
\* those of deleted servers were forced off before, unless a terminate failed
\* twice or was forgotten, a launch overtook the deletion of its row, or one of
\* the two has lost a core to a server that was placed at the same time.
THEOREM LaunchesHaveCores == Spec => LaunchHasCores
<1>1. CoresInv /\ [Next]_vars =>
        [\A s, t \in Servers :
           (/\ s # t
            /\ machine[s] = "none" /\ machine'[s] = "running"
            /\ Uses[s] \cap Uses[t] # {}
            /\ IsLive(t))
           => \/ Rebuilding /\ \E i \in DOMAIN pending : pending[i] = t
              \/ {s, t} \cap (abandoned \cup raced \cup (Robbed \cap rivals)) # {}]_vars
  BY LaunchStep
<1> QED
  BY <1>1, CoresInvariant, PTL DEF Spec, LaunchHasCores
=============================================================================
