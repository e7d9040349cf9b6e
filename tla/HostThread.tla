----------------------------- MODULE HostThread -----------------------------
(***************************************************************************)
(* The host_thread of a compute node with the http requests that give it   *)
(* work.  A request on a server reads or writes its row in instances and   *)
(* then inserts an 'instance' task; the thread takes the tasks in order,   *)
(* works on the machine over libvirt and on its files over ssh, and writes *)
(* the status it reached.  A terminated machine gets 10 s to shut down     *)
(* while its row, with its cores, is gone at once.                         *)
(*                                                                         *)
(* Kept: the order of every remote call and database access of run,        *)
(* action_on_server, launch_server, server_forceoff, update_servers_status *)
(* and the start of the thread; the second try of a failed action; the two *)
(* exits that leave db_lock taken; localinfo in memory and at the host;    *)
(* guests that stop or crash; stops and restarts of the process.           *)
(*                                                                         *)
(* Abstracted: the placement of a server is its set of cores (Allocation   *)
(* models how they are chosen; that they are looked for first and the row  *)
(* is inserted later is kept); the task queue never fills (TaskQueue       *)
(* models that); one image in the repository; 'paused' is left out of the  *)
(* request, since launch_server compares it with "yes" and it is True;     *)
(* the tasks for interfaces and ovs bridges change none of this state.     *)
(***************************************************************************)
EXTENDS HostFiles, Sequences

CONSTANTS
  Servers,
  NoRow,        \* no row in instances
  NoStatus,     \* no entry in server_status
  Uses,         \* Uses[s]: the cores create_server gives to s
  Incremental,  \* Incremental[s]: use_incremental of its image and metadata
  InitFiles,    \* what may run at the start: for each server its file, or Absent
  InitBase,     \* the local copy of the image at the start, or Absent
  HttpThreads,  \* http and http-admin
  Asked,        \* bound: the actions requested, pairs of a server and an action
  GuestEvents,  \* bound: what a guest may do by itself
  MaxOps,       \* bound: number of requests
  MaxMishaps    \* bound: number of guest events, images replaced, failed
                \* calls and stops of the process, all together

Reports == {"ACTIVE", "PAUSED", "INACTIVE", "ERROR"}
Status == Reports \cup {"CREATING"}
Live == {"running", "paused", "crashed"}
MachineStates == Live \cup {"none", "off"}
\* An image is made of the disk of the server, or of the image that imageRef
\* names, which may be any image that is ACTIVE.
ImageActions == {"createImage", "createImageRef"}
Actions == {"start", "startRebuild", "rebuild", "terminate", "pause", "resume",
            "forceOff", "shutoff"} \cup ImageActions
Versions == 0..MaxMishaps

\* No request, no task; what action_on_server has not decided.
Idle == [op |-> "idle"]
Undecided == "None"

ASSUME ServersAreTyped ==
  /\ NoRow \notin Status
  /\ NoStatus \notin Status
  /\ InitFiles \subseteq [Servers -> Files \cup {Absent}]
  /\ InitBase \in Files \cup {Absent}
  /\ Incremental \in [Servers -> BOOLEAN]
  /\ Absent \notin Files
  /\ Absent \notin [image : Nat, backing : Files \cup {Absent}]
  /\ Files \subseteq Nat
  /\ Asked \subseteq Servers \X Actions
  /\ GuestEvents \subseteq {"off", "crashed"}

\* The servers that run at the start were placed with cores of their own.
ASSUME CoresOfRunning ==
  \A files \in InitFiles : \A s, t \in Servers :
    (s # t /\ Absent \notin {files[s], files[t]}) => Uses[s] \cap Uses[t] = {}

VARIABLES
  (* database *)
  row,        \* row[s]: instances.status
  image,      \* image[s]: images.status of the image made of s
  lost,       \* lost[s]: cores of s that resources_core has for a later server
  (* compute node *)
  machine,    \* machine[s]: the state of its domain
  leaving,    \* machines told to shut down
  diskOf,     \* diskOf[s]: the file its machine was created with
  disk,       \* the files
  savedBase,  \* localinfo as last written to the host: the local copy
  savedFile,  \* and the files of the servers
  repo,       \* the version of the image in the repository
  (* host thread *)
  queue,      \* its tasks
  pc,         \* what it does next
  req,        \* the task in progress
  try,        \* 1 or 2
  new,        \* new_status, once decided
  known,      \* known[s]: server_status[s]
  pending,    \* pending_terminate_server
  base,       \* localinfo['files'] of the image
  record,     \* record[s]: the file in localinfo['server_files'][s]
  dirty,      \* localinfo_dirty
  seen,       \* seen[s]: a status read from libvirt and not yet written
  lockLost,   \* db_lock was taken and will not be released
  (* http threads *)
  http,       \* http[h]: the request in progress
  (* bounds and history *)
  ops, events, faults, crashes,
  born,       \* servers that have had a row
  shutDown,   \* servers whose terminate task was carried out
  raced,      \* servers found in the database after that
  abandoned,  \* servers whose machine the thread will not stop any more
  forgotten,  \* servers whose createImage task a restart or a failure has ended
  rivals,     \* servers placed while another placement was on its way
  misnamed,   \* servers of which an image was asked with another's imageRef
  undeleted,  \* servers whose deletion the database refused
  atRisk,     \* servers whose files the thread may delete under their machine
  unfollowed  \* servers whose last status was lost, or that the thread has not read

dbVars     == <<row, image, lost, born>>
nodeVars   == <<machine, leaving, diskOf, disk, savedBase, savedFile, repo>>
taskVars   == <<req, try, new>>
memVars    == <<known, pending, base, record, dirty, seen>>
threadVars == <<queue, pc, taskVars, memVars, lockLost>>
boundVars  == <<ops, events, faults, crashes>>
histVars   == <<shutDown, raced, abandoned, forgotten, misnamed, rivals, undeleted, atRisk, unfollowed>>
vars == <<dbVars, nodeVars, threadVars, http, boundVars, histVars>>

-----------------------------------------------------------------------------
(* Operators *)

IsLive(s) == machine[s] \in Live

\* Mutant: the libvirt state itself.
RawState(m) == m

\* What update_servers_status makes of a libvirt state.
Reported(m) ==
  CASE m = "running" -> "ACTIVE"
    [] m = "paused" -> "PAUSED"
    [] m \in {"none", "off"} -> "INACTIVE"
    [] m = "crashed" -> "ERROR"

\* A status in the database that is right about the machine.
Agrees(status, m) ==
  \/ status = Reported(m)
  \/ status = "ERROR" /\ Reported(m) = "INACTIVE"

NothingKnown == [s \in Servers |-> NoStatus]
NoFiles == [s \in Servers |-> Absent]

CoresInUse == UNION {Uses[s] \ lost[s] : s \in {t \in Servers : row[t] # NoRow}}

\* Servers with cores that were given once more while they had them.
Robbed == {s \in Servers : lost[s] # {}}

Task(op, s, status) == [op |-> op, id |-> s, status |-> status]
Reload == [op |-> "reload"]
Exit == [op |-> "exit"]

\* localinfo, with these files of servers and this copy of the image, has disk
\* f of s and what backs it for nobody else.
OwnDisk(s, f, files, copy) ==
  /\ f # copy
  /\ \A t \in Servers \ {s} : files[t] # f
  /\ disk[f] # Absent /\ disk[f].backing # Absent => \A t \in Servers : files[t] # disk[f].backing

\* A terminate of s that the thread or a request has still to carry out.
TerminateAhead(s) ==
  \/ \E i \in DOMAIN queue : queue[i].op = "terminate" /\ queue[i].id = s
  \/ req.op = "terminate" /\ req.id = s
  \/ \E i \in DOMAIN pending : pending[i] = s
  \/ \E h \in HttpThreads : http[h].op = "terminate" /\ http[h].id = s

MishapLeft == events + faults + crashes < MaxMishaps

Fault ==
  /\ MishapLeft
  /\ faults' = faults + 1
NoFault == UNCHANGED faults

-----------------------------------------------------------------------------
(* Requests *)

\* The servers that have been given cores and have no row yet.
Placing == {http[h].id : h \in {k \in HttpThreads : http[k].op = "place"}}

\* http_post_server_id: create_server takes db_lock and looks for free cores.
PostServer(h, s, start) ==
  /\ http[h] = Idle
  /\ ops < MaxOps
  /\ ~lockLost
  /\ s \notin born
  /\ \A k \in HttpThreads : http[k] # Idle => http[k].id # s
  /\ Uses[s] \cap CoresInUse = {}
  /\ http' = [http EXCEPT ![h] = Task("place", s, IF start = "no" THEN "INACTIVE" ELSE "CREATING")]
  /\ rivals' = rivals \cup IF Placing = {} THEN {} ELSE {s} \cup Placing
  /\ ops' = ops + 1
  /\ UNCHANGED <<dbVars, nodeVars, threadVars, events, faults, crashes,
                 shutDown, raced, abandoned, forgotten, misnamed, undeleted, atRisk, unfollowed>>

\* new_instance inserts the row and takes the cores, from whoever has them by
\* now; or it fails.  A server to be started goes on to its task.
NewInstance(h) ==
  /\ http[h].op = "place"
  /\ LET s == http[h].id
         status == http[h].status
     IN  \/ /\ row' = [row EXCEPT ![s] = status]
            /\ born' = born \cup {s}
            /\ lost' = [t \in Servers |-> IF t # s /\ row[t] # NoRow THEN lost[t] \cup (Uses[t] \cap Uses[s])
                                          ELSE lost[t]]
            /\ http' = [http EXCEPT ![h] = IF status = "INACTIVE" THEN Idle ELSE Task("start", s, status)]
            /\ NoFault
         \/ Fault /\ http' = [http EXCEPT ![h] = Idle] /\ UNCHANGED <<row, born, lost>>
  /\ UNCHANGED <<image, nodeVars, threadVars, ops, events, crashes, histVars>>

\* A server in ERROR can only be deleted or built anew.
Allowed(act, status) == status = "ERROR" => act \in {"terminate", "rebuild"}

\* http_server_action up to the task: the row is read, and an image that is to
\* be made gets its row (one for each server: a bound).
AskAction(h, s, act) ==
  /\ http[h] = Idle
  /\ ops < MaxOps
  /\ row[s] # NoRow
  /\ Allowed(act, row[s])
  /\ IF act \in ImageActions
     THEN image[s] = "none" /\ image' = [image EXCEPT ![s] = "BUILD"]
     ELSE UNCHANGED image
  /\ misnamed' = IF act = "createImageRef" THEN misnamed \cup {s} ELSE misnamed
  /\ http' = [http EXCEPT ![h] = Task(act, s, row[s])]
  /\ ops' = ops + 1
  /\ UNCHANGED <<row, lost, born, nodeVars, threadVars, events, faults, crashes,
                 shutDown, raced, abandoned, forgotten, rivals, undeleted, atRisk, unfollowed>>

\* The task of a request is queued; a terminate goes on to delete the row.
InsertTask(h) ==
  /\ http[h] # Idle
  /\ http[h].op \notin {"place", "delete"}
  /\ queue' = Append(queue, http[h])
  /\ http' = [http EXCEPT ![h] =
                IF http[h].op = "terminate" THEN [op |-> "delete", id |-> http[h].id] ELSE Idle]
  /\ UNCHANGED <<dbVars, nodeVars, pc, taskVars, memVars, lockLost, boundVars, histVars>>

\* delete_instance: the row goes, if it is still there, and its cores are
\* free; or it fails, and nobody looks.
DeleteInstance(h) ==
  /\ http[h].op = "delete"
  /\ \/ row' = [row EXCEPT ![http[h].id] = NoRow] /\ NoFault /\ UNCHANGED undeleted
     \/ Fault /\ undeleted' = undeleted \cup {http[h].id} /\ UNCHANGED row
  /\ http' = [http EXCEPT ![h] = Idle]
  /\ UNCHANGED <<image, lost, born, nodeVars, threadVars, ops, events, crashes,
                 shutDown, raced, abandoned, forgotten, misnamed, rivals, atRisk, unfollowed>>

\* PUT host inserts 'reload'; stop_service and DELETE host insert 'exit'.
AskThread(task) ==
  /\ ops < MaxOps
  /\ queue' = Append(queue, task)
  /\ ops' = ops + 1
  /\ UNCHANGED <<dbVars, nodeVars, pc, taskVars, memVars, lockLost, http,
                 events, faults, crashes, histVars>>

-----------------------------------------------------------------------------
(* The task in progress *)

\* It is over: run goes on with the next.
TaskDone ==
  /\ pc' = "idle"
  /\ req' = Idle
  /\ try' = 1
  /\ new' = Undecided

\* The end of action_on_server, for every status but 'deleted'.
Conclude(status) ==
  IF status = Undecided THEN TaskDone
  ELSE IF status = "ERROR" /\ try = 1
  THEN pc' = "act" /\ try' = 2 /\ UNCHANGED <<req, new>>
  ELSE IF status = "ERROR" /\ req.op = "terminate"
  THEN pc' = "panic" /\ UNCHANGED taskVars
  ELSE IF status # req.status \/ status = "ERROR"
  THEN pc' = "write" /\ new' = status /\ UNCHANGED <<req, try>>
  ELSE TaskDone

\* 'deleted': the thread forgets the server and deletes its files; that a file
\* cannot be deleted is passed over.
Forget(s) ==
  /\ known' = [known EXCEPT ![s] = NoStatus]
  /\ \/ disk' = DeleteFile(disk, record[s]) /\ NoFault
     \/ record[s] # Absent /\ Fault /\ UNCHANGED disk
  /\ record' = [record EXCEPT ![s] = Absent]
  /\ dirty' = (dirty \/ record[s] # Absent)

TakeTask ==
  /\ pc = "idle"
  /\ queue # << >>
  /\ req' = Head(queue)
  /\ queue' = Tail(queue)
  /\ pc' = IF Head(queue) \in {Reload, Exit} THEN "wait" ELSE "act"
  /\ try' = 1
  /\ new' = Undecided
  /\ UNCHANGED <<dbVars, nodeVars, memVars, lockLost, http, boundVars, histVars>>

\* The connection to libvirt fails, or a call whose failure is not ignored.  A
\* failure that lasts for both tries counts once.
ActFails ==
  /\ pc = "act"
  /\ IF try = 1 THEN Fault ELSE NoFault /\ faults > 0
  /\ Conclude("ERROR")
  /\ forgotten' = IF req.op \in ImageActions /\ try = 2 THEN forgotten \cup {req.id} ELSE forgotten
  /\ UNCHANGED <<dbVars, nodeVars, queue, memVars, lockLost, http, ops, events, crashes,
                 shutDown, raced, abandoned, misnamed, rivals, undeleted, atRisk, unfollowed>>

\* 'start': a domain that is there is resumed, which fails if it is not
\* running; otherwise the machine has to be launched.
ActStart ==
  /\ pc = "act"
  /\ req.op = "start"
  /\ CASE machine[req.id] = "none" ->
            pc' = "read" /\ UNCHANGED <<machine, taskVars>>
       [] machine[req.id] \in {"running", "paused"} ->
            machine' = [machine EXCEPT ![req.id] = "running"] /\ Conclude("ACTIVE")
       [] machine[req.id] \in {"off", "crashed"} ->
            Conclude("ERROR") /\ UNCHANGED machine
  /\ UNCHANGED <<dbVars, leaving, diskOf, disk, savedBase, savedFile, repo, queue,
                 memVars, lockLost, http, boundVars, histVars>>

\* {"start": "rebuild"}: launched anew, the domain is not looked at.
ActStartRebuild ==
  /\ pc = "act"
  /\ req.op = "startRebuild"
  /\ pc' = "read"
  /\ UNCHANGED <<dbVars, nodeVars, queue, taskVars, memVars, lockLost, http,
                 boundVars, histVars>>

\* 'rebuild': the domain is destroyed first, which fails if it is not running.
ActRebuild ==
  /\ pc = "act"
  /\ req.op = "rebuild"
  /\ IF machine[req.id] = "off"
     THEN Conclude("ERROR") /\ UNCHANGED <<machine, leaving>>
     ELSE /\ machine' = [machine EXCEPT ![req.id] = "none"]
          /\ leaving' = leaving \ {req.id}
          /\ pc' = "read"
          /\ UNCHANGED taskVars
  /\ UNCHANGED <<dbVars, diskOf, disk, savedBase, savedFile, repo, queue, memVars,
                 lockLost, http, boundVars, histVars>>

\* Mutant: the files go with the order to shut down.
ForgetAtOnce ==
  /\ pc = "act"
  /\ req.op = "terminate"
  /\ IF IsLive(req.id)
     THEN /\ leaving' = leaving \cup {req.id}
          /\ pending' = Append(pending, req.id)
          /\ UNCHANGED machine
     ELSE /\ machine' = [machine EXCEPT ![req.id] = "none"]
          /\ UNCHANGED <<leaving, pending>>
  /\ Forget(req.id)
  /\ shutDown' = shutDown \cup {req.id}
  /\ TaskDone
  /\ UNCHANGED <<dbVars, diskOf, savedBase, savedFile, repo, queue, base, seen,
                 lockLost, http, ops, events, crashes,
                 raced, abandoned, forgotten, misnamed, rivals, undeleted, atRisk, unfollowed>>

\* 'terminate': a live machine is told to shut down and will be destroyed 10 s
\* later; one that is not is undefined and forgotten.
ActTerminate ==
  /\ pc = "act"
  /\ req.op = "terminate"
  /\ IF IsLive(req.id)
     THEN /\ leaving' = leaving \cup {req.id}
          /\ pending' = Append(pending, req.id)
          /\ UNCHANGED <<machine, known, disk, record, dirty, faults>>
     ELSE /\ machine' = [machine EXCEPT ![req.id] = "none"]
          /\ Forget(req.id)
          /\ UNCHANGED <<leaving, pending>>
  /\ shutDown' = shutDown \cup {req.id}
  /\ TaskDone
  /\ UNCHANGED <<dbVars, diskOf, savedBase, savedFile, repo, queue, base, seen,
                 lockLost, http, ops, events, crashes,
                 raced, abandoned, forgotten, misnamed, rivals, undeleted, atRisk, unfollowed>>

\* The other actions: one call if the domain is there, no status is decided;
\* a shutdown of a machine that is not running is an error.
ActOther ==
  /\ pc = "act"
  /\ LET m == machine[req.id]
         Becomes(state) == machine' = [machine EXCEPT ![req.id] = state] /\ TaskDone
     IN  CASE req.op = "pause" ->
                Becomes(IF m = "running" THEN "paused" ELSE m) /\ UNCHANGED leaving
           [] req.op = "resume" ->
                Becomes(IF m = "paused" THEN "running" ELSE m) /\ UNCHANGED leaving
           [] req.op = "forceOff" ->
                /\ Becomes(IF IsLive(req.id) THEN "none" ELSE m)
                /\ leaving' = leaving \ {req.id}
           [] req.op = "shutoff" ->
                IF m = "off"
                THEN Conclude("ERROR") /\ UNCHANGED <<machine, leaving>>
                ELSE /\ leaving' = IF IsLive(req.id) THEN leaving \cup {req.id} ELSE leaving
                     /\ TaskDone
                     /\ UNCHANGED machine
           [] OTHER -> FALSE
  /\ UNCHANGED <<dbVars, diskOf, disk, savedBase, savedFile, repo, queue, memVars,
                 lockLost, http, boundVars, histVars>>

\* The file that an image is made of: localinfo has it if it is one of the
\* server.
SourceFile == IF req.op = "createImage" THEN record[req.id] ELSE Absent

\* Mutant: a copy that failed writes nothing.
FailureUnwritten ==
  /\ pc = "act"
  /\ req.op \in ImageActions
  /\ ~lockLost
  /\ IF SourceFile = Absent
     THEN lockLost' = TRUE /\ NoFault /\ UNCHANGED image
     ELSE /\ UNCHANGED lockLost
          /\ \/ image' = [image EXCEPT ![req.id] = "ACTIVE"] /\ NoFault
             \/ UNCHANGED image /\ Fault
  /\ TaskDone
  /\ UNCHANGED <<row, lost, born, nodeVars, queue, memVars, http, ops, events, crashes, histVars>>

\* The file is copied and the row of the image written, whose update may fail
\* unseen.
MakeImage ==
  \/ /\ image' = [image EXCEPT ![req.id] = IF disk[SourceFile] = Absent THEN "ERROR" ELSE "ACTIVE"]
     /\ NoFault /\ UNCHANGED forgotten
  \/ image' = [image EXCEPT ![req.id] = "ERROR"] /\ Fault /\ UNCHANGED forgotten
  \/ forgotten' = forgotten \cup {req.id} /\ Fault /\ UNCHANGED image

\* create_image.  Where localinfo has no such file, or no name is found for
\* the new one, no destination is known when db_lock is already taken, and the
\* exception leaves it so.
ActCreateImage ==
  /\ pc = "act"
  /\ req.op \in ImageActions
  /\ ~lockLost
  /\ \/ SourceFile # Absent /\ MakeImage /\ UNCHANGED lockLost
     \/ /\ IF SourceFile = Absent THEN NoFault ELSE Fault
        /\ lockLost' = TRUE
        /\ UNCHANGED <<image, forgotten>>
  /\ TaskDone
  /\ UNCHANGED <<row, lost, born, nodeVars, queue, memVars, http, ops, events, crashes,
                 shutDown, raced, abandoned, misnamed, rivals, undeleted, atRisk, unfollowed>>

Rebuilding == req.op \in {"rebuild", "startRebuild"}

\* Mutant: only a failed call ends the launch, not a missing row.
RowAssumed ==
  /\ pc = "read"
  /\ ~lockLost
  /\ \/ pc' = "files" /\ NoFault /\ UNCHANGED taskVars
     \/ Fault /\ Conclude("ERROR")
  /\ UNCHANGED <<dbVars, nodeVars, queue, memVars, lockLost, http, ops, events,
                 crashes, histVars>>

\* launch_server asks for the row.  None is taken for a success.
GetInstance ==
  /\ pc = "read"
  /\ ~lockLost
  /\ \/ /\ row[req.id] # NoRow
        /\ pc' = "files"
        /\ raced' = IF req.id \in shutDown THEN raced \cup {req.id} ELSE raced
        /\ NoFault
        /\ UNCHANGED taskVars
     \/ row[req.id] = NoRow /\ Conclude("ACTIVE") /\ NoFault /\ UNCHANGED raced
     \/ Fault /\ Conclude("ERROR") /\ UNCHANGED raced
  /\ UNCHANGED <<dbVars, nodeVars, queue, memVars, lockLost, http, ops, events,
                 crashes, shutDown, abandoned, forgotten, misnamed, rivals, undeleted, atRisk, unfollowed>>

\* The files of the last build are deleted first when it is built anew.
ClearedDisk == IF Rebuilding THEN DeleteFile(disk, record[req.id]) ELSE disk

\* The files of the server: those it has, or a new copy of the image.
PrepareFiles ==
  /\ pc = "files"
  /\ IF record[req.id] # Absent /\ ~Rebuilding
     THEN UNCHANGED <<disk, base, record>>
     ELSE LET made == NewServerFile(ClearedDisk, base, repo, Incremental[req.id])
          IN  /\ NamesLeft(ClearedDisk)
              /\ disk' = made.disk
              /\ base' = made.base
              /\ record' = [record EXCEPT ![req.id] = made.file]
  /\ dirty' = TRUE
  /\ pc' = IF Rebuilding THEN "create" ELSE "wait"
  /\ atRisk' = IF Rebuilding /\ IsLive(req.id) THEN atRisk \cup {req.id} ELSE atRisk
  /\ UNCHANGED <<dbVars, machine, leaving, diskOf, savedBase, savedFile, repo, queue,
                 taskVars, known, pending, seen, lockLost, http, boundVars,
                 shutDown, raced, abandoned, forgotten, misnamed, rivals, undeleted, unfollowed>>

\* It fails on the way: what was deleted or copied stays so, and only the copy
\* of the image is recorded.
PrepareFilesFails ==
  /\ pc = "files"
  /\ Fault
  /\ LET made == NewServerFile(ClearedDisk, base, repo, Incremental[req.id])
     IN  \/ disk' = ClearedDisk /\ UNCHANGED base
         \/ /\ record[req.id] = Absent \/ Rebuilding
            /\ NamesLeft(ClearedDisk)
            /\ disk' = made.disk
            /\ base' = made.base
  /\ Conclude("ERROR")
  /\ atRisk' = IF Rebuilding /\ IsLive(req.id) THEN atRisk \cup {req.id} ELSE atRisk
  /\ UNCHANGED <<dbVars, machine, leaving, diskOf, savedBase, savedFile, repo, queue,
                 known, pending, record, dirty, seen, lockLost, http, ops, events,
                 crashes, shutDown, raced, abandoned, forgotten, misnamed, rivals, undeleted, unfollowed>>

\* Mutant: a launch does not wait for the machines that are going.
NoWait ==
  /\ pc = "wait"
  /\ req.op = "start"
  /\ pc' = "create"
  /\ UNCHANGED <<dbVars, nodeVars, queue, taskVars, memVars, lockLost, http,
                 boundVars, histVars>>

\* server_forceoff(True) has emptied pending_terminate_server.
Waited ==
  /\ pc = "wait"
  /\ req.op = "start"
  /\ pending = << >>
  /\ pc' = "create"
  /\ UNCHANGED <<dbVars, nodeVars, queue, taskVars, memVars, lockLost, http,
                 boundVars, histVars>>

\* createXML: refused if the domain is there or its disk is not.
CreateDomain ==
  /\ pc = "create"
  /\ \/ /\ machine[req.id] = "none"
        /\ Usable(disk, record[req.id])
        /\ machine' = [machine EXCEPT ![req.id] = "running"]
        /\ leaving' = leaving \ {req.id}
        /\ diskOf' = [diskOf EXCEPT ![req.id] = record[req.id]]
        /\ atRisk' = IF OwnDisk(req.id, record[req.id], record, base) THEN atRisk
                     ELSE atRisk \cup {req.id}
        /\ Conclude("ACTIVE")
        /\ NoFault
     \/ /\ machine[req.id] # "none" \/ ~Usable(disk, record[req.id])
        /\ Conclude("ERROR")
        /\ NoFault
        /\ UNCHANGED <<machine, leaving, diskOf, atRisk>>
     \/ Fault /\ Conclude("ERROR") /\ UNCHANGED <<machine, leaving, diskOf, atRisk>>
  /\ UNCHANGED <<dbVars, disk, savedBase, savedFile, repo, queue, memVars, lockLost, http,
                 ops, events, crashes, shutDown, raced, abandoned, forgotten, misnamed, rivals, undeleted, unfollowed>>

\* The status reached is written, if the row is still there, and remembered
\* whether or not the database took it.
WriteStatus ==
  /\ pc = "write"
  /\ ~lockLost
  /\ \/ /\ row' = IF row[req.id] = NoRow THEN row ELSE [row EXCEPT ![req.id] = new]
        /\ unfollowed' = unfollowed \ {req.id}
        /\ NoFault
     \/ Fault /\ unfollowed' = unfollowed \cup {req.id} /\ UNCHANGED row
  /\ known' = [known EXCEPT ![req.id] = new]
  /\ TaskDone
  /\ UNCHANGED <<image, lost, born, nodeVars, queue, pending, base, record, dirty, seen,
                 lockLost, http, ops, events, crashes,
                 shutDown, raced, abandoned, forgotten, misnamed, rivals, undeleted, atRisk>>

\* A terminate has failed twice: the thread logs it and forgets the server.
\* Where an undefine has failed too the text of the error is no text, and the
\* exception leaves db_lock taken.
Panic ==
  /\ pc = "panic"
  /\ ~lockLost
  /\ \/ known' = [known EXCEPT ![req.id] = NoStatus] /\ UNCHANGED lockLost
     \/ machine[req.id] \notin Live \cup {"none"} /\ lockLost' = TRUE /\ UNCHANGED known
  /\ abandoned' = abandoned \cup {req.id}
  /\ TaskDone
  /\ UNCHANGED <<dbVars, nodeVars, queue, pending, base, record, dirty, seen,
                 http, boundVars, shutDown, raced, forgotten, misnamed, rivals, undeleted, atRisk, unfollowed>>

-----------------------------------------------------------------------------
(* server_forceoff *)

\* Mutant: only a launch forces machines off.
OnlyLaunchForces == pending # << >> /\ pc \in {"force", "wait"}

\* The first machine of the list may be 10 s old: at any time when the thread
\* has nothing else to do, in the loop of server_forceoff, or in the end when
\* it waits for it.
MayForceOff ==
  /\ pending # << >>
  /\ pc \in {"force", "wait"} \/ (pc = "idle" /\ queue = << >> /\ ~dirty)

\* Mutant: the machine is taken off the list and nothing is destroyed.
PopOnly ==
  /\ MayForceOff
  /\ pending' = Tail(pending)
  /\ pc' = IF pc = "wait" THEN "wait" ELSE "force"
  /\ UNCHANGED <<dbVars, nodeVars, queue, taskVars, known, base, record, dirty, seen,
                 lockLost, http, boundVars, histVars>>

\* It is destroyed, or undefined if it is not running, and forgotten; then it
\* is taken off the list.
ForceOff ==
  /\ MayForceOff
  /\ LET s == Head(pending)
     IN  /\ machine' = [machine EXCEPT ![s] = "none"]
         /\ leaving' = leaving \ {s}
         /\ Forget(s)
  /\ pending' = Tail(pending)
  /\ pc' = IF pc = "wait" THEN "wait" ELSE "force"
  /\ UNCHANGED <<dbVars, diskOf, savedBase, savedFile, repo, queue, taskVars, base,
                 seen, lockLost, http, ops, events, crashes, histVars>>

EndForceOff ==
  /\ pc = "force"
  /\ pc' = "idle"
  /\ UNCHANGED <<dbVars, nodeVars, queue, taskVars, memVars, lockLost, http,
                 boundVars, histVars>>

\* It cannot be destroyed.  The request made up for it has no tenant_id, and
\* the exception leaves db_lock taken and the machine on the list; whoever
\* called goes on, but a launch has failed and the end of the thread goes on.
ForceOffFails ==
  /\ MayForceOff
  /\ ~lockLost
  /\ Fault
  /\ lockLost' = TRUE
  /\ CASE pc \in {"idle", "force"} -> pc' = "idle" /\ UNCHANGED taskVars
       [] pc = "wait" /\ req.op = "start" -> Conclude("ERROR")
       [] pc = "wait" /\ req.op = "reload" -> pc' = "load" /\ UNCHANGED taskVars
       [] pc = "wait" /\ req.op = "exit" -> pc' = "stopped" /\ UNCHANGED taskVars
  /\ UNCHANGED <<dbVars, nodeVars, queue, memVars, http, ops, events, crashes, histVars>>

-----------------------------------------------------------------------------
(* Between tasks *)

\* save_localinfo: localinfo is the file at the host, or the attempt has failed
\* and left what was there, or nothing that can be read.
Saved ==
  \/ savedBase' = base /\ savedFile' = record /\ dirty' = FALSE /\ NoFault
  \/ Fault /\ UNCHANGED <<savedBase, savedFile, dirty>>
  \/ Fault /\ savedBase' = Absent /\ savedFile' = NoFiles /\ UNCHANGED dirty

SaveLocalinfo ==
  /\ pc = "idle"
  /\ queue = << >>
  /\ dirty
  /\ Saved
  /\ UNCHANGED <<dbVars, machine, leaving, diskOf, disk, repo, queue, pc, taskVars, known,
                 pending, base, record, seen, lockLost, http, ops, events, crashes, histVars>>

\* Mutant: a machine that is not listed is passed over.
NewsOfListed(s) ==
  known[s] # NoStatus /\ machine[s] # "none" /\ ~Agrees(known[s], machine[s])

\* A status to write: the thread has an entry for s that is not right.
News(s) == known[s] # NoStatus /\ ~Agrees(known[s], machine[s])

\* update_servers_status lists the domains and compares them with its entries.
Poll ==
  /\ pc = "idle"
  /\ queue = << >>
  /\ ~dirty
  /\ \E s \in Servers : News(s)
  /\ seen' = [s \in Servers |-> IF News(s) THEN Reported(machine[s]) ELSE NoStatus]
  /\ pc' = "poll"
  /\ UNCHANGED <<dbVars, nodeVars, queue, taskVars, known, pending, base, record, dirty,
                 lockLost, http, boundVars, histVars>>

\* One row is written, if it is there; the entry follows if the call succeeded.
PollWrite(s) ==
  /\ pc = "poll"
  /\ seen[s] # NoStatus
  /\ ~lockLost
  /\ \/ /\ row' = IF row[s] = NoRow THEN row ELSE [row EXCEPT ![s] = seen[s]]
        /\ known' = [known EXCEPT ![s] = seen[s]]
        /\ unfollowed' = unfollowed \ {s}
        /\ NoFault
     \/ Fault /\ UNCHANGED <<row, known, unfollowed>>
  /\ seen' = [seen EXCEPT ![s] = NoStatus]
  /\ pc' = IF seen' = NothingKnown THEN "idle" ELSE "poll"
  /\ UNCHANGED <<image, lost, born, nodeVars, queue, taskVars, pending, base, record, dirty,
                 lockLost, http, ops, events, crashes,
                 shutDown, raced, abandoned, forgotten, misnamed, rivals, undeleted, atRisk>>

-----------------------------------------------------------------------------
(* Start and end of the thread *)

\* terminate has emptied the list: localinfo is saved if it has to be, and the
\* thread ends or loads everything again.
EndThread ==
  /\ pc = "wait"
  /\ req \in {Reload, Exit}
  /\ pending = << >>
  /\ IF dirty THEN Saved ELSE UNCHANGED <<savedBase, savedFile, dirty, faults>>
  /\ pc' = IF req = Reload THEN "load" ELSE "stopped"
  /\ req' = Idle
  /\ UNCHANGED <<dbVars, machine, leaving, diskOf, disk, repo, queue, try, new, known,
                 pending, base, record, seen, lockLost, http, ops, events, crashes, histVars>>

Rows == [s \in Servers |-> IF row[s] = NoRow THEN NoStatus ELSE row[s]]
\* Mutant: servers that do not run have no use for their files.
LoadInactiveUnused(files, copy, status, kept) ==
  LET unused == {s \in Servers : files[s] # Absent /\ status[s] \in {NoStatus, "INACTIVE"}}
  IN  /\ disk' = [f \in Files |-> IF f \in {files[s] : s \in unused} \ kept THEN Absent ELSE disk[f]]
      /\ record' = [s \in Servers |-> IF s \in unused THEN Absent ELSE files[s]]
      /\ base' = copy
      /\ dirty' = (unused # {})
      /\ atRisk' = atRisk \cup {s \in unused : row[s] # NoRow}
                   \cup {s \in Servers : IsLive(s) /\ ~OwnDisk(s, diskOf[s], files, copy)}

\* delete_unused_files: of the servers that have an entry in localinfo and
\* none in server_status, but for a file that cannot be deleted.
LoadFiles(files, copy, status, kept) ==
  LET unused == {s \in Servers : files[s] # Absent /\ status[s] = NoStatus}
  IN  /\ disk' = [f \in Files |-> IF f \in {files[s] : s \in unused} \ kept THEN Absent ELSE disk[f]]
      /\ record' = [s \in Servers |-> IF s \in unused THEN Absent ELSE files[s]]
      /\ base' = copy
      /\ dirty' = (unused # {})
      /\ atRisk' = atRisk \cup {s \in unused : row[s] # NoRow}
                   \cup {s \in Servers : IsLive(s) /\ ~OwnDisk(s, diskOf[s], files, copy)}

\* load_localinfo, load_servers_from_db and delete_unused_files.  If the rows
\* cannot be read no server is known and the files of all are unused; if
\* localinfo cannot be read it is empty.
Load ==
  /\ pc = "load"
  /\ ~lockLost
  /\ \/ /\ known' = Rows /\ LoadFiles(savedFile, savedBase, Rows, {})
        /\ NoFault /\ UNCHANGED unfollowed
     \/ /\ known' = NothingKnown /\ LoadFiles(savedFile, savedBase, NothingKnown, {})
        /\ Fault /\ unfollowed' = unfollowed \cup {s \in Servers : row[s] # NoRow}
     \/ /\ known' = Rows /\ LoadFiles(NoFiles, Absent, Rows, {})
        /\ Fault /\ UNCHANGED unfollowed
     \/ /\ known' = Rows /\ \E f \in Files : LoadFiles(savedFile, savedBase, Rows, {f})
        /\ Fault /\ UNCHANGED unfollowed
  /\ pc' = "idle"
  /\ req' = Idle
  /\ UNCHANGED <<dbVars, machine, leaving, diskOf, savedBase, savedFile, repo, queue, try,
                 new, pending, seen, lockLost, http, ops, events, crashes,
                 shutDown, raced, abandoned, forgotten, misnamed, rivals, undeleted>>

\* The process is started again, after 'exit' or in the middle of anything:
\* the tasks, the requests and the machines to be forced off are forgotten.
Restart ==
  /\ \/ pc = "stopped" /\ UNCHANGED crashes
     \/ pc # "stopped" /\ MishapLeft /\ crashes' = crashes + 1
  /\ queue' = << >>
  /\ pc' = "load"
  /\ req' = Idle
  /\ try' = 1
  /\ new' = Undecided
  /\ pending' = << >>
  /\ seen' = [s \in Servers |-> NoStatus]
  /\ dirty' = FALSE
  /\ lockLost' = FALSE
  /\ http' = [h \in HttpThreads |-> Idle]
  /\ abandoned' = abandoned \cup {s \in Servers : TerminateAhead(s)}
  /\ forgotten' = forgotten \cup {s \in Servers : image[s] = "BUILD"}
  /\ UNCHANGED <<dbVars, nodeVars, known, base, record, ops, events, faults,
                 shutDown, raced, misnamed, rivals, undeleted, atRisk, unfollowed>>

-----------------------------------------------------------------------------
(* Environment *)

\* A guest does what it was told to: whether libvirt keeps the domain of a
\* guest that powered off is its own choice.
ShutsDown(s, state) ==
  /\ s \in leaving
  /\ machine[s] = "running"
  /\ state \in {"none", "off"} \cap ({"none"} \cup GuestEvents)
  /\ machine' = [machine EXCEPT ![s] = state]
  /\ leaving' = leaving \ {s}
  /\ UNCHANGED <<dbVars, diskOf, disk, savedBase, savedFile, repo, threadVars, http,
                 boundVars, histVars>>

\* It powers off or crashes by itself.
GuestEvent(s, state) ==
  /\ MishapLeft
  /\ machine[s] = "running"
  /\ machine' = [machine EXCEPT ![s] = state]
  /\ leaving' = leaving \ {s}
  /\ events' = events + 1
  /\ UNCHANGED <<dbVars, diskOf, disk, savedBase, savedFile, repo, threadVars, http,
                 ops, faults, crashes, histVars>>

\* Somebody replaces the image in the repository.
ReplaceImage ==
  /\ MishapLeft
  /\ repo' = repo + 1
  /\ events' = events + 1
  /\ UNCHANGED <<dbVars, machine, leaving, diskOf, disk, savedBase, savedFile, threadVars,
                 http, ops, faults, crashes, histVars>>

-----------------------------------------------------------------------------
(* Specification *)

Init ==
  /\ diskOf \in InitFiles
  /\ row = [s \in Servers |-> IF diskOf[s] = Absent THEN NoRow ELSE "ACTIVE"]
  /\ image = [s \in Servers |-> "none"]
  /\ lost = [s \in Servers |-> {}]
  /\ machine = [s \in Servers |-> IF diskOf[s] = Absent THEN "none" ELSE "running"]
  /\ leaving = {}
  /\ disk = [f \in Files |->
               IF f = InitBase THEN [image |-> 0, backing |-> Absent]
               ELSE IF \E s \in Servers : f = diskOf[s]
               THEN [image |-> 0, backing |-> InitBase]
               ELSE Absent]
  /\ savedBase = InitBase
  /\ savedFile = diskOf
  /\ repo = 0
  /\ queue = << >>
  /\ pc = "load"
  /\ req = Idle
  /\ try = 1
  /\ new = Undecided
  /\ known = NothingKnown
  /\ pending = << >>
  /\ base = Absent
  /\ record = NoFiles
  /\ dirty = FALSE
  /\ seen = NothingKnown
  /\ lockLost = FALSE
  /\ http = [h \in HttpThreads |-> Idle]
  /\ born = {s \in Servers : diskOf[s] # Absent}
  \* One request less where nothing runs.
  /\ ops = IF born = {} THEN 1 ELSE 0
  /\ events = 0 /\ faults = 0 /\ crashes = 0
  /\ shutDown = {} /\ raced = {} /\ abandoned = {} /\ forgotten = {} /\ misnamed = {}
  /\ rivals = {} /\ undeleted = {} /\ atRisk = {} /\ unfollowed = {}

HttpStep(h) == NewInstance(h) \/ InsertTask(h) \/ DeleteInstance(h)

ThreadStep ==
  \/ TakeTask
  \/ ActFails \/ ActStart \/ ActStartRebuild \/ ActRebuild \/ ActTerminate
  \/ ActOther \/ ActCreateImage
  \/ GetInstance \/ PrepareFiles \/ PrepareFilesFails \/ Waited \/ CreateDomain
  \/ WriteStatus \/ Panic
  \/ ForceOff \/ EndForceOff \/ ForceOffFails
  \/ SaveLocalinfo \/ Poll \/ (\E s \in Servers : PollWrite(s))
  \/ EndThread \/ Load

Next ==
  \/ \E h \in HttpThreads, s \in Servers, start \in {"yes", "no"} : PostServer(h, s, start)
  \/ \E h \in HttpThreads, ask \in Asked : AskAction(h, ask[1], ask[2])
  \/ \E task \in {Reload, Exit} : AskThread(task)
  \/ \E h \in HttpThreads : HttpStep(h)
  \/ ThreadStep
  \/ Restart
  \/ \E s \in Servers, state \in GuestEvents \cup {"none"} : ShutsDown(s, state)
  \/ \E s \in Servers, state \in GuestEvents : GuestEvent(s, state)
  \/ ReplaceImage

\* The threads go on as long as they can and a process that has ended is
\* started again; guests need not obey and nothing has to fail.
Fairness ==
  /\ \A h \in HttpThreads : WF_vars(HttpStep(h))
  /\ WF_vars(ThreadStep)
  /\ WF_vars(pc = "stopped" /\ Restart)

Spec == Init /\ [][Next]_vars /\ Fairness

-----------------------------------------------------------------------------
(* Properties *)

FileOrNone == Files \cup {Absent}

\* Every variable has its type.
TypeOK ==
  /\ row \in [Servers -> Status \cup {NoRow}]
  /\ image \in [Servers -> {"none", "BUILD", "ACTIVE", "ERROR"}]
  /\ \A s \in Servers : lost[s] \subseteq Uses[s]
  /\ machine \in [Servers -> MachineStates]
  /\ leaving \in SUBSET Servers
  /\ diskOf \in [Servers -> FileOrNone]
  /\ DOMAIN disk = Files
  /\ savedBase \in FileOrNone
  /\ savedFile \in [Servers -> FileOrNone]
  /\ pc \in {"load", "idle", "act", "read", "files", "wait", "create", "write", "panic",
             "force", "poll", "stopped"}
  /\ try \in {1, 2}
  /\ new \in Status \cup {Undecided}
  /\ known \in [Servers -> Status \cup {NoStatus}]
  /\ seen \in [Servers -> Reports \cup {NoStatus}]
  /\ base \in FileOrNone
  /\ record \in [Servers -> FileOrNone]
  /\ dirty \in BOOLEAN
  /\ lockLost \in BOOLEAN

\* A machine whose server was deleted is on its way out: somebody still has to
\* terminate it or to force it off.  The exceptions are a terminate that failed
\* twice or was forgotten by a restart, and a launch that found the row between
\* the terminate and the deletion of the row.
NoRunawayMachine ==
  \A s \in Servers :
    (IsLive(s) /\ row[s] = NoRow) => TerminateAhead(s) \/ s \in abandoned \cup raced

\* A start never meets a live machine on the cores the server was given: those
\* of deleted servers are forced off before createXML ("ensures that any
\* pending destroying server is done").  A rebuild does not wait for them, and
\* two requests placed at once may be given a core that one of them then loses
\* in the database: its machine and the other's meet on it.
LaunchHasCores ==
  [][\A s, t \in Servers :
       (/\ s # t
        /\ machine[s] = "none" /\ machine'[s] = "running"
        /\ Uses[s] \cap Uses[t] # {}
        /\ IsLive(t))
       => \/ Rebuilding /\ \E i \in DOMAIN pending : pending[i] = t
          \/ {s, t} \cap (abandoned \cup raced \cup (Robbed \cap rivals)) # {}]_vars

\* The disk of a live machine, and the copy of the image under it, are not
\* deleted while it lives.  The exceptions: {"start": "rebuild"} of a live
\* machine; a start of the thread that cannot read the rows; one that finds a
\* localinfo where the file has, from before, the name of another's, and a
\* launch on such a file; a copy replaced because the image changed.
DisksOfMachinesExist ==
  \A s \in Servers :
    (IsLive(s) /\ row[s] # NoRow /\ s \notin atRisk) =>
      /\ disk[diskOf[s]] # Absent
      /\ Usable(disk, diskOf[s]) \/ disk[diskOf[s]].image # repo

\* Without failures and stops every file of a server at the host is in
\* localinfo, where delete_unused_files and a terminate will find it.
FilesAreRecorded ==
  (faults = 0 /\ crashes = 0 /\ pc # "load") =>
    \A f \in Files :
      disk[f] # Absent => f = base \/ \E s \in Servers : f = record[s]

\* Nothing but a failure and two requests take db_lock for ever: an image asked
\* of a server that was never built, or was deleted meanwhile, and an image
\* asked with the imageRef of another.
LockLostOnlyBy ==
  (lockLost /\ faults = 0 /\ crashes = 0) =>
    \E s \in Servers :
      /\ image[s] = "BUILD"
      /\ diskOf[s] = Absent \/ s \in shutDown \/ row[s] = NoRow \/ s \in misnamed

\* The thread has no entry for a server it was told to delete, though the
\* database then refused to delete the row.
LeftBehind(s) == s \in undeleted /\ known[s] = NoStatus

\* When requests, failures and guests come to rest, the status in the database
\* of every server is that of its machine: update_servers_status corrects what
\* the actions wrote from the status they were queued with.  Not where a write
\* was lost, since the thread takes it for done, nor for servers it could not
\* read when it started, nor for one whose row stayed when it was to be
\* deleted, nor without db_lock.
StatusFollowsMachine ==
  <>[](lockLost \/ \A s \in Servers :
         (row[s] # NoRow /\ s \notin unfollowed /\ ~LeftBehind(s)) => Agrees(row[s], machine[s]))

\* By then the machines of the deleted servers have stopped.
DeletedStop ==
  <>[](lockLost \/ \A s \in Servers :
         (s \in born /\ row[s] = NoRow) =>
           ~IsLive(s) \/ s \in abandoned \cup raced)

\* And every image asked for has left BUILD, unless its task was forgotten
\* with the process, libvirt could not be reached, the database refused the
\* last write, or db_lock is lost.
ImagesAreFinished ==
  <>[](lockLost \/ \A s \in Servers : image[s] = "BUILD" => s \in forgotten)

\* The server whose row the launch in progress has found.
Looked == IF pc \in {"files", "wait", "create"} /\ req \notin {Reload, Exit}
          THEN {req.id} ELSE {}

\* The thread and the requests implement the life of a server.
Life == INSTANCE ServerLife WITH looked <- Looked
ImplementsServerLife == Life!LifeSpec
=============================================================================
