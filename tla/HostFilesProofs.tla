--------------------------- MODULE HostFilesProofs ---------------------------
(***************************************************************************)
(* Theorems about what a host thread keeps at its compute node, for any    *)
(* servers, files, requests, failures and stops: every variable has its    *)
(* type; the disks of live machines are not deleted under them; without    *)
(* failures localinfo has every file, and db_lock is lost in two ways only. *)
(***************************************************************************)
EXTENDS HostProofs, WellFoundedInduction

\* The types of the files, of localinfo and of the thread.
FilesTyped ==
  /\ diskOf \in [Servers -> FileOrNone]
  /\ disk \in FileSystem(Nat)
  /\ repo \in Nat
  /\ base \in FileOrNone
  /\ record \in [Servers -> FileOrNone]
  /\ savedBase \in FileOrNone
  /\ savedFile \in [Servers -> FileOrNone]

ThreadTyped ==
  /\ image \in [Servers -> {"none", "BUILD", "ACTIVE", "ERROR"}]
  /\ leaving \in SUBSET Servers
  /\ pc \in {"load", "idle", "act", "read", "files", "wait", "create", "write", "panic",
             "force", "poll", "stopped"}
  /\ try \in {1, 2}
  /\ new \in Status \cup {Undecided}
  /\ known \in [Servers -> Status \cup {NoStatus}]
  /\ dirty \in BOOLEAN
  /\ lockLost \in BOOLEAN

-----------------------------------------------------------------------------
(* Files *)

LEMMA UnusedIs ==
  ASSUME NEW d, \E f \in Files : d[f] = Absent
  PROVE  Unused(d) \in Files /\ d[Unused(d)] = Absent
<1> DEFINE F == {f \in Files : d[f] = Absent}
           Less == {p \in Nat \X Nat : p[1] < p[2]}
<1>1. IsWellFoundedOn(Less, Nat)
  BY NatLessThanWellFounded, Zenon DEF OpToRel
<1>2. F \subseteq Nat /\ F # {}
  BY ServersAreTyped
<1>3. PICK f \in F : \A g \in F : ~(<<g, f>> \in Less)
  <2> HIDE DEF F, Less
  <2> QED
    BY <1>1, <1>2, WFMin, Zenon
<1>4. \A g \in F : f <= g
  <2> SUFFICES ASSUME NEW g \in F PROVE f <= g
    OBVIOUS
  <2>1. f \in Nat /\ g \in Nat /\ <<g, f>> \notin Less
    BY <1>2, <1>3
  <2> QED
    BY <2>1
<1>5. f \in Files /\ d[f] = Absent /\ \A g \in Files : d[g] = Absent => f <= g
  BY <1>3, <1>4
<1> QED
  BY <1>5 DEF Unused

\* A file that is deleted, and no other, is gone.
LEMMA DeletedIs ==
  ASSUME NEW d \in FileSystem(Nat), NEW f \in FileOrNone
  PROVE  /\ DeleteFile(d, f) \in FileSystem(Nat)
         /\ \A g \in Files : DeleteFile(d, f)[g] = IF g = f THEN Absent ELSE d[g]
BY ServersAreTyped DEF DeleteFile, FileSystem, FileOrNone

LEMMA NamesStayLeft ==
  ASSUME NEW d \in FileSystem(Nat), NEW f \in FileOrNone, NamesLeft(d)
  PROVE  NamesLeft(DeleteFile(d, f))
BY DeletedIs DEF NamesLeft

LEMMA PutIs ==
  ASSUME NEW d \in FileSystem(Nat), NEW f \in Files, NEW v \in Nat, NEW b \in FileOrNone,
         NEW e, e = [d EXCEPT ![f] = [image |-> v, backing |-> b]]
  PROVE  /\ e \in FileSystem(Nat)
         /\ \A g \in Files : g # f => e[g] = d[g]
         /\ e[f] # Absent /\ e[f].image = v /\ e[f].backing = b
<1> DEFINE content == [image |-> v, backing |-> b]
<1>1. content \in [image : Nat, backing : FileOrNone]
  OBVIOUS
<1>2. e[f] = content /\ content # Absent /\ \A g \in Files : g # f => e[g] = d[g]
  BY <1>1, ServersAreTyped DEF FileSystem, FileOrNone
<1>3. e \in FileSystem(Nat)
  BY <1>1 DEF FileSystem, FileOrNone
<1> QED
  BY <1>2, <1>3

\* The contents of a file.
LEMMA FileIs ==
  ASSUME NEW d \in FileSystem(Nat), NEW f \in Files, d[f] # Absent
  PROVE  d[f].image \in Nat /\ d[f].backing \in FileOrNone
BY DEF FileSystem, FileOrNone

\* What copy_remote_file and launch_server make of the files d with the copy b:
\* the disk file has the image; nothing that is there changes but a copy that
\* is no longer like the image, and it does not stay as it is.
Made(d, b, v, m) ==
  /\ m.disk \in FileSystem(Nat)
  /\ m.base \in FileOrNone
  /\ m.file \in Files
  /\ m.disk[m.file] # Absent
  /\ \A g \in Files : d[g] # Absent => m.disk[g] = d[g] \/ (g = b /\ d[g].image # v)
  /\ \A g \in Files : m.disk[g] # Absent => g \in {m.file, m.base} \/ (g # b /\ d[g] # Absent)
  /\ \A g \in Files :
       \/ m.disk[g] \in {Absent, d[g]}
       \/ /\ m.disk[g].image = v
          /\ m.disk[g].backing # Absent => m.disk[m.disk[g].backing].image = v
  /\ m.base = b \/ (m.base \in Files /\ d[m.base] = Absent)
  /\ d[m.file] = Absent \/ (m.file = b /\ d[m.file].image # v)
  /\ m.base # Absent /\ (b # Absent => d[b] # Absent) =>
       m.file # m.base /\ m.disk[m.base] # Absent

LEMMA PlainIsMade ==
  ASSUME NEW d \in FileSystem(Nat), NEW b \in FileOrNone, NEW v \in Nat, NamesLeft(d)
  PROVE  Made(d, b, v, PlainCopy(d, b, v))
<1> DEFINE copy == Unused(d)
           e == [d EXCEPT ![copy] = [image |-> v, backing |-> Absent]]
           m == PlainCopy(d, b, v)
<1>1. copy \in Files /\ d[copy] = Absent
  BY UnusedIs DEF NamesLeft
<1>2. m.disk = e /\ m.base = b /\ m.file = copy
  BY DEF PlainCopy
<1>3. /\ e \in FileSystem(Nat)
      /\ \A g \in Files : g # copy => e[g] = d[g]
      /\ e[copy] # Absent /\ e[copy].image = v /\ e[copy].backing = Absent
  <2> HIDE DEF copy
  <2> QED
    BY <1>1, PutIs DEF FileOrNone
<1> SUFFICES Made(d, b, v, m)
  OBVIOUS
<1> HIDE DEF copy, e, m
<1> QED
  BY <1>1, <1>2, <1>3, ServersAreTyped DEF Made, FileOrNone

LEMMA IncrementalIsMade ==
  ASSUME NEW d \in FileSystem(Nat), NEW b \in FileOrNone, NEW v \in Nat, NamesLeft(d)
  PROVE  Made(d, b, v, NewServerFile(d, b, v, TRUE))
<1> DEFINE copied == CopyForIncremental(d, b, v)
           inc == Unused(copied.disk)
           e == [copied.disk EXCEPT ![inc] = [image |-> v, backing |-> copied.file]]
           m == NewServerFile(d, b, v, TRUE)
<1> SUFFICES Made(d, b, v, m)
  OBVIOUS
<1>1. m.disk = e /\ m.base = copied.base /\ m.file = inc
  BY DEF NewServerFile
<1>2. ASSUME copied.disk \in FileSystem(Nat), copied.file \in Files,
             \E f \in Files : copied.disk[f] = Absent
      PROVE  /\ inc \in Files /\ copied.disk[inc] = Absent
             /\ e \in FileSystem(Nat)
             /\ \A g \in Files : g # inc => e[g] = copied.disk[g]
             /\ e[inc] # Absent /\ e[inc].image = v /\ e[inc].backing = copied.file
  <2>1. inc \in Files /\ copied.disk[inc] = Absent
    BY <1>2, UnusedIs
  <2> HIDE DEF inc, copied
  <2> QED
    BY <1>2, <2>1, PutIs DEF FileOrNone
<1>3. CASE LocalCopyValid(d, b, v)
  <2>1. copied.disk = d /\ copied.base = b /\ copied.file = b
    BY <1>3 DEF CopyForIncremental
  <2>2. b \in Files /\ d[b] # Absent /\ d[b].image = v
    BY <1>3 DEF LocalCopyValid, FileOrNone
  <2>3. /\ inc \in Files /\ d[inc] = Absent
        /\ e \in FileSystem(Nat)
        /\ \A g \in Files : g # inc => e[g] = d[g]
        /\ e[inc] # Absent /\ e[inc].image = v /\ e[inc].backing = b
    BY <1>2, <2>1, <2>2 DEF NamesLeft
  <2> HIDE DEF copied, inc, e, m
  <2> QED
    BY <1>1, <2>1, <2>2, <2>3, ServersAreTyped DEF Made, FileOrNone
<1>4. CASE ~LocalCopyValid(d, b, v)
  <2> DEFINE cleared == DeleteFile(d, b)
             copy == Unused(cleared)
             c == [cleared EXCEPT ![copy] = [image |-> v, backing |-> Absent]]
  <2>1. copied.disk = c /\ copied.base = copy /\ copied.file = copy
    BY <1>4 DEF CopyForIncremental
  <2>2. /\ cleared \in FileSystem(Nat)
        /\ \A g \in Files : cleared[g] = IF g = b THEN Absent ELSE d[g]
    BY DeletedIs
  <2>3. NamesLeft(cleared) /\ copy \in Files /\ cleared[copy] = Absent
    BY NamesStayLeft, UnusedIs DEF NamesLeft
  <2>4. /\ c \in FileSystem(Nat)
        /\ \A g \in Files : g # copy => c[g] = cleared[g]
        /\ c[copy] # Absent /\ c[copy].image = v /\ c[copy].backing = Absent
    <3>1. cleared \in FileSystem(Nat) /\ copy \in Files
      BY <2>2, <2>3
    <3> HIDE DEF copy, cleared
    <3> QED
      BY <3>1, PutIs DEF FileOrNone
  <2>5. \E f \in Files : c[f] = Absent
    <3> HIDE DEF copy, cleared, c
    <3> QED
      BY <2>3, <2>4 DEF NamesLeft
  <2>6. /\ inc \in Files /\ c[inc] = Absent
        /\ e \in FileSystem(Nat)
        /\ \A g \in Files : g # inc => e[g] = c[g]
        /\ e[inc] # Absent /\ e[inc].image = v /\ e[inc].backing = copy
    <3> HIDE DEF copy, cleared, c
    <3> QED
      BY <1>2, <2>1, <2>3, <2>4, <2>5
  <2>7. b \in Files => d[b] = Absent \/ d[b].image # v
    BY <1>4, ServersAreTyped DEF LocalCopyValid
  <2> HIDE DEF copied, inc, e, m, copy, cleared, c
  <2> QED
    BY <1>1, <2>1, <2>2, <2>3, <2>4, <2>6, <2>7, ServersAreTyped DEF Made, FileOrNone
<1> QED
  BY <1>3, <1>4

LEMMA ServerFileIsMade ==
  ASSUME NEW d \in FileSystem(Nat), NEW b \in FileOrNone, NEW v \in Nat, NEW inc \in BOOLEAN,
         NamesLeft(d)
  PROVE  Made(d, b, v, NewServerFile(d, b, v, inc))
<1>1. CASE inc
  BY <1>1, IncrementalIsMade
<1>2. CASE ~inc
  BY <1>2, PlainIsMade DEF NewServerFile
<1> QED
  BY <1>1, <1>2

-----------------------------------------------------------------------------
(* Steps that leave the files alone *)

FileStep ==
  \/ ActTerminate \/ ForceOff \/ PrepareFiles \/ PrepareFilesFails \/ CreateDomain
  \/ SaveLocalinfo \/ EndThread \/ Load \/ Restart \/ ReplaceImage

FilesKept == UNCHANGED <<diskOf, disk, repo, base, record, savedBase, savedFile, dirty, atRisk>>

LEMMA FilesStay ==
  ASSUME [Next]_vars, ~FileStep
  PROVE  FilesKept
<1>1. CASE \/ \E h \in HttpThreads, s \in Servers, start \in {"yes", "no"} : PostServer(h, s, start)
           \/ \E h \in HttpThreads, ask \in Asked : AskAction(h, ask[1], ask[2])
           \/ \E task \in {Reload, Exit} : AskThread(task)
           \/ \E h \in HttpThreads : HttpStep(h)
  BY <1>1 DEF PostServer, AskAction, AskThread, HttpStep, NewInstance, InsertTask, DeleteInstance,
              nodeVars, threadVars, memVars, histVars, FilesKept
<1>2. CASE TakeTask \/ ActFails \/ ActStart \/ ActStartRebuild \/ ActRebuild \/ ActOther \/ ActCreateImage
  BY <1>2 DEF TakeTask, ActFails, ActStart, ActStartRebuild, ActRebuild, ActOther, ActCreateImage,
              nodeVars, memVars, histVars, FilesKept
<1>3. CASE \/ GetInstance \/ Waited \/ WriteStatus \/ Panic \/ EndForceOff \/ ForceOffFails \/ Poll
           \/ (\E s \in Servers : PollWrite(s))
  BY <1>3 DEF GetInstance, Waited, WriteStatus, Panic, EndForceOff, ForceOffFails, Poll, PollWrite,
              nodeVars, memVars, histVars, FilesKept
<1>4. CASE \/ \E s \in Servers, state \in GuestEvents \cup {"none"} : ShutsDown(s, state)
           \/ \E s \in Servers, state \in GuestEvents : GuestEvent(s, state)
  BY <1>4 DEF ShutsDown, GuestEvent, threadVars, memVars, histVars, FilesKept
<1>5. CASE UNCHANGED vars
  BY <1>5 DEF vars, nodeVars, threadVars, memVars, histVars, FilesKept
<1> QED
  BY <1>1, <1>2, <1>3, <1>4, <1>5 DEF Next, ThreadStep, FileStep

\* Machines come up by createXML only.
LEMMA OnlyCreatedLives ==
  ASSUME TypeInv, [Next]_vars, ~CreateDomain, NEW s \in Servers, IsLive(s)'
  PROVE  IsLive(s)
<1> USE DEF TypeInv, TablesTyped
<1>1. CASE UNCHANGED machine
  BY <1>1 DEF IsLive
<1>2. CASE \E id, state : state \notin Live /\ machine' = [machine EXCEPT ![id] = state]
  BY <1>2 DEF IsLive
<1>3. CASE \E id, state : machine[id] \in Live /\ machine' = [machine EXCEPT ![id] = state]
  BY <1>3 DEF IsLive
<1>4. CASE ActStart
  <2>1. machine[req.id] \in MachineStates
    BY <1>4, Ops DEF ActStart, TaskFits
  <2> QED
    BY <1>1, <1>3, <1>4, <2>1 DEF ActStart, MachineStates, Live
<1>5. CASE ActOther
  <2>1. CASE machine' = [machine EXCEPT ![req.id] = machine[req.id]]
    BY <1>1, <2>1
  <2> QED
    BY <1>1, <1>2, <1>3, <1>5, <2>1 DEF ActOther, Live
<1>6. CASE ActRebuild \/ ActTerminate \/ ForceOff
  BY <1>1, <1>2, <1>6 DEF ActRebuild, ActTerminate, ForceOff, Live
<1>7. CASE \/ \E t \in Servers, state \in GuestEvents \cup {"none"} : ShutsDown(t, state)
           \/ \E t \in Servers, state \in GuestEvents : GuestEvent(t, state)
  <2>1. PICK t \in Servers, state \in GuestEvents \cup {"none"} : ShutsDown(t, state) \/ GuestEvent(t, state)
    BY <1>7
  <2>2. machine[t] \in Live /\ machine' = [machine EXCEPT ![t] = state]
    BY <2>1 DEF ShutsDown, GuestEvent, Live
  <2> QED
    BY <1>3, <2>2
<1>8. CASE \/ \E h \in HttpThreads, t \in Servers, start \in {"yes", "no"} : PostServer(h, t, start)
           \/ \E h \in HttpThreads, ask \in Asked : AskAction(h, ask[1], ask[2])
           \/ \E task \in {Reload, Exit} : AskThread(task)
           \/ \E h \in HttpThreads : HttpStep(h)
           \/ Restart \/ ReplaceImage
  BY <1>1, <1>8 DEF PostServer, AskAction, AskThread, HttpStep, NewInstance, InsertTask, DeleteInstance, Restart,
                    ReplaceImage, nodeVars
<1>9. CASE \/ TakeTask \/ ActFails \/ ActStartRebuild \/ ActCreateImage
           \/ GetInstance \/ PrepareFiles \/ PrepareFilesFails \/ Waited \/ WriteStatus \/ Panic
           \/ EndForceOff \/ ForceOffFails
           \/ SaveLocalinfo \/ Poll \/ (\E t \in Servers : PollWrite(t)) \/ EndThread \/ Load
  BY <1>1, <1>9 DEF TakeTask, ActFails, ActStartRebuild, ActCreateImage, GetInstance, PrepareFiles,
                    PrepareFilesFails, Waited, WriteStatus, Panic, EndForceOff, ForceOffFails,
                    SaveLocalinfo, Poll, PollWrite, EndThread, Load, nodeVars
<1> QED
  BY <1>1, <1>4, <1>5, <1>6, <1>7, <1>8, <1>9 DEF Next, ThreadStep, vars, nodeVars

\* A thread that has to load everything does nothing else before.
LEMMA LoadingStays ==
  ASSUME TypeInv, [Next]_vars, pc = "load", ~Load
  PROVE  pc' = "load"
<1>1. CASE Restart
  BY <1>1 DEF Restart
<1>2. CASE \/ \E h \in HttpThreads, s \in Servers, start \in {"yes", "no"} : PostServer(h, s, start)
           \/ \E h \in HttpThreads, ask \in Asked : AskAction(h, ask[1], ask[2])
           \/ \E task \in {Reload, Exit} : AskThread(task)
           \/ \E h \in HttpThreads : HttpStep(h)
           \/ \E s \in Servers, state \in GuestEvents \cup {"none"} : ShutsDown(s, state)
           \/ \E s \in Servers, state \in GuestEvents : GuestEvent(s, state)
           \/ ReplaceImage
  BY <1>2 DEF PostServer, AskAction, AskThread, HttpStep, NewInstance, InsertTask, DeleteInstance, ShutsDown,
              GuestEvent, ReplaceImage, threadVars
<1>3. ~ThreadStep
  <2>1. ~(TakeTask \/ ActFails \/ ActStart \/ ActStartRebuild \/ ActRebuild \/ ActTerminate
          \/ ActOther \/ ActCreateImage \/ GetInstance \/ PrepareFiles \/ PrepareFilesFails)
    BY DEF TakeTask, ActFails, ActStart, ActStartRebuild, ActRebuild, ActTerminate, ActOther,
           ActCreateImage, GetInstance, PrepareFiles, PrepareFilesFails
  <2>2. ~(Waited \/ CreateDomain \/ WriteStatus \/ Panic \/ ForceOff \/ EndForceOff \/ ForceOffFails
          \/ SaveLocalinfo \/ Poll \/ (\E s \in Servers : PollWrite(s)) \/ EndThread)
    BY DEF Waited, CreateDomain, WriteStatus, Panic, ForceOff, EndForceOff, ForceOffFails, MayForceOff,
           SaveLocalinfo, Poll, PollWrite, EndThread
  <2> QED
    BY <2>1, <2>2 DEF ThreadStep
<1> QED
  BY <1>1, <1>2, <1>3 DEF Next, vars, threadVars

-----------------------------------------------------------------------------
(* Types *)

LEMMA InitAllTyped == Init => ThreadTyped /\ FilesTyped
<1> SUFFICES ASSUME Init PROVE ThreadTyped /\ FilesTyped
  OBVIOUS
<1>1. disk \in FileSystem(Nat)
  BY ServersAreTyped DEF Init, FileSystem
<1>2. FilesTyped
  BY <1>1, ServersAreTyped DEF Init, FilesTyped, FileOrNone, NoFiles
<1>3. ThreadTyped
  BY DEF Init, ThreadTyped, NothingKnown
<1> QED
  BY <1>2, <1>3

\* The end of a task, or of a try.
LEMMA ConcludeIsTyped ==
  ASSUME ThreadTyped, NEW status \in {"ACTIVE", "ERROR"}, Conclude(status) \/ TaskDone
  PROVE  /\ pc' \in {"idle", "act", "panic", "write"}
         /\ try' \in {1, 2}
         /\ new' \in Status \cup {Undecided}
BY DEF Conclude, TaskDone, taskVars, ThreadTyped, Status, Reports

LEMMA RequestThread ==
  ASSUME TypeInv, ThreadTyped,
         \/ \E h \in HttpThreads, s \in Servers, start \in {"yes", "no"} : PostServer(h, s, start)
         \/ \E h \in HttpThreads, ask \in Asked : AskAction(h, ask[1], ask[2])
         \/ \E task \in {Reload, Exit} : AskThread(task)
         \/ \E h \in HttpThreads : HttpStep(h)
  PROVE  ThreadTyped'
<1>1. UNCHANGED <<leaving, pc, try, new, known, dirty, lockLost>>
  BY DEF PostServer, AskAction, AskThread, HttpStep, NewInstance, InsertTask, DeleteInstance,
         nodeVars, threadVars, taskVars, memVars
<1>2. \/ UNCHANGED image
      \/ \E s \in Servers : image' = [image EXCEPT ![s] = "BUILD"]
  BY ServersAreTyped DEF PostServer, AskAction, AskThread, HttpStep, NewInstance, InsertTask, DeleteInstance, dbVars
<1> QED
  BY <1>1, <1>2 DEF ThreadTyped

LEMMA ActThread ==
  ASSUME TypeInv, ThreadTyped,
         \/ ActFails \/ ActStart \/ ActStartRebuild \/ ActRebuild \/ ActTerminate
         \/ ActOther \/ ActCreateImage
  PROVE  ThreadTyped'
<1>1. pc = "act" /\ req.id \in Servers
  BY Ops DEF TypeInv, TaskFits, ActFails, ActStart, ActStartRebuild, ActRebuild, ActTerminate,
             ActOther, ActCreateImage
<1>2. /\ pc' \in {"idle", "act", "panic", "write", "read"}
      /\ try' \in {1, 2}
      /\ new' \in Status \cup {Undecided}
  <2>1. CASE (\E status \in {"ACTIVE", "ERROR"} : Conclude(status)) \/ TaskDone
    BY <2>1, ConcludeIsTyped
  <2>2. CASE pc' = "read" /\ UNCHANGED taskVars
    BY <2>2 DEF taskVars, ThreadTyped
  <2>3. CASE ActStart
    <3>1. machine[req.id] \in MachineStates
      BY <1>1 DEF TypeInv, TablesTyped
    <3> QED
      BY <2>1, <2>2, <2>3, <3>1 DEF ActStart, MachineStates, Live
  <2> QED
    BY <2>1, <2>2, <2>3 DEF ActFails, ActStartRebuild, ActRebuild, ActTerminate, ActOther, ActCreateImage
<1>3. leaving' \in SUBSET Servers
  <2>1. leaving' \in {leaving, leaving \ {req.id}, leaving \cup {req.id}}
    BY DEF ActFails, ActStart, ActStartRebuild, ActRebuild, ActTerminate, ActOther, ActCreateImage, nodeVars
  <2> QED
    BY <1>1, <2>1 DEF ThreadTyped
<1>4. image' \in [Servers -> {"none", "BUILD", "ACTIVE", "ERROR"}]
  BY <1>1 DEF ActFails, ActStart, ActStartRebuild, ActRebuild, ActTerminate, ActOther, ActCreateImage,
         MakeImage, dbVars, ThreadTyped
<1>5. known' \in [Servers -> Status \cup {NoStatus}]
  BY <1>1 DEF ActFails, ActStart, ActStartRebuild, ActRebuild, ActTerminate, ActOther, ActCreateImage,
         memVars, Forget, ThreadTyped
<1>6. dirty' \in BOOLEAN
  BY <1>1 DEF ActFails, ActStart, ActStartRebuild, ActRebuild, ActTerminate, ActOther, ActCreateImage,
         memVars, Forget, ThreadTyped
<1>7. lockLost' \in BOOLEAN
  BY <1>1 DEF ActFails, ActStart, ActStartRebuild, ActRebuild, ActTerminate, ActOther, ActCreateImage,
         ThreadTyped
<1> QED
  BY <1>2, <1>3, <1>4, <1>5, <1>6, <1>7 DEF ThreadTyped

LEMMA LaunchThread ==
  ASSUME TypeInv, ThreadTyped,
         GetInstance \/ PrepareFiles \/ PrepareFilesFails \/ Waited \/ CreateDomain
  PROVE  ThreadTyped'
<1>1. UNCHANGED <<image, known, lockLost>>
  BY DEF GetInstance, PrepareFiles, PrepareFilesFails, Waited, CreateDomain, dbVars, memVars
<1>2. dirty' \in BOOLEAN
  BY DEF GetInstance, PrepareFiles, PrepareFilesFails, Waited, CreateDomain, memVars, ThreadTyped
<1>3. leaving' \in SUBSET Servers
  BY DEF GetInstance, PrepareFiles, PrepareFilesFails, Waited, CreateDomain, nodeVars, ThreadTyped
<1>4. /\ pc' \in {"idle", "act", "panic", "write", "files", "wait", "create"}
      /\ try' \in {1, 2}
      /\ new' \in Status \cup {Undecided}
  <2>1. CASE \E status \in {"ACTIVE", "ERROR"} : Conclude(status)
    BY <2>1, ConcludeIsTyped
  <2>2. CASE pc' \in {"files", "wait", "create"} /\ UNCHANGED taskVars
    BY <2>2 DEF taskVars, ThreadTyped
  <2> QED
    BY <2>1, <2>2 DEF GetInstance, PrepareFiles, PrepareFilesFails, Waited, CreateDomain
<1> QED
  BY <1>1, <1>2, <1>3, <1>4 DEF ThreadTyped

LEMMA RestThread ==
  ASSUME TypeInv, ThreadTyped,
         \/ TakeTask \/ WriteStatus \/ Panic \/ ForceOff \/ EndForceOff \/ ForceOffFails
         \/ SaveLocalinfo \/ Poll \/ (\E s \in Servers : PollWrite(s))
         \/ EndThread \/ Load
  PROVE  ThreadTyped'
<1>1. UNCHANGED image
  BY DEF TakeTask, WriteStatus, Panic, ForceOff, EndForceOff, ForceOffFails, SaveLocalinfo, Poll,
         PollWrite, EndThread, Load, dbVars
<1>2. leaving' \in SUBSET Servers
  <2>1. leaving' \in SUBSET leaving
    BY DEF TakeTask, WriteStatus, Panic, ForceOff, EndForceOff, ForceOffFails, SaveLocalinfo, Poll,
           PollWrite, EndThread, Load, nodeVars
  <2> QED
    BY <2>1 DEF ThreadTyped
<1>3. dirty' \in BOOLEAN /\ lockLost' \in BOOLEAN
  <2>1. CASE \/ TakeTask \/ WriteStatus \/ Panic \/ ForceOff \/ EndForceOff \/ ForceOffFails
    BY <2>1 DEF TakeTask, WriteStatus, Panic, ForceOff, EndForceOff, ForceOffFails, memVars,
                Forget, ThreadTyped
  <2>2. CASE \/ SaveLocalinfo \/ Poll \/ (\E s \in Servers : PollWrite(s)) \/ EndThread \/ Load
    BY <2>2 DEF SaveLocalinfo, Saved, Poll, PollWrite, EndThread, Load, LoadFiles, ThreadTyped
  <2> QED
    BY <2>1, <2>2
<1>4. known' \in [Servers -> Status \cup {NoStatus}]
  <2>1. CASE TakeTask \/ EndForceOff \/ ForceOffFails \/ SaveLocalinfo \/ Poll \/ EndThread
    BY <2>1 DEF TakeTask, EndForceOff, ForceOffFails, SaveLocalinfo, Poll, EndThread, memVars, ThreadTyped
  <2>2. CASE ForceOff \/ Panic
    BY <2>2 DEF ForceOff, Panic, Forget, ThreadTyped
  <2>3. CASE WriteStatus
    BY <2>3 DEF WriteStatus, TypeInv, TaskFits, Status, Reports, ThreadTyped
  <2>4. CASE \E s \in Servers : PollWrite(s)
    BY <2>4 DEF PollWrite, TypeInv, TablesTyped, Status, ThreadTyped
  <2>5. CASE Load
    <3>1. Rows \in [Servers -> Status \cup {NoStatus}] /\ NothingKnown \in [Servers -> Status \cup {NoStatus}]
      BY DEF Rows, NothingKnown, TypeInv, TablesTyped
    <3> QED
      BY <2>5, <3>1 DEF Load
  <2> QED
    BY <2>1, <2>2, <2>3, <2>4, <2>5
<1>5. /\ pc' \in {"load", "idle", "act", "wait", "force", "poll", "stopped", "panic", "write"}
      /\ try' \in {1, 2}
      /\ new' \in Status \cup {Undecided}
  <2>1. CASE TakeTask
    BY <2>1 DEF TakeTask
  <2>2. CASE WriteStatus \/ Panic
    BY <2>2 DEF WriteStatus, Panic, TaskDone
  <2>3. CASE ForceOff \/ EndForceOff
    BY <2>3 DEF ForceOff, EndForceOff, taskVars, ThreadTyped
  <2>4. CASE ForceOffFails
    <3>1. \/ Conclude("ERROR")
          \/ pc' \in {"idle", "load", "stopped"} /\ UNCHANGED taskVars
      BY <2>4, Ops DEF ForceOffFails, MayForceOff, TypeInv, TaskFits
    <3> QED
      BY <3>1, ConcludeIsTyped DEF taskVars, ThreadTyped
  <2>5. CASE SaveLocalinfo \/ Poll \/ (\E s \in Servers : PollWrite(s))
    BY <2>5 DEF SaveLocalinfo, Poll, PollWrite, taskVars, ThreadTyped
  <2>6. CASE EndThread \/ Load
    BY <2>6 DEF EndThread, Load, ThreadTyped
  <2> QED
    BY <2>1, <2>2, <2>3, <2>4, <2>5, <2>6
<1> QED
  BY <1>1, <1>2, <1>3, <1>4, <1>5 DEF ThreadTyped

LEMMA EnvironmentThread ==
  ASSUME TypeInv, ThreadTyped,
         \/ Restart
         \/ \E s \in Servers, state \in GuestEvents \cup {"none"} : ShutsDown(s, state)
         \/ \E s \in Servers, state \in GuestEvents : GuestEvent(s, state)
         \/ ReplaceImage
         \/ UNCHANGED vars
  PROVE  ThreadTyped'
<1>1. CASE Restart
  BY <1>1 DEF Restart, dbVars, nodeVars, ThreadTyped
<1>2. CASE \/ \E s \in Servers, state \in GuestEvents \cup {"none"} : ShutsDown(s, state)
           \/ \E s \in Servers, state \in GuestEvents : GuestEvent(s, state)
           \/ ReplaceImage \/ UNCHANGED vars
  <2>1. UNCHANGED <<image, pc, try, new, known, dirty, lockLost>> /\ leaving' \in SUBSET leaving
    BY <1>2 DEF ShutsDown, GuestEvent, ReplaceImage, vars, dbVars, nodeVars, threadVars, taskVars, memVars
  <2> QED
    BY <2>1 DEF ThreadTyped
<1> QED
  BY <1>1, <1>2

LEMMA ThreadTypedStep ==
  ASSUME TypeInv, ThreadTyped, [Next]_vars
  PROVE  ThreadTyped'
BY RequestThread, ActThread, LaunchThread, RestThread, EnvironmentThread DEF Next, ThreadStep

LEMMA ForgetIsTyped ==
  ASSUME FilesTyped, NEW s \in Servers, Forget(s)
  PROVE  /\ disk' \in FileSystem(Nat)
         /\ record' \in [Servers -> FileOrNone]
<1>1. record[s] \in FileOrNone /\ disk \in FileSystem(Nat)
  BY DEF FilesTyped
<1>2. disk' \in FileSystem(Nat)
  BY <1>1, DeletedIs DEF Forget
<1> QED
  BY <1>2 DEF Forget, FilesTyped, FileOrNone

LEMMA ClearedIsTyped ==
  ASSUME TypeInv, FilesTyped, pc = "files"
  PROVE  ClearedDisk \in FileSystem(Nat) /\ req.id \in Servers
<1>1. req.id \in Servers
  BY Ops DEF TypeInv, TaskFits
<1>2. record[req.id] \in FileOrNone
  BY <1>1 DEF FilesTyped
<1> QED
  BY <1>1, <1>2, DeletedIs DEF ClearedDisk, FilesTyped

\* What is made for the server of the launch in progress.
MadeForIt == NewServerFile(ClearedDisk, base, repo, Incremental[req.id])

LEMMA ItIsMade ==
  ASSUME TypeInv, FilesTyped, pc = "files", NamesLeft(ClearedDisk)
  PROVE  Made(ClearedDisk, base, repo, MadeForIt)
<1>1. Incremental[req.id] \in BOOLEAN
  BY ClearedIsTyped, ServersAreTyped
<1> QED
  BY <1>1, ClearedIsTyped, ServerFileIsMade DEF FilesTyped, MadeForIt

\* The two outcomes of the preparation.
LEMMA PreparedIs ==
  ASSUME TypeInv, FilesTyped, PrepareFiles
  PROVE  \/ UNCHANGED <<disk, base, record>>
         \/ /\ Made(ClearedDisk, base, repo, MadeForIt)
            /\ record[req.id] = Absent \/ Rebuilding
            /\ disk' = MadeForIt.disk
            /\ base' = MadeForIt.base
            /\ record' = [record EXCEPT ![req.id] = MadeForIt.file]
BY ItIsMade DEF PrepareFiles, MadeForIt

LEMMA NotPreparedIs ==
  ASSUME TypeInv, FilesTyped, PrepareFilesFails
  PROVE  \/ disk' = ClearedDisk /\ UNCHANGED base
         \/ /\ Made(ClearedDisk, base, repo, MadeForIt)
            /\ disk' = MadeForIt.disk
            /\ base' = MadeForIt.base
BY ItIsMade DEF PrepareFilesFails, MadeForIt

LEMMA LoadIs ==
  ASSUME Load
  PROVE  \E files \in {savedFile, NoFiles}, copy \in {savedBase, Absent}, status \in {Rows, NothingKnown},
            kept \in SUBSET Files :
           LoadFiles(files, copy, status, kept)
<1>1. CASE LoadFiles(savedFile, savedBase, Rows, {}) \/ LoadFiles(savedFile, savedBase, NothingKnown, {})
  BY <1>1
<1>2. CASE LoadFiles(NoFiles, Absent, Rows, {})
  BY <1>2
<1>3. CASE \E f \in Files : LoadFiles(savedFile, savedBase, Rows, {f})
  <2>1. PICK f \in Files : LoadFiles(savedFile, savedBase, Rows, {f})
    BY <1>3
  <2> QED
    BY <2>1
<1> QED
  BY <1>1, <1>2, <1>3 DEF Load

LEMMA FilesTypedStep ==
  ASSUME TypeInv, FilesTyped, [Next]_vars
  PROVE  FilesTyped'
<1>1. CASE ActTerminate
  <2>1. req.id \in Servers
    BY <1>1, Ops DEF ActTerminate, TypeInv, TaskFits
  <2>2. UNCHANGED <<diskOf, repo, base, savedBase, savedFile>>
    BY <1>1 DEF ActTerminate
  <2>3. UNCHANGED <<disk, record>> \/ Forget(req.id)
    BY <1>1 DEF ActTerminate
  <2> QED
    BY <2>1, <2>2, <2>3, ForgetIsTyped DEF FilesTyped
<1>2. CASE ForceOff
  <2>1. Head(pending) \in Servers
    BY <1>2 DEF ForceOff, MayForceOff, TypeInv, TablesTyped
  <2>2. UNCHANGED <<diskOf, repo, base, savedBase, savedFile>> /\ Forget(Head(pending))
    BY <1>2 DEF ForceOff
  <2> QED
    BY <2>1, <2>2, ForgetIsTyped DEF FilesTyped
<1>3. CASE PrepareFiles
  <2>1. UNCHANGED <<diskOf, repo, savedBase, savedFile>> /\ pc = "files"
    BY <1>3 DEF PrepareFiles
  <2> QED
    BY <1>3, <2>1, PreparedIs, ClearedIsTyped DEF FilesTyped, Made, FileOrNone
<1>4. CASE PrepareFilesFails
  <2>1. UNCHANGED <<diskOf, repo, record, savedBase, savedFile>> /\ pc = "files"
    BY <1>4 DEF PrepareFilesFails
  <2> QED
    BY <1>4, <2>1, NotPreparedIs, ClearedIsTyped DEF FilesTyped, Made
<1>5. CASE CreateDomain
  <2>1. req.id \in Servers
    BY <1>5, Ops DEF CreateDomain, TypeInv, TaskFits
  <2> QED
    BY <1>5, <2>1 DEF CreateDomain, memVars, FilesTyped
<1>6. CASE SaveLocalinfo \/ EndThread
  <2>1. UNCHANGED <<diskOf, disk, repo, base, record>>
    BY <1>6 DEF SaveLocalinfo, EndThread
  <2>2. /\ savedBase' \in {savedBase, base, Absent}
        /\ savedFile' \in {savedFile, record, NoFiles}
    BY <1>6 DEF SaveLocalinfo, EndThread, Saved
  <2>3. NoFiles \in [Servers -> FileOrNone] /\ Absent \in FileOrNone
    BY DEF NoFiles, FileOrNone
  <2> QED
    BY <2>1, <2>2, <2>3 DEF FilesTyped
<1>7. CASE Load
  <2>1. PICK files \in {savedFile, NoFiles}, copy \in {savedBase, Absent}, status \in {Rows, NothingKnown},
             kept \in SUBSET Files :
          LoadFiles(files, copy, status, kept)
    BY <1>7, LoadIs
  <2>2. files \in [Servers -> FileOrNone] /\ copy \in FileOrNone
    BY <2>1 DEF FilesTyped, NoFiles, FileOrNone
  <2>3. disk' \in FileSystem(Nat)
    BY <2>1 DEF LoadFiles, FilesTyped, FileSystem
  <2>4. record' \in [Servers -> FileOrNone] /\ base' \in FileOrNone
    BY <2>1, <2>2 DEF LoadFiles, FileOrNone
  <2>5. UNCHANGED <<diskOf, repo, savedBase, savedFile>>
    BY <1>7 DEF Load
  <2> QED
    BY <2>3, <2>4, <2>5 DEF FilesTyped
<1>8. CASE Restart \/ ReplaceImage
  BY <1>8 DEF Restart, ReplaceImage, nodeVars, threadVars, memVars, FilesTyped
<1>9. CASE ~FileStep
  BY <1>9, FilesStay DEF FilesKept, FilesTyped
<1> QED
  BY <1>1, <1>2, <1>3, <1>4, <1>5, <1>6, <1>7, <1>8, <1>9 DEF FileStep

\* A server loses cores that it has.
LostTyped == \A s \in Servers : lost[s] \subseteq Uses[s]

LEMMA LostTypedStep ==
  ASSUME LostTyped, [Next]_vars
  PROVE  LostTyped'
<1>1. CASE UNCHANGED lost
  BY <1>1 DEF LostTyped
<1>2. CASE \E h \in HttpThreads : NewInstance(h)
  BY <1>2 DEF NewInstance, LostTyped
<1>3. CASE \/ \E h \in HttpThreads, s \in Servers, start \in {"yes", "no"} : PostServer(h, s, start)
           \/ \E h \in HttpThreads, ask \in Asked : AskAction(h, ask[1], ask[2])
           \/ \E task \in {Reload, Exit} : AskThread(task)
           \/ \E h \in HttpThreads : InsertTask(h) \/ DeleteInstance(h)
           \/ \E s \in Servers, state \in GuestEvents \cup {"none"} : ShutsDown(s, state)
           \/ \E s \in Servers, state \in GuestEvents : GuestEvent(s, state)
           \/ ReplaceImage \/ Restart
  BY <1>1, <1>3 DEF PostServer, AskAction, AskThread, InsertTask, DeleteInstance, ShutsDown, GuestEvent,
                    ReplaceImage, Restart, dbVars
<1>4. CASE ThreadStep
  BY <1>1, <1>4
     DEF ThreadStep, TakeTask, ActFails, ActStart, ActStartRebuild, ActRebuild, ActTerminate, ActOther,
         ActCreateImage, GetInstance, PrepareFiles, PrepareFilesFails, Waited, CreateDomain, WriteStatus,
         Panic, ForceOff, EndForceOff, ForceOffFails, SaveLocalinfo, Poll, PollWrite, EndThread, Load, dbVars
<1> QED
  BY <1>1, <1>2, <1>3, <1>4 DEF Next, HttpStep, vars, dbVars

\* Every variable has its type, whatever fails.
THEOREM HostTypesAreRight == Spec => []TypeOK
<1> DEFINE T == TypeInv /\ ThreadTyped /\ FilesTyped /\ LostTyped
<1>1. Init => T
  BY InitType, InitAllTyped DEF Init, LostTyped
<1>2. T /\ [Next]_vars => T'
  BY TypeInvStep, ThreadTypedStep, FilesTypedStep, LostTypedStep
<1>3. T => TypeOK
  BY DEF TypeInv, TablesTyped, ThreadTyped, FilesTyped, LostTyped, TypeOK, FileSystem
<1> QED
  BY <1>1, <1>2, <1>3, PTL DEF Spec

-----------------------------------------------------------------------------
(* The disks of live machines *)

\* No file is newer than the image, nor than the file that backs it: a file is
\* replaced by a copy of the image as it is then.
FilesAreOfTheirTime ==
  \A f \in Files :
    disk[f] # Absent =>
      /\ disk[f].image <= repo
      /\ (disk[f].backing # Absent /\ disk[disk[f].backing] # Absent) =>
           disk[f].image <= disk[disk[f].backing].image

\* What backs f is needed: f is of the image that is in the repository.
NeedsBacking(f) == disk[f].image = repo /\ disk[f].backing # Absent

DiskIsThere(f) ==
  /\ f \in Files
  /\ disk[f] # Absent
  /\ NeedsBacking(f) => disk[disk[f].backing] # Absent

\* localinfo has it, and what backs it, for nobody else.
DiskIsOwn(s, f) ==
  /\ f # base
  /\ \A t \in Servers : t # s => record[t] # f
  /\ NeedsBacking(f) => \A t \in Servers : record[t] # disk[f].backing

\* The machines that DisksOfMachinesExist is about.
Minded(s) == IsLive(s) /\ row[s] # NoRow /\ s \notin atRisk

DisksStay ==
  \A s \in Servers :
    Minded(s) => DiskIsThere(diskOf[s]) /\ (pc # "load" => DiskIsOwn(s, diskOf[s]))

DiskInv == FilesAreOfTheirTime /\ DisksStay

LEMMA InitDisks == Init => DiskInv
<1> SUFFICES ASSUME Init PROVE DiskInv
  OBVIOUS
<1>1. /\ repo = 0 /\ pc = "load"
      /\ \A s \in Servers : IsLive(s) => diskOf[s] # Absent
  BY DEF Init, IsLive, Live
<1>2. \A f \in Files : disk[f] # Absent => disk[f].image = 0
  BY DEF Init
<1>3. \A f \in Files : (f = InitBase \/ \E s \in Servers : f = diskOf[s]) => disk[f] # Absent
  <2> DEFINE Contents == [image : Nat, backing : Files \cup {Absent}]
  <2>1. [image |-> 0, backing |-> Absent] \in Contents /\ [image |-> 0, backing |-> InitBase] \in Contents
    BY ServersAreTyped
  <2> QED
    BY <2>1, ServersAreTyped DEF Init
<1>4. \A f \in Files : disk[f] # Absent => disk[f].backing \in {Absent, InitBase}
  BY DEF Init
<1>5. FilesAreOfTheirTime
  <2> SUFFICES ASSUME NEW f \in Files, disk[f] # Absent
               PROVE  /\ disk[f].image <= repo
                      /\ (disk[f].backing # Absent /\ disk[disk[f].backing] # Absent) =>
                           disk[f].image <= disk[disk[f].backing].image
    BY DEF FilesAreOfTheirTime
  <2>1. disk[f].backing # Absent => disk[f].backing \in Files
    BY <1>4, ServersAreTyped
  <2> QED
    BY <1>1, <1>2, <2>1
<1>6. ASSUME NEW s \in Servers, IsLive(s)
      PROVE  DiskIsThere(diskOf[s])
  <2>1. PICK f : f = diskOf[s]
    OBVIOUS
  <2>2. f \in Files
    BY <1>1, <1>6, <2>1, ServersAreTyped DEF Init
  <2>3. disk[f] # Absent /\ disk[f].backing \in {Absent, InitBase}
    BY <1>3, <1>4, <2>1, <2>2
  <2>4. disk[f].backing # Absent => disk[disk[f].backing] # Absent
    BY <1>3, <2>3, ServersAreTyped
  <2> QED
    BY <2>1, <2>2, <2>3, <2>4 DEF DiskIsThere, NeedsBacking
<1> QED
  BY <1>1, <1>5, <1>6 DEF DiskInv, DisksStay, Minded

LEMMA BackingIs ==
  ASSUME FilesTyped, NEW f \in Files, disk[f] # Absent
  PROVE  disk[f].image \in Nat /\ disk[f].backing \in FileOrNone
BY FileIs DEF FilesTyped

\* Nothing but files that are needed for s is deleted, or changes its owner.
LEMMA DiskStays ==
  ASSUME UNCHANGED repo, NEW f, DiskIsThere(f),
         disk'[f] = disk[f],
         NeedsBacking(f) => disk'[disk[f].backing] # Absent
  PROVE  DiskIsThere(f)'
BY DEF DiskIsThere, NeedsBacking

LEMMA DiskStaysOwn ==
  ASSUME FilesTyped, UNCHANGED repo,
         NEW s \in Servers, NEW f, DiskIsThere(f), DiskIsOwn(s, f),
         disk'[f] = disk[f],
         base' = base \/ base' # f,
         \A t \in Servers : \/ record'[t] \in {record[t], Absent}
                            \/ record'[t] # f /\ (NeedsBacking(f) => record'[t] # disk[f].backing)
  PROVE  DiskIsOwn(s, f)'
BY ServersAreTyped DEF DiskIsThere, DiskIsOwn, NeedsBacking

\* A server that the property is about was one before, or is launched.
LEMMA MindedBefore ==
  ASSUME TypeInv, PlacesAreNew, BornFirst, [Next]_vars, atRisk \subseteq atRisk',
         NEW s \in Servers, Minded(s)'
  PROVE  Minded(s) \/ CreateDomain
<1> SUFFICES ASSUME ~CreateDomain PROVE Minded(s)
  OBVIOUS
<1>1. IsLive(s)
  BY OnlyCreatedLives DEF Minded
<1>2. row[s] # NoRow
  <2> SUFFICES ASSUME row[s] = NoRow PROVE FALSE
    OBVIOUS
  <2>1. [Life!LifeNext]_(Life!lifeVars) /\ row'[s] # NoRow
    BY LifeStep DEF Minded
  <2>2. s \notin born
    BY <2>1 DEF Life!LifeNext, Life!lifeVars, Life!Order, Life!Report, Life!Remove, Life!Look,
                Life!GiveUp, Life!Launch, Life!Change, TypeInv, TablesTyped
  <2> QED
    BY <1>1, <2>2 DEF BornFirst, IsLive, Live
<1> QED
  BY <1>1, <1>2 DEF Minded

\* A file of localinfo is deleted that is not of s.
LEMMA DeletedOther ==
  ASSUME FilesTyped, NEW s \in Servers, NEW f, DiskIsThere(f), DiskIsOwn(s, f),
         NEW t \in Servers, t # s
  PROVE  LET d == DeleteFile(disk, record[t])
         IN  /\ d \in FileSystem(Nat)
             /\ d[f] = disk[f]
             /\ NeedsBacking(f) => d[disk[f].backing] = disk[disk[f].backing]
<1>1. record[t] \in FileOrNone /\ disk \in FileSystem(Nat)
  BY DEF FilesTyped
<1>2. f \in Files /\ disk[f] # Absent /\ record[t] # f
  BY DEF DiskIsThere, DiskIsOwn
<1>3. NeedsBacking(f) => disk[f].backing \in Files /\ disk[f].backing # record[t]
  BY <1>2, BackingIs DEF DiskIsOwn, NeedsBacking, FileOrNone
<1> QED
  BY <1>1, <1>2, <1>3, DeletedIs

\* One is made.
LEMMA MadeBeside ==
  ASSUME FilesTyped, FilesAreOfTheirTime,
         NEW s \in Servers, NEW f, DiskIsThere(f), DiskIsOwn(s, f),
         NEW d \in FileSystem(Nat),
         d[f] = disk[f],
         NeedsBacking(f) => d[disk[f].backing] = disk[disk[f].backing],
         NEW m, Made(d, base, repo, m)
  PROVE  /\ m.disk[f] = disk[f]
         /\ NeedsBacking(f) => m.disk[disk[f].backing] # Absent
         /\ m.base = base \/ m.base # f
         /\ m.file # f
         /\ NeedsBacking(f) => m.file # disk[f].backing
<1>1. f \in Files /\ disk[f] # Absent /\ f # base
  BY DEF DiskIsThere, DiskIsOwn
<1>2. m.disk[f] = disk[f]
  BY <1>1 DEF Made
<1>3. (m.base = base \/ m.base # f) /\ m.file # f
  BY <1>1 DEF Made
<1>4. ASSUME NeedsBacking(f)
      PROVE  m.disk[disk[f].backing] # Absent /\ m.file # disk[f].backing
  <2> DEFINE b == disk[f].backing
  <2>1. b \in Files /\ disk[b] # Absent /\ d[b] = disk[b]
    BY <1>1, <1>4, BackingIs DEF DiskIsThere, NeedsBacking, FileOrNone
  <2>2. disk[b].image \in Nat /\ repo \in Nat
    BY <2>1, BackingIs DEF FilesTyped
  <2>3. disk[b].image <= repo
    BY <2>1 DEF FilesAreOfTheirTime
  <2>4. disk[f].image = repo /\ disk[f].image <= disk[b].image
    BY <1>1, <1>4, <2>1 DEF NeedsBacking, FilesAreOfTheirTime, FileOrNone
  <2>5. d[b] # Absent /\ d[b].image = repo
    BY <2>1, <2>2, <2>3, <2>4
  <2> QED
    BY <2>1, <2>5 DEF Made
<1> QED
  BY <1>2, <1>3, <1>4

LEMMA ForgetKeeps ==
  ASSUME TypeInv, FilesTyped, DiskInv, pc # "load",
         NEW u \in Servers, Forget(u) \/ UNCHANGED <<disk, record>>,
         UNCHANGED <<diskOf, repo, base>>,
         \A s \in Servers : Minded(s)' => Minded(s) /\ (s # u \/ UNCHANGED <<disk, record>>)
  PROVE  DiskInv'
<1>1. CASE UNCHANGED <<disk, record>>
  BY <1>1 DEF DiskInv, FilesAreOfTheirTime, DisksStay, DiskIsThere, DiskIsOwn, NeedsBacking
<1>2. CASE Forget(u) /\ ~UNCHANGED <<disk, record>>
  <2>1. /\ disk' = DeleteFile(disk, record[u]) \/ disk' = disk
        /\ record' = [record EXCEPT ![u] = Absent]
    BY <1>2 DEF Forget
  <2>2. \A f \in Files : disk'[f] \in {disk[f], Absent}
    <3>1. record[u] \in FileOrNone /\ disk \in FileSystem(Nat)
      BY DEF FilesTyped
    <3> QED
      BY <2>1, <3>1, DeletedIs
  <2>3. FilesAreOfTheirTime'
    <3> SUFFICES ASSUME NEW f \in Files, disk'[f] # Absent
                 PROVE  /\ disk'[f].image <= repo
                        /\ (disk'[f].backing # Absent /\ disk'[disk'[f].backing] # Absent) =>
                             disk'[f].image <= disk'[disk'[f].backing].image
      BY DEF FilesAreOfTheirTime
    <3>1. disk'[f] = disk[f] /\ disk[f].backing \in FileOrNone
      BY <2>2, BackingIs
    <3> QED
      BY <2>2, <3>1 DEF DiskInv, FilesAreOfTheirTime, FileOrNone
  <2>4. DisksStay'
    <3> SUFFICES ASSUME NEW s \in Servers, Minded(s)'
                 PROVE  (DiskIsThere(diskOf[s]) /\ DiskIsOwn(s, diskOf[s]))'
      BY DEF DisksStay
    <3>1. Minded(s) /\ s # u
      BY <1>2
    <3>2. DiskIsThere(diskOf[s]) /\ DiskIsOwn(s, diskOf[s])
      BY <3>1 DEF DiskInv, DisksStay
    <3>3. /\ disk'[diskOf[s]] = disk[diskOf[s]]
          /\ NeedsBacking(diskOf[s]) =>
               disk'[disk[diskOf[s]].backing] = disk[disk[diskOf[s]].backing]
      BY <2>1, <3>1, <3>2, DeletedOther
    <3>4. \A t \in Servers : record'[t] \in {record[t], Absent}
      BY <2>1 DEF FilesTyped
    <3>5. DiskIsThere(diskOf[s])'
      BY <3>2, <3>3, DiskStays DEF DiskIsThere
    <3>6. DiskIsOwn(s, diskOf[s])'
      BY <3>2, <3>3, <3>4, DiskStaysOwn
    <3> QED
      BY <3>5, <3>6
  <2> QED
    BY <2>3, <2>4 DEF DiskInv
<1> QED
  BY <1>1, <1>2

\* What is made is of the image that is there.
LEMMA MadeIsOfItsTime ==
  ASSUME FilesTyped, FilesAreOfTheirTime, UNCHANGED repo,
         NEW d \in FileSystem(Nat), \A f \in Files : d[f] \in {disk[f], Absent},
         NEW m, Made(d, base, repo, m), disk' = m.disk \/ disk' = d
  PROVE  FilesAreOfTheirTime'
<1> SUFFICES ASSUME NEW f \in Files, disk'[f] # Absent
             PROVE  /\ disk'[f].image <= repo
                    /\ (disk'[f].backing # Absent /\ disk'[disk'[f].backing] # Absent) =>
                         disk'[f].image <= disk'[disk'[f].backing].image
  BY DEF FilesAreOfTheirTime
<1>1. repo \in Nat /\ disk' \in FileSystem(Nat)
  BY DEF FilesTyped, Made
<1>2. disk'[f].image \in Nat /\ disk'[f].backing \in FileOrNone
  BY <1>1, FileIs
<1>3. \A g \in Files : disk'[g] # Absent =>
        \/ disk'[g] = disk[g] /\ disk[g].image <= repo
        \/ /\ disk'[g].image = repo
           /\ disk'[g].backing # Absent => disk'[disk'[g].backing].image = repo
  BY DEF Made, FilesAreOfTheirTime
<1>4. disk'[f].image <= repo
  BY <1>1, <1>2, <1>3
<1>5. ASSUME disk'[f].backing # Absent, disk'[disk'[f].backing] # Absent
      PROVE  disk'[f].image <= disk'[disk'[f].backing].image
  <2> DEFINE b == disk'[f].backing
  <2>1. b \in Files /\ disk'[b].image \in Nat
    BY <1>1, <1>2, <1>5, FileIs DEF FileOrNone
  <2>2. CASE disk'[b].image = repo
    BY <1>4, <2>2
  <2>3. CASE disk'[b].image # repo
    <3>1. disk'[b] = disk[b] /\ disk'[f] = disk[f]
      BY <1>3, <1>5, <2>1, <2>3
    <3> QED
      BY <1>5, <2>1, <3>1 DEF FilesAreOfTheirTime
  <2> QED
    BY <2>2, <2>3
<1> QED
  BY <1>4, <1>5

\* The files from which the preparation makes the new ones: localinfo's file of
\* the server is gone if it is built anew, which it is not while it runs or
\* else at risk.
LEMMA ClearedBeside ==
  ASSUME TypeInv, FilesTyped, DisksStay, pc = "files",
         NEW s \in Servers, Minded(s), s # req.id \/ ~Rebuilding
  PROVE  LET f == diskOf[s]
         IN  /\ DiskIsThere(f) /\ DiskIsOwn(s, f)
             /\ ClearedDisk[f] = disk[f]
             /\ NeedsBacking(f) => ClearedDisk[disk[f].backing] = disk[disk[f].backing]
<1>1. DiskIsThere(diskOf[s]) /\ DiskIsOwn(s, diskOf[s])
  BY DEF DisksStay
<1>2. CASE ~Rebuilding
  BY <1>1, <1>2 DEF ClearedDisk
<1>3. CASE Rebuilding
  BY <1>1, <1>3, ClearedIsTyped, DeletedOther DEF ClearedDisk
<1> QED
  BY <1>1, <1>2, <1>3

LEMMA ClearedAre ==
  ASSUME TypeInv, FilesTyped, pc = "files"
  PROVE  /\ ClearedDisk \in FileSystem(Nat)
         /\ \A f \in Files : ClearedDisk[f] \in {disk[f], Absent}
<1>1. record[req.id] \in FileOrNone /\ disk \in FileSystem(Nat)
  BY ClearedIsTyped DEF FilesTyped
<1> QED
  BY <1>1, ClearedIsTyped, DeletedIs DEF ClearedDisk

LEMMA PrepareFilesKeeps ==
  ASSUME TypeInv, FilesTyped, DiskInv, PrepareFiles \/ PrepareFilesFails,
         \A s \in Servers : Minded(s)' => Minded(s)
  PROVE  DiskInv'
<1>1. /\ pc = "files" /\ UNCHANGED <<repo, diskOf, machine>>
      /\ Rebuilding /\ IsLive(req.id) => req.id \in atRisk'
  BY DEF PrepareFiles, PrepareFilesFails
<1>2. \/ UNCHANGED <<disk, base, record>>
      \/ disk' = ClearedDisk /\ UNCHANGED <<base, record>>
      \/ /\ Made(ClearedDisk, base, repo, MadeForIt)
         /\ disk' = MadeForIt.disk
         /\ base' = MadeForIt.base
         /\ record' = record \/ record' = [record EXCEPT ![req.id] = MadeForIt.file]
  <2>1. PrepareFilesFails => UNCHANGED record
    BY DEF PrepareFilesFails
  <2> QED
    BY <2>1, PreparedIs, NotPreparedIs
<1>3. ASSUME NEW s \in Servers, Minded(s)'
      PROVE  Minded(s) /\ (s # req.id \/ ~Rebuilding)
  BY <1>1, <1>3 DEF Minded, IsLive
<1>4. CASE UNCHANGED <<disk, base, record>>
  BY <1>1, <1>3, <1>4
     DEF DiskInv, FilesAreOfTheirTime, DisksStay, DiskIsThere, DiskIsOwn, NeedsBacking
<1>5. CASE disk' = ClearedDisk /\ UNCHANGED <<base, record>>
  <2>1. FilesAreOfTheirTime'
    <3> SUFFICES ASSUME NEW f \in Files, disk'[f] # Absent
                 PROVE  /\ disk'[f].image <= repo
                        /\ (disk'[f].backing # Absent /\ disk'[disk'[f].backing] # Absent) =>
                             disk'[f].image <= disk'[disk'[f].backing].image
      BY <1>1 DEF FilesAreOfTheirTime
    <3>1. disk'[f] = disk[f] /\ disk[f].backing \in FileOrNone
      BY <1>1, <1>5, ClearedAre, BackingIs
    <3> QED
      BY <1>1, <1>5, <3>1, ClearedAre DEF DiskInv, FilesAreOfTheirTime, FileOrNone
  <2>2. ASSUME NEW s \in Servers, Minded(s)'
        PROVE  (DiskIsThere(diskOf[s]) /\ DiskIsOwn(s, diskOf[s]))'
    <3>1. PICK f : f = diskOf[s]
      OBVIOUS
    <3>2. /\ DiskIsThere(f) /\ DiskIsOwn(s, f)
          /\ disk'[f] = disk[f]
          /\ NeedsBacking(f) => disk'[disk[f].backing] = disk[disk[f].backing]
      BY <1>1, <1>3, <1>5, <2>2, <3>1, ClearedBeside DEF DiskInv
    <3>3. NeedsBacking(f) => disk'[disk[f].backing] # Absent
      BY <3>2 DEF DiskIsThere
    <3>4. DiskIsThere(f)' /\ DiskIsOwn(s, f)'
      BY <1>1, <1>5, <3>2, <3>3, DiskStays, DiskStaysOwn
    <3> QED
      BY <1>1, <3>1, <3>4
  <2> QED
    BY <2>1, <2>2 DEF DiskInv, DisksStay
<1>6. CASE /\ Made(ClearedDisk, base, repo, MadeForIt)
           /\ disk' = MadeForIt.disk
           /\ base' = MadeForIt.base
           /\ record' = record \/ record' = [record EXCEPT ![req.id] = MadeForIt.file]
  <2>1. FilesAreOfTheirTime'
    BY <1>1, <1>6, ClearedAre, MadeIsOfItsTime DEF DiskInv
  <2>2. ASSUME NEW s \in Servers, Minded(s)'
        PROVE  (DiskIsThere(diskOf[s]) /\ DiskIsOwn(s, diskOf[s]))'
    <3>1. PICK f : f = diskOf[s]
      OBVIOUS
    <3>2. /\ DiskIsThere(f) /\ DiskIsOwn(s, f)
          /\ ClearedDisk[f] = disk[f]
          /\ NeedsBacking(f) => ClearedDisk[disk[f].backing] = disk[disk[f].backing]
      BY <1>1, <1>3, <2>2, <3>1, ClearedBeside DEF DiskInv
    <3>3. /\ disk'[f] = disk[f]
          /\ NeedsBacking(f) => disk'[disk[f].backing] # Absent
          /\ base' = base \/ base' # f
          /\ MadeForIt.file # f
          /\ NeedsBacking(f) => MadeForIt.file # disk[f].backing
      BY <1>1, <1>6, <3>2, ClearedAre, MadeBeside DEF DiskInv
    <3>4. \A t \in Servers : \/ record'[t] \in {record[t], Absent}
                             \/ record'[t] # f /\ (NeedsBacking(f) => record'[t] # disk[f].backing)
      BY <1>6, <3>3 DEF FilesTyped
    <3>5. DiskIsThere(f)'
      BY <1>1, <3>2, <3>3, DiskStays
    <3>6. DiskIsOwn(s, f)'
      BY <1>1, <3>2, <3>3, <3>4, DiskStaysOwn
    <3> QED
      BY <1>1, <3>1, <3>5, <3>6
  <2> QED
    BY <2>1, <2>2 DEF DiskInv, DisksStay
<1> QED
  BY <1>2, <1>4, <1>5, <1>6

\* Files and localinfo stay as they are.
LEMMA DisksAside ==
  ASSUME DiskInv, UNCHANGED <<disk, diskOf, repo>>,
         pc' # "load" => pc # "load" /\ UNCHANGED <<base, record>>,
         \A s \in Servers : Minded(s)' => Minded(s)
  PROVE  DiskInv'
BY DEF DiskInv, FilesAreOfTheirTime, DisksStay, DiskIsThere, DiskIsOwn, NeedsBacking

\* After a new image nothing that is there needs its backing.
LEMMA ReplaceImageKeeps ==
  ASSUME FilesTyped, DiskInv, ReplaceImage, \A s \in Servers : Minded(s)' => Minded(s)
  PROVE  DiskInv'
<1>1. UNCHANGED <<disk, diskOf, base, record, pc>> /\ repo' = repo + 1 /\ repo \in Nat
  BY DEF ReplaceImage, threadVars, memVars, FilesTyped
<1>2. \A f \in Files : disk[f] # Absent =>
        disk[f].image \in Nat /\ disk[f].image <= repo /\ ~NeedsBacking(f)'
  BY <1>1, BackingIs DEF DiskInv, FilesAreOfTheirTime, NeedsBacking
<1>3. FilesAreOfTheirTime'
  BY <1>1, <1>2 DEF DiskInv, FilesAreOfTheirTime
<1>4. DisksStay'
  BY <1>1, <1>2 DEF DiskInv, DisksStay, DiskIsThere, DiskIsOwn
<1> QED
  BY <1>3, <1>4 DEF DiskInv

\* A machine is created on a disk that is there, with what backs it, and is at
\* risk if localinfo has it for another as well.
LEMMA CreateDomainKeeps ==
  ASSUME TypeInv, FilesTyped, DiskInv, CreateDomain
  PROVE  DiskInv'
<1>1. /\ UNCHANGED <<row, disk, repo, base, record>> /\ pc = "create" /\ req.id \in Servers
      /\ atRisk \subseteq atRisk'
  BY Ops DEF CreateDomain, dbVars, memVars, TypeInv, TaskFits
<1>2. FilesAreOfTheirTime'
  BY <1>1 DEF DiskInv, FilesAreOfTheirTime
<1>3. ASSUME NEW s \in Servers, Minded(s)', s # req.id \/ UNCHANGED <<machine, diskOf>>
      PROVE  (DiskIsThere(diskOf[s]) /\ DiskIsOwn(s, diskOf[s]))'
  <2>1. diskOf'[s] = diskOf[s] /\ machine'[s] = machine[s]
    BY <1>3 DEF CreateDomain, FilesTyped, TypeInv, TablesTyped
  <2>2. Minded(s)
    BY <1>1, <1>3, <2>1 DEF Minded, IsLive
  <2>3. DiskIsThere(diskOf[s]) /\ DiskIsOwn(s, diskOf[s])
    BY <1>1, <2>2 DEF DiskInv, DisksStay
  <2> QED
    BY <1>1, <2>1, <2>3 DEF DiskIsThere, DiskIsOwn, NeedsBacking
<1>4. ASSUME NEW s \in Servers, Minded(s)', s = req.id, ~UNCHANGED <<machine, diskOf>>
      PROVE  (DiskIsThere(diskOf[s]) /\ DiskIsOwn(s, diskOf[s]))'
  <2>1. PICK f : f = record[s]
    OBVIOUS
  <2>2. /\ Usable(disk, f)
        /\ diskOf' = [diskOf EXCEPT ![s] = f]
        /\ OwnDisk(s, f, record, base) \/ s \in atRisk'
    BY <1>4, <2>1 DEF CreateDomain
  <2>3. OwnDisk(s, f, record, base) /\ diskOf'[s] = f /\ f \in Files
    BY <1>4, <2>1, <2>2 DEF Minded, FilesTyped, Usable, FileOrNone
  <2>4. DiskIsThere(f) /\ DiskIsOwn(s, f)
    BY <2>2, <2>3 DEF Usable, OwnDisk, DiskIsThere, DiskIsOwn, NeedsBacking
  <2> QED
    BY <1>1, <2>3, <2>4 DEF DiskIsThere, DiskIsOwn, NeedsBacking
<1> QED
  BY <1>2, <1>3, <1>4 DEF DiskInv, DisksStay

\* The thread starts: who has a file that localinfo has for another is at risk.
LEMMA LoadKeeps ==
  ASSUME TypeInv, FilesTyped, DiskInv, Load, \A s \in Servers : Minded(s)' => Minded(s)
  PROVE  DiskInv'
<1>1. PICK files \in {savedFile, NoFiles}, copy \in {savedBase, Absent}, status \in {Rows, NothingKnown},
           kept \in SUBSET Files :
        LoadFiles(files, copy, status, kept)
  BY LoadIs
<1>2. files \in [Servers -> FileOrNone] /\ copy \in FileOrNone
  BY DEF FilesTyped, NoFiles, FileOrNone
<1>3. UNCHANGED <<diskOf, repo, row, machine>>
  BY DEF Load, dbVars
<1> DEFINE unused == {s \in Servers : files[s] # Absent /\ status[s] = NoStatus}
<1>4. /\ \A f \in Files : disk'[f] = IF f \in {files[s] : s \in unused} \ kept THEN Absent ELSE disk[f]
      /\ \A s \in Servers : record'[s] \in {files[s], Absent}
      /\ base' = copy
      /\ \A s \in Servers : IsLive(s) /\ s \notin atRisk' => OwnDisk(s, diskOf[s], files, copy)
      /\ \A s \in unused : row[s] # NoRow => s \in atRisk'
  BY <1>1 DEF LoadFiles
<1>5. FilesAreOfTheirTime'
  <2> SUFFICES ASSUME NEW f \in Files, disk'[f] # Absent
               PROVE  /\ disk'[f].image <= repo
                      /\ (disk'[f].backing # Absent /\ disk'[disk'[f].backing] # Absent) =>
                           disk'[f].image <= disk'[disk'[f].backing].image
    BY <1>3 DEF FilesAreOfTheirTime
  <2>1. \A g \in Files : disk'[g] \in {disk[g], Absent}
    BY <1>4
  <2>2. disk'[f] = disk[f] /\ disk[f].backing \in FileOrNone
    BY <2>1, BackingIs
  <2> QED
    BY <2>1, <2>2 DEF DiskInv, FilesAreOfTheirTime, FileOrNone
<1>6. ASSUME NEW s \in Servers, Minded(s)'
      PROVE  (DiskIsThere(diskOf[s]) /\ DiskIsOwn(s, diskOf[s]))'
  <2>1. PICK f : f = diskOf[s]
    OBVIOUS
  <2>2. DiskIsThere(f) /\ OwnDisk(s, f, files, copy) /\ s \notin unused
    BY <1>3, <1>4, <1>6, <2>1 DEF DiskInv, DisksStay, Minded
  <2>3. disk'[f] = disk[f]
    <3> HIDE DEF unused
    <3>1. \A t \in unused : files[t] # f
      BY <2>2 DEF OwnDisk, unused
    <3> QED
      BY <1>4, <2>2, <3>1 DEF DiskIsThere
  <2>4. ASSUME NeedsBacking(f)
        PROVE  disk'[disk[f].backing] # Absent /\ \A t \in Servers : record'[t] # disk[f].backing
    <3>1. disk[f].backing \in Files /\ \A t \in Servers : files[t] # disk[f].backing
      BY <2>2, <2>4, BackingIs DEF DiskIsThere, NeedsBacking, OwnDisk, FileOrNone
    <3>2. disk'[disk[f].backing] = disk[disk[f].backing]
      BY <1>4, <3>1
    <3> QED
      BY <1>4, <2>2, <2>4, <3>1, <3>2, ServersAreTyped DEF DiskIsThere, NeedsBacking
  <2>5. DiskIsThere(f)'
    BY <1>3, <2>2, <2>3, <2>4, DiskStays
  <2>6. DiskIsOwn(s, f)'
    BY <1>3, <1>4, <2>2, <2>3, <2>4, ServersAreTyped DEF DiskIsOwn, DiskIsThere, NeedsBacking, OwnDisk
  <2> QED
    BY <1>3, <2>1, <2>5, <2>6
<1> QED
  BY <1>5, <1>6 DEF DiskInv, DisksStay

LEMMA DiskStep ==
  ASSUME TypeInv, PlacesAreNew, FilesTyped, BornFirst, DiskInv, [Next]_vars
  PROVE  DiskInv'
<1>1. CASE CreateDomain
  BY <1>1, CreateDomainKeeps
<1>2. CASE ~CreateDomain
  <2>1. \A s \in Servers : Minded(s)' => Minded(s)
    <3>1. atRisk \subseteq atRisk'
      <4>1. CASE FileStep
        BY <1>2, <4>1 DEF FileStep, ActTerminate, ForceOff, PrepareFiles, PrepareFilesFails, SaveLocalinfo,
                   EndThread, Load, LoadFiles, Restart, ReplaceImage, histVars
      <4> QED
        BY <4>1, FilesStay DEF FilesKept
    <3> QED
      BY <1>2, <3>1, MindedBefore
  <2>2. CASE ActTerminate
    <3>1. req.id \in Servers /\ pc # "load" /\ UNCHANGED <<diskOf, repo, base>>
      BY <2>2, Ops DEF ActTerminate, TypeInv, TaskFits
    <3>2. \/ UNCHANGED <<disk, record>>
          \/ Forget(req.id) /\ machine' = [machine EXCEPT ![req.id] = "none"]
      BY <2>2 DEF ActTerminate
    <3>3. \A s \in Servers : Minded(s)' => Minded(s) /\ (s # req.id \/ UNCHANGED <<disk, record>>)
      BY <2>1, <3>1, <3>2 DEF Minded, IsLive, Live, TypeInv, TablesTyped
    <3> QED
      BY <3>1, <3>2, <3>3, ForgetKeeps
  <2>3. CASE ForceOff
    <3>1. PICK u \in Servers : u = Head(pending)
      BY <2>3 DEF ForceOff, MayForceOff, TypeInv, TablesTyped
    <3>2. /\ pc # "load" /\ UNCHANGED <<diskOf, repo, base>>
          /\ Forget(u) /\ machine' = [machine EXCEPT ![u] = "none"]
      BY <2>3, <3>1 DEF ForceOff, MayForceOff
    <3>3. \A s \in Servers : Minded(s)' => Minded(s) /\ s # u
      BY <2>1, <3>2 DEF Minded, IsLive, Live, TypeInv, TablesTyped
    <3> QED
      BY <3>2, <3>3, ForgetKeeps
  <2>4. CASE PrepareFiles \/ PrepareFilesFails
    BY <2>1, <2>4, PrepareFilesKeeps
  <2>5. CASE SaveLocalinfo \/ EndThread \/ Restart
    <3>1. UNCHANGED <<disk, diskOf, repo, base, record>> /\ (pc # "load" \/ Restart)
      BY <2>5 DEF SaveLocalinfo, EndThread, Restart, nodeVars
    <3> QED
      BY <2>1, <2>5, <3>1, DisksAside DEF Restart
  <2>6. CASE Load
    BY <2>1, <2>6, LoadKeeps
  <2>7. CASE ReplaceImage
    BY <2>1, <2>7, ReplaceImageKeeps
  <2>8. CASE ~FileStep
    <3>1. UNCHANGED <<disk, diskOf, repo, base, record>>
      BY <2>8, FilesStay DEF FilesKept
    <3>2. pc' # "load" => pc # "load"
      BY <2>8, LoadingStays DEF FileStep
    <3> QED
      BY <2>1, <3>1, <3>2, DisksAside
  <2> QED
    BY <1>2, <2>2, <2>3, <2>4, <2>5, <2>6, <2>7, <2>8 DEF FileStep
<1> QED
  BY <1>1, <1>2

\* No step deletes the disk of a live machine whose server exists, or the copy
\* of the present image under it; the exceptions are those of atRisk.
THEOREM DisksAreKept == Spec => []DisksOfMachinesExist
<1> DEFINE Inv == TypeInv /\ PlacesAreNew /\ FilesTyped /\ BornFirst /\ DiskInv
<1>1. Init => Inv
  BY InitType, InitPlaces, InitAllTyped, InitCores, InitDisks
<1>2. Inv /\ [Next]_vars => Inv'
  BY TypeInvStep, PlacesStep, FilesTypedStep, BornStep, DiskStep
<1>3. Inv => DisksOfMachinesExist
  <2> SUFFICES ASSUME Inv, NEW s \in Servers, Minded(s)
               PROVE  /\ disk[diskOf[s]] # Absent
                      /\ Usable(disk, diskOf[s]) \/ disk[diskOf[s]].image # repo
    BY DEF DisksOfMachinesExist, Minded
  <2>1. DiskIsThere(diskOf[s])
    BY DEF DiskInv, DisksStay
  <2> QED
    BY <2>1, ServersAreTyped DEF DiskIsThere, NeedsBacking, Usable
<1> QED
  BY <1>1, <1>2, <1>3, PTL DEF Spec

-----------------------------------------------------------------------------
(* Without failures and stops *)

Clean == faults = 0 /\ crashes = 0

CountsTyped == faults \in Nat /\ crashes \in Nat

\* localinfo: while it has to be loaded, what is written at the host.
HeldBase == IF pc = "load" THEN savedBase ELSE base
HeldFile == IF pc = "load" THEN savedFile ELSE record

\* What is written at the host is up to date, or will be written.
LocalinfoIsSaved ==
  /\ pc = "stopped" => ~dirty
  /\ pc # "load" /\ ~dirty => savedBase = base /\ savedFile = record

EveryFileIsHeld ==
  \A f \in Files : disk[f] # Absent => f = HeldBase \/ \E s \in Servers : f = HeldFile[s]

HeldInv == Clean => LocalinfoIsSaved /\ EveryFileIsHeld

\* A machine was created for a server that had a row.
DisksAreBorn == \A s \in Servers : diskOf[s] # Absent => s \in born

\* localinfo has a file for a server that was built and is not deleted.
DisksAreHeld ==
  Clean => \A s \in Servers :
    (diskOf[s] # Absent /\ s \notin shutDown /\ row[s] # NoRow) => HeldFile[s] # Absent

MakesImage(task, s) == task.op \in ImageActions /\ task.id = s

\* There is one task for an image that is to be made, with the request, in the
\* queue or in progress.
ImagesAreAsked ==
  \A s \in Servers :
    /\ (\E h \in HttpThreads : MakesImage(http[h], s)) =>
         /\ image[s] = "BUILD"
         /\ \A g, h \in HttpThreads : MakesImage(http[g], s) /\ MakesImage(http[h], s) => g = h
         /\ \A i \in DOMAIN queue : ~MakesImage(queue[i], s)
         /\ ~MakesImage(req, s)
    /\ (\E i \in DOMAIN queue : MakesImage(queue[i], s)) =>
         /\ image[s] = "BUILD"
         /\ \A i, j \in DOMAIN queue :
              MakesImage(queue[i], s) /\ MakesImage(queue[j], s) => i = j
         /\ ~MakesImage(req, s)
    /\ MakesImage(req, s) => image[s] = "BUILD"

\* An image asked with the imageRef of another was asked so of a server that
\* is known for it.
NamesRef(task) == task.op = "createImageRef" => task.id \in misnamed

RefsAreMisnamed ==
  /\ \A h \in HttpThreads : NamesRef(http[h])
  /\ \A i \in DOMAIN queue : NamesRef(queue[i])
  /\ NamesRef(req)

\* Images are made of servers that have had a row.
ImagesAreOfBorn == \A s \in Servers : image[s] # "none" => s \in born

\* Without failures no terminate fails twice.
NoPanic == Clean => pc # "panic"

\* No launch is on its way once db_lock is lost.
LostIsQuiet == Clean /\ lockLost => Looked = {}

AskedInv == ImagesAreAsked /\ RefsAreMisnamed /\ ImagesAreOfBorn

LockInv == AskedInv /\ NoPanic /\ LostIsQuiet /\ LockLostOnlyBy

LEMMA InitHeld == Init => CountsTyped /\ HeldInv /\ DisksAreBorn /\ DisksAreHeld /\ LockInv
<1> SUFFICES ASSUME Init PROVE CountsTyped /\ HeldInv /\ DisksAreBorn /\ DisksAreHeld /\ LockInv
  OBVIOUS
<1>1. CountsTyped
  BY DEF Init, CountsTyped
<1>2. HeldInv
  BY DEF Init, HeldInv, LocalinfoIsSaved, EveryFileIsHeld, HeldBase, HeldFile
<1>3. DisksAreBorn /\ DisksAreHeld
  BY DEF Init, DisksAreBorn, DisksAreHeld, HeldFile
<1>4. ImagesAreAsked /\ RefsAreMisnamed
  BY Ops DEF Init, ImagesAreAsked, MakesImage, ImageActions, RefsAreMisnamed, NamesRef
<1>5. LockInv
  BY <1>4 DEF Init, LockInv, AskedInv, ImagesAreOfBorn, NoPanic, LostIsQuiet, LockLostOnlyBy
<1> QED
  BY <1>1, <1>2, <1>3, <1>5

\* Failures and stops are counted and never forgotten.
LEMMA CountsStep ==
  ASSUME CountsTyped, [Next]_vars
  PROVE  CountsTyped' /\ (Clean' => Clean /\ UNCHANGED <<faults, crashes>>)
<1>1. CASE \/ UNCHANGED <<faults, crashes>>
           \/ faults' = faults + 1 /\ UNCHANGED crashes
           \/ crashes' = crashes + 1 /\ UNCHANGED faults
  BY <1>1 DEF CountsTyped, Clean
<1>2. CASE \/ \E h \in HttpThreads, s \in Servers, start \in {"yes", "no"} : PostServer(h, s, start)
           \/ \E h \in HttpThreads, ask \in Asked : AskAction(h, ask[1], ask[2])
           \/ \E task \in {Reload, Exit} : AskThread(task)
           \/ \E h \in HttpThreads : HttpStep(h)
           \/ \E s \in Servers, state \in GuestEvents \cup {"none"} : ShutsDown(s, state)
           \/ \E s \in Servers, state \in GuestEvents : GuestEvent(s, state)
           \/ Restart \/ ReplaceImage
  BY <1>1, <1>2 DEF PostServer, AskAction, AskThread, HttpStep, NewInstance, InsertTask, DeleteInstance, ShutsDown,
                    GuestEvent, Restart, ReplaceImage, Fault, NoFault, boundVars
<1>3. CASE TakeTask \/ ActFails \/ ActStart \/ ActStartRebuild \/ ActRebuild \/ ActTerminate
           \/ ActOther \/ ActCreateImage
  BY <1>1, <1>3 DEF TakeTask, ActFails, ActStart, ActStartRebuild, ActRebuild, ActTerminate, Forget,
                    ActOther, ActCreateImage, MakeImage, Fault, NoFault, boundVars
<1>4. CASE GetInstance \/ PrepareFiles \/ PrepareFilesFails \/ Waited \/ CreateDomain
           \/ WriteStatus \/ Panic
  BY <1>1, <1>4 DEF GetInstance, PrepareFiles, PrepareFilesFails, Waited, CreateDomain,
                    WriteStatus, Panic, Fault, NoFault, boundVars
<1>5. CASE ForceOff \/ EndForceOff \/ ForceOffFails \/ SaveLocalinfo \/ Poll
           \/ (\E s \in Servers : PollWrite(s)) \/ EndThread \/ Load
  BY <1>1, <1>5 DEF ForceOff, Forget, EndForceOff, ForceOffFails, SaveLocalinfo, Saved, Poll, PollWrite,
                    EndThread, Load, Fault, NoFault, boundVars
<1> QED
  BY <1>1, <1>2, <1>3, <1>4, <1>5 DEF Next, ThreadStep, vars, boundVars

\* How the thread comes to its end, or to load everything again.
LEMMA EndsAre ==
  ASSUME TypeInv, [Next]_vars, pc' \in {"load", "stopped"}, pc' # pc
  PROVE  EndThread \/ Restart \/ ForceOffFails
<1> SUFFICES ASSUME ~Restart PROVE EndThread \/ ForceOffFails
  OBVIOUS
<1>1. \A status : Conclude(status) => pc' \notin {"load", "stopped"}
  BY DEF Conclude, TaskDone
<1>2. ThreadStep
  BY DEF PostServer, AskAction, AskThread, HttpStep, NewInstance, InsertTask, DeleteInstance, ShutsDown,
         GuestEvent, ReplaceImage, threadVars, Next, vars
<1>3. ~(TakeTask \/ ActFails \/ ActStart \/ ActStartRebuild \/ ActRebuild \/ ActTerminate
        \/ ActOther \/ ActCreateImage)
  <2>1. ~(TakeTask \/ ActFails \/ ActStart \/ ActStartRebuild)
    <3>1. ActStart => pc' = "read" \/ Conclude("ACTIVE") \/ Conclude("ERROR")
      <4>1. ActStart => machine[req.id] \in MachineStates
        BY Ops DEF ActStart, TypeInv, TablesTyped, TaskFits
      <4> QED
        BY <4>1 DEF ActStart, MachineStates, Live
    <3> QED
      BY <1>1, <3>1 DEF TakeTask, ActFails, ActStartRebuild
  <2>2. ~(ActRebuild \/ ActTerminate \/ ActCreateImage)
    BY <1>1 DEF ActRebuild, ActTerminate, ActCreateImage, TaskDone
  <2>3. ~ActOther
    <3>1. ActOther => TaskDone \/ Conclude("ERROR")
      BY DEF ActOther
    <3> QED
      BY <1>1, <3>1 DEF TaskDone
  <2> QED
    BY <2>1, <2>2, <2>3
<1>4. ~(GetInstance \/ PrepareFiles \/ PrepareFilesFails \/ Waited \/ CreateDomain \/ WriteStatus \/ Panic)
  BY <1>1 DEF GetInstance, PrepareFiles, PrepareFilesFails, Waited, CreateDomain, WriteStatus, Panic,
         TaskDone
<1>5. ~(ForceOff \/ EndForceOff \/ SaveLocalinfo \/ Poll \/ (\E s \in Servers : PollWrite(s)) \/ Load)
  BY DEF ForceOff, EndForceOff, SaveLocalinfo, Poll, PollWrite, Load
<1> QED
  BY <1>2, <1>3, <1>4, <1>5 DEF ThreadStep

\* Neither it nor the http threads touch the files.
LEMMA HeldAside ==
  ASSUME TypeInv, LocalinfoIsSaved, EveryFileIsHeld,
         UNCHANGED <<disk, base, record, savedBase, savedFile, dirty>>,
         pc' = "load" => pc = "load",
         pc = "load" => pc' = "load",
         pc' = "stopped" => pc = "stopped"
  PROVE  LocalinfoIsSaved' /\ EveryFileIsHeld' /\ UNCHANGED HeldFile
BY DEF LocalinfoIsSaved, EveryFileIsHeld, HeldBase, HeldFile

\* A file that is forgotten is deleted.
LEMMA ForgetHolds ==
  ASSUME FilesTyped, LocalinfoIsSaved, EveryFileIsHeld, NEW u \in Servers, Forget(u), ~Fault,
         pc # "load", pc' \notin {"load", "stopped"}, UNCHANGED <<base, savedBase, savedFile>>
  PROVE  LocalinfoIsSaved' /\ EveryFileIsHeld'
<1>1. /\ record' = [record EXCEPT ![u] = Absent]
      /\ dirty' = (dirty \/ record[u] # Absent)
      /\ record \in [Servers -> FileOrNone]
      /\ \A f \in Files : disk'[f] # Absent => disk[f] # Absent /\ f # record[u]
  <2>1. record[u] \in FileOrNone /\ disk \in FileSystem(Nat)
    BY DEF FilesTyped
  <2>2. \A f \in Files : disk'[f] = IF f = record[u] THEN Absent ELSE disk[f]
    BY <2>1, DeletedIs DEF Forget
  <2> QED
    BY <2>2 DEF Forget, FilesTyped
<1>2. LocalinfoIsSaved'
  BY <1>1 DEF LocalinfoIsSaved
<1>3. EveryFileIsHeld'
  BY <1>1 DEF EveryFileIsHeld, HeldBase, HeldFile
<1> QED
  BY <1>2, <1>3

LEMMA HeldStep ==
  ASSUME TypeInv, FilesTyped, CountsTyped, HeldInv, [Next]_vars
  PROVE  HeldInv'
<1> SUFFICES ASSUME Clean' PROVE LocalinfoIsSaved' /\ EveryFileIsHeld'
  BY DEF HeldInv
<1>1. /\ Clean /\ LocalinfoIsSaved /\ EveryFileIsHeld
      /\ ~Fault /\ crashes' = crashes
  <2>1. Clean /\ UNCHANGED <<faults, crashes>>
    BY CountsStep
  <2> QED
    BY <2>1 DEF HeldInv, Fault, CountsTyped
<1>2. CASE ActTerminate
  <2>1. /\ req.id \in Servers /\ pc = "act" /\ pc' = "idle"
        /\ UNCHANGED <<base, savedBase, savedFile>>
    BY <1>2, Ops DEF ActTerminate, TaskDone, TypeInv, TaskFits
  <2>2. CASE Forget(req.id)
    BY <1>1, <2>1, <2>2, ForgetHolds
  <2>3. CASE UNCHANGED <<disk, record, dirty>>
    BY <1>1, <2>1, <2>3, HeldAside
  <2> QED
    BY <1>2, <2>2, <2>3 DEF ActTerminate
<1>3. CASE ForceOff
  <2>1. PICK u \in Servers : u = Head(pending)
    BY <1>3 DEF ForceOff, MayForceOff, TypeInv, TablesTyped
  <2>2. /\ Forget(u) /\ pc # "load" /\ pc' \notin {"load", "stopped"}
        /\ UNCHANGED <<base, savedBase, savedFile>>
    BY <1>3, <2>1 DEF ForceOff, MayForceOff
  <2> QED
    BY <1>1, <2>2, ForgetHolds
<1>4. CASE PrepareFiles
  <2>1. /\ pc = "files" /\ pc' \notin {"load", "stopped"} /\ dirty'
        /\ req.id \in Servers /\ record \in [Servers -> FileOrNone]
    BY <1>4, ClearedIsTyped DEF PrepareFiles, FilesTyped
  <2>2. CASE UNCHANGED <<disk, base, record>>
    BY <1>1, <2>1, <2>2 DEF LocalinfoIsSaved, EveryFileIsHeld, HeldBase, HeldFile
  <2>3. CASE /\ Made(ClearedDisk, base, repo, MadeForIt)
             /\ record[req.id] = Absent \/ Rebuilding
             /\ disk' = MadeForIt.disk
             /\ base' = MadeForIt.base
             /\ record' = [record EXCEPT ![req.id] = MadeForIt.file]
    <3>1. \A f \in Files :
            disk'[f] # Absent =>
              \/ f \in {MadeForIt.file, base'}
              \/ ClearedDisk[f] # Absent /\ f # base
      BY <2>3 DEF Made
    <3>2. \A f \in Files : ClearedDisk[f] # Absent => disk[f] # Absent /\ f # record[req.id]
      <4>1. record[req.id] \in FileOrNone /\ disk \in FileSystem(Nat)
        BY <2>1 DEF FilesTyped
      <4> QED
        BY <2>3, <4>1, DeletedIs, ServersAreTyped DEF ClearedDisk
    <3>3. \A f \in Files : disk'[f] # Absent => f = base' \/ \E s \in Servers : f = record'[s]
      BY <1>1, <2>1, <2>3, <3>1, <3>2 DEF EveryFileIsHeld, HeldBase, HeldFile
    <3> QED
      BY <2>1, <3>3 DEF LocalinfoIsSaved, EveryFileIsHeld, HeldBase, HeldFile
  <2> QED
    BY <1>4, <2>2, <2>3, PreparedIs
<1>5. CASE PrepareFilesFails
  BY <1>1, <1>5 DEF PrepareFilesFails
<1>6. CASE CreateDomain
  <2>1. UNCHANGED <<disk, base, record, savedBase, savedFile, dirty>> /\ pc # "load"
    BY <1>6 DEF CreateDomain, memVars
  <2>2. pc' \notin {"load", "stopped"}
    BY <1>6 DEF CreateDomain, Conclude, TaskDone
  <2> QED
    BY <1>1, <2>1, <2>2, HeldAside
<1>7. CASE SaveLocalinfo
  BY <1>1, <1>7 DEF SaveLocalinfo, Saved, LocalinfoIsSaved, EveryFileIsHeld, HeldBase, HeldFile
<1>8. CASE EndThread
  BY <1>1, <1>8 DEF EndThread, Saved, LocalinfoIsSaved, EveryFileIsHeld, HeldBase, HeldFile
<1>9. CASE Load
  <2>1. /\ LoadFiles(savedFile, savedBase, Rows, {}) /\ pc = "load" /\ pc' = "idle"
        /\ UNCHANGED <<savedBase, savedFile>>
    BY <1>1, <1>9 DEF Load
  <2> DEFINE unused == {s \in Servers : savedFile[s] # Absent /\ Rows[s] = NoStatus}
  <2>2. /\ disk' = [f \in Files |-> IF f \in {savedFile[s] : s \in unused} THEN Absent ELSE disk[f]]
        /\ record' = [s \in Servers |-> IF s \in unused THEN Absent ELSE savedFile[s]]
        /\ base' = savedBase
        /\ dirty' = (unused # {})
    BY <2>1 DEF LoadFiles
  <2>3. savedFile \in [Servers -> FileOrNone]
    BY DEF FilesTyped
  <2> HIDE DEF unused
  <2>4. LocalinfoIsSaved'
    BY <2>1, <2>2, <2>3 DEF LocalinfoIsSaved
  <2>5. EveryFileIsHeld'
    <3>1. \A f \in Files : disk'[f] # Absent => disk[f] # Absent /\ \A s \in unused : f # savedFile[s]
      BY <2>2
    <3>2. \A f \in Files : disk[f] # Absent => f = savedBase \/ \E s \in Servers : f = savedFile[s]
      BY <1>1, <2>1 DEF EveryFileIsHeld, HeldBase, HeldFile
    <3> QED
      BY <2>1, <2>2, <3>1, <3>2 DEF EveryFileIsHeld, HeldBase, HeldFile
  <2> QED
    BY <2>4, <2>5
<1>10. CASE Restart
  <2>1. pc = "stopped" /\ ~dirty'
    BY <1>1, <1>10 DEF Restart, CountsTyped
  <2> QED
    BY <1>1, <1>10, <2>1 DEF Restart, nodeVars, LocalinfoIsSaved, EveryFileIsHeld, HeldBase, HeldFile
<1>11. CASE ReplaceImage
  BY <1>1, <1>11, HeldAside DEF ReplaceImage, threadVars, memVars
<1>12. CASE ~FileStep
  <2>1. UNCHANGED <<disk, base, record, savedBase, savedFile, dirty>>
    BY <1>12, FilesStay DEF FilesKept
  <2>2. ~ForceOffFails
    BY <1>1 DEF ForceOffFails
  <2>3. (pc' = "load" => pc = "load") /\ (pc' = "stopped" => pc = "stopped")
    BY <1>12, <2>2, EndsAre DEF FileStep
  <2>4. pc = "load" => pc' = "load"
    BY <1>12, LoadingStays DEF FileStep
  <2> QED
    BY <1>1, <2>1, <2>3, <2>4, HeldAside
<1> QED
  BY <1>2, <1>3, <1>4, <1>5, <1>6, <1>7, <1>8, <1>9, <1>10, <1>11, <1>12 DEF FileStep

\* Without failures and stops no file of a server is lost from localinfo.
THEOREM NoFileIsLost == Spec => []FilesAreRecorded
<1> DEFINE Inv == TypeInv /\ FilesTyped /\ CountsTyped /\ HeldInv
<1>1. Init => Inv
  BY InitType, InitAllTyped, InitHeld
<1>2. Inv /\ [Next]_vars => Inv'
  BY TypeInvStep, FilesTypedStep, CountsStep, HeldStep
<1>3. Inv => FilesAreRecorded
  BY DEF HeldInv, Clean, EveryFileIsHeld, HeldBase, HeldFile, FilesAreRecorded
<1> QED
  BY <1>1, <1>2, <1>3, PTL DEF Spec

-----------------------------------------------------------------------------
(* What the steps leave alone *)

\* The request or the thread gives, takes or ends a task.
Request ==
  \/ \E h \in HttpThreads, s \in Servers, start \in {"yes", "no"} : PostServer(h, s, start)
  \/ \E h \in HttpThreads, ask \in Asked : AskAction(h, ask[1], ask[2])
  \/ \E task \in {Reload, Exit} : AskThread(task)
  \/ \E h \in HttpThreads : HttpStep(h)

LEMMA TasksStay ==
  ASSUME TypeInv, [Next]_vars
  PROVE  /\ shutDown \subseteq shutDown'
         /\ Looked' \subseteq Looked \/ GetInstance
         /\ \/ Request \/ TakeTask \/ Restart
            \/ UNCHANGED <<queue, http>> /\ req' \in {req, Idle}
<1>1. CASE Quiet
  BY <1>1 DEF Quiet
<1>2. CASE Request
  <2>1. UNCHANGED <<pc, req, shutDown>>
    BY <1>2 DEF Request, PostServer, AskAction, AskThread, HttpStep, NewInstance, InsertTask, DeleteInstance,
                threadVars, taskVars, histVars
  <2> QED
    BY <1>2, <2>1 DEF Looked
<1>3. CASE TakeTask \/ ActTerminate \/ Panic \/ Restart
  <2>1. Looked' = {} /\ shutDown \subseteq shutDown'
    BY <1>3 DEF TakeTask, ActTerminate, Panic, Restart, TaskDone, Looked, histVars
  <2>2. (ActTerminate \/ Panic) => UNCHANGED <<queue, http>> /\ req' = Idle
    BY DEF ActTerminate, Panic, TaskDone
  <2> QED
    BY <1>3, <2>1, <2>2
<1>4. CASE GetInstance
  BY <1>4, Ops DEF GetInstance, Conclude, TaskDone, taskVars, TypeInv, TaskFits
<1>5. CASE ForceOff
  <2>1. UNCHANGED <<queue, http, req, shutDown>> /\ (pc' = pc \/ pc' = "force")
    BY <1>5 DEF ForceOff, MayForceOff, taskVars, histVars
  <2> QED
    BY <2>1 DEF Looked
<1>6. CASE UNCHANGED vars
  BY <1>6 DEF vars, threadVars, taskVars, histVars, Looked
<1>7. CASE Next
  BY <1>1, <1>2, <1>3, <1>4, <1>5, <1>7, ActIsQuiet, LaunchIsQuiet, RestIsQuiet, GuestsAreQuiet
     DEF Next, ThreadStep, Request
<1> QED
  BY <1>6, <1>7

\* Rows, images and db_lock.
LEMMA RowsStay ==
  ASSUME TypeInv, PlacesAreNew, [Next]_vars
  PROVE  /\ \A s \in Servers : row[s] = NoRow /\ row'[s] # NoRow => s \notin born
         /\ image' = image \/ Request \/ ActCreateImage
         /\ lockLost' => \/ lockLost \/ ForceOffFails \/ Panic
                         \/ ActCreateImage /\ (SourceFile = Absent \/ Fault)
<1> USE DEF TypeInv, TablesTyped
<1>1. CASE Request
  <2>1. CASE \E h \in HttpThreads : NewInstance(h)
    <3>1. PICK h \in HttpThreads : NewInstance(h)
      BY <2>1
    <3>2. PICK s : s = http[h].id
      OBVIOUS
    <3>3. s \notin born /\ UNCHANGED <<image, lockLost>>
      BY <3>1, <3>2 DEF NewInstance, PlacesAreNew, threadVars
    <3>4. row' = row \/ \E status : row' = [row EXCEPT ![s] = status]
      BY <3>1, <3>2 DEF NewInstance
    <3> QED
      BY <1>1, <3>3, <3>4
  <2>2. CASE ~\E h \in HttpThreads : NewInstance(h)
    BY <1>1, <2>2 DEF Request, PostServer, AskAction, AskThread, HttpStep, InsertTask, DeleteInstance,
                dbVars, threadVars
  <2> QED
    BY <2>1, <2>2
<1>2. CASE \/ Restart \/ ReplaceImage
           \/ \E s \in Servers, state \in GuestEvents \cup {"none"} : ShutsDown(s, state)
           \/ \E s \in Servers, state \in GuestEvents : GuestEvent(s, state)
  BY <1>2 DEF Restart, ReplaceImage, ShutsDown, GuestEvent, dbVars, threadVars
<1>3. CASE TakeTask \/ ActFails \/ ActStart \/ ActStartRebuild \/ ActRebuild \/ ActTerminate
           \/ ActOther \/ ActCreateImage
  <2>1. CASE TakeTask \/ ActFails \/ ActStart \/ ActStartRebuild \/ ActRebuild \/ ActTerminate \/ ActOther
    <3>1. UNCHANGED <<row, image, lockLost>>
      BY <2>1 DEF TakeTask, ActFails, ActStart, ActStartRebuild, ActRebuild, ActTerminate, ActOther, dbVars
    <3> QED
      BY <3>1
  <2>2. CASE ActCreateImage
    <3>1. UNCHANGED row /\ (UNCHANGED lockLost \/ SourceFile = Absent \/ Fault)
      BY <2>2 DEF ActCreateImage
    <3> QED
      BY <2>2, <3>1
  <2> QED
    BY <1>3, <2>1, <2>2
<1>4. CASE GetInstance \/ PrepareFiles \/ PrepareFilesFails \/ Waited \/ CreateDomain
           \/ WriteStatus \/ Panic
  BY <1>4 DEF GetInstance, PrepareFiles, PrepareFilesFails, Waited, CreateDomain,
              WriteStatus, Panic, dbVars
<1>5. CASE ForceOff \/ EndForceOff \/ ForceOffFails \/ SaveLocalinfo \/ Poll
           \/ (\E s \in Servers : PollWrite(s)) \/ EndThread \/ Load
  <2>1. CASE ForceOff \/ EndForceOff \/ SaveLocalinfo \/ Poll \/ EndThread \/ Load
    <3>1. UNCHANGED <<row, image, lockLost>>
      BY <2>1 DEF ForceOff, EndForceOff, SaveLocalinfo, Poll, EndThread, Load, dbVars
    <3> QED
      BY <3>1
  <2>2. CASE ForceOffFails
    BY <2>2 DEF ForceOffFails, dbVars
  <2>3. CASE \E s \in Servers : PollWrite(s)
    BY <2>3 DEF PollWrite
  <2> QED
    BY <1>5, <2>1, <2>2, <2>3
<1>6. CASE UNCHANGED vars
  BY <1>6 DEF vars, dbVars, threadVars
<1> QED
  BY <1>1, <1>2, <1>3, <1>4, <1>5, <1>6 DEF Next, ThreadStep, Request

\* Disks are of createXML.
LEMMA DiskOfStays ==
  ASSUME [Next]_vars, ~CreateDomain
  PROVE  UNCHANGED diskOf
<1>1. CASE FileStep
  BY <1>1 DEF FileStep, ActTerminate, ForceOff, PrepareFiles, PrepareFilesFails, SaveLocalinfo,
              EndThread, Load, Restart, ReplaceImage, nodeVars
<1> QED
  BY <1>1, FilesStay DEF FilesKept

LEMMA DisksAreBornStep ==
  ASSUME TypeInv, PlacesAreNew, FilesTyped, BornFirst, DisksAreBorn, [Next]_vars
  PROVE  DisksAreBorn'
<1>1. born \subseteq born'
  BY BornStep
<1>2. CASE CreateDomain
  <2>1. req.id \in Looked /\ Looked \subseteq Servers
    BY <1>2, LookedIs DEF CreateDomain
  <2>2. \A s \in Servers : s # req.id => diskOf'[s] = diskOf[s]
    BY <1>2 DEF CreateDomain, FilesTyped
  <2> QED
    BY <1>1, <2>1, <2>2 DEF BornFirst, DisksAreBorn
<1> QED
  BY <1>1, <1>2, DiskOfStays DEF DisksAreBorn

-----------------------------------------------------------------------------
(* db_lock *)

LEMMA ImagesKept ==
  ASSUME ImagesAreAsked, UNCHANGED <<queue, http, image>>, req' \in {req, Idle}
  PROVE  ImagesAreAsked'
<1>1. \A s : MakesImage(req', s) => MakesImage(req, s)
  BY Ops DEF MakesImage, ImageActions
<1> QED
  BY <1>1 DEF ImagesAreAsked, MakesImage

\* A request that asks for an image is the only one for it.
LEMMA AskImage ==
  ASSUME TypeInv, ThreadTyped, ImagesAreAsked,
         NEW h \in HttpThreads, NEW s \in Servers, NEW act \in Actions,
         AskAction(h, s, act)
  PROVE  ImagesAreAsked'
<1>1. /\ http' = [http EXCEPT ![h] = Task(act, s, row[s])] /\ http[h] = Idle
      /\ http \in [HttpThreads -> InstanceTask \cup Placement \cup Deletion \cup {Idle}]
      /\ UNCHANGED <<queue, req>>
  BY DEF AskAction, threadVars, taskVars, TypeInv, TablesTyped
<1>2. \A t : MakesImage(http'[h], t) <=> act \in ImageActions /\ t = s
  BY <1>1 DEF MakesImage, Task
<1>3. \A g \in HttpThreads : g # h => http'[g] = http[g]
  BY <1>1
<1>4. CASE act \notin ImageActions
  <2>1. UNCHANGED image
    BY <1>4 DEF AskAction
  <2>2. \A g \in HttpThreads : \A t : MakesImage(http'[g], t) => MakesImage(http[g], t)
    BY <1>2, <1>3, <1>4
  <2> QED
    BY <1>1, <2>1, <2>2 DEF ImagesAreAsked, MakesImage
<1>5. CASE act \in ImageActions
  <2>1. image[s] = "none" /\ image' = [image EXCEPT ![s] = "BUILD"]
    BY <1>5 DEF AskAction
  <2>2. /\ \A g \in HttpThreads : ~MakesImage(http[g], s)
        /\ \A i \in DOMAIN queue : ~MakesImage(queue[i], s)
        /\ ~MakesImage(req, s)
    BY <2>1 DEF ImagesAreAsked
  <2>3. \A t \in Servers : image[t] = "BUILD" => image'[t] = "BUILD"
    BY <2>1
  <2>4. \A t \in Servers : t # s => \A g \in HttpThreads : MakesImage(http'[g], t) => MakesImage(http[g], t)
    BY <1>2, <1>3
  <2>5. (\E g \in HttpThreads : MakesImage(http'[g], s)) => image'[s] = "BUILD"
    BY <2>1 DEF ThreadTyped
  <2> QED
    BY <1>1, <1>2, <1>3, <2>2, <2>3, <2>4, <2>5 DEF ImagesAreAsked, MakesImage
<1> QED
  BY <1>4, <1>5

\* Its task is queued,
LEMMA InsertImage ==
  ASSUME TypeInv, ImagesAreAsked, NEW h \in HttpThreads, InsertTask(h)
  PROVE  ImagesAreAsked'
<1>1. /\ queue' = Append(queue, http[h]) /\ UNCHANGED <<image, req>>
      /\ http[h] \in InstanceTask
      /\ queue \in Seq(InstanceTask \cup {Reload, Exit})
      /\ http \in [HttpThreads -> InstanceTask \cup Placement \cup Deletion \cup {Idle}]
  BY Ops DEF InsertTask, dbVars, taskVars, TypeInv, TablesTyped
<1>2. PICK n :
        /\ n \in DOMAIN queue' /\ queue'[n] = http[h]
        /\ \A i \in DOMAIN queue : i \in DOMAIN queue' /\ queue'[i] = queue[i] /\ i < n
        /\ \A i \in DOMAIN queue' : i = n \/ (i \in DOMAIN queue /\ queue'[i] = queue[i])
  BY <1>1, Appended
<1>3. /\ \A s : ~MakesImage(http'[h], s)
      /\ \A g \in HttpThreads : g # h => http'[g] = http[g]
  BY <1>1, Ops DEF InsertTask, MakesImage, ImageActions
<1> SUFFICES ASSUME NEW s \in Servers
             PROVE  /\ (\E g \in HttpThreads : MakesImage(http'[g], s)) =>
                         /\ image[s] = "BUILD"
                         /\ \A f, g \in HttpThreads :
                              MakesImage(http'[f], s) /\ MakesImage(http'[g], s) => f = g
                         /\ \A i \in DOMAIN queue' : ~MakesImage(queue'[i], s)
                         /\ ~MakesImage(req, s)
                    /\ (\E i \in DOMAIN queue' : MakesImage(queue'[i], s)) =>
                         /\ image[s] = "BUILD"
                         /\ \A i, j \in DOMAIN queue' :
                              MakesImage(queue'[i], s) /\ MakesImage(queue'[j], s) => i = j
                         /\ ~MakesImage(req, s)
                    /\ MakesImage(req, s) => image[s] = "BUILD"
  BY <1>1 DEF ImagesAreAsked, MakesImage
<1>4. CASE MakesImage(http[h], s)
  <2>1. /\ image[s] = "BUILD" /\ ~MakesImage(req, s)
        /\ \A i \in DOMAIN queue : ~MakesImage(queue[i], s)
        /\ \A g \in HttpThreads : g # h => ~MakesImage(http[g], s)
    BY <1>4 DEF ImagesAreAsked
  <2> QED
    BY <1>2, <1>3, <2>1
<1>5. CASE ~MakesImage(http[h], s)
  <2>1. \A i \in DOMAIN queue' : MakesImage(queue'[i], s) => i \in DOMAIN queue /\ MakesImage(queue[i], s)
    BY <1>2, <1>5
  <2>2. \A g \in HttpThreads : MakesImage(http'[g], s) => MakesImage(http[g], s)
    BY <1>3
  <2> QED
    BY <2>1, <2>2 DEF ImagesAreAsked
<1> QED
  BY <1>4, <1>5

\* and taken.
LEMMA TakeImage ==
  ASSUME TypeInv, ImagesAreAsked, TakeTask
  PROVE  ImagesAreAsked'
<1>1. UNCHANGED <<http, image>> /\ req' = Head(queue) /\ queue' = Tail(queue) /\ queue # << >>
  BY DEF TakeTask, dbVars
<1>2. /\ \A i \in DOMAIN queue' : i + 1 \in DOMAIN queue /\ queue[i + 1] = queue'[i]
      /\ 1 \in DOMAIN queue /\ queue[1] = req'
      /\ DOMAIN queue' \subseteq Nat \ {0}
  BY <1>1, TakenAt DEF TypeInv, TablesTyped
<1> SUFFICES ASSUME NEW s \in Servers
             PROVE  /\ (\E g \in HttpThreads : MakesImage(http[g], s)) =>
                         /\ \A i \in DOMAIN queue' : ~MakesImage(queue'[i], s)
                         /\ ~MakesImage(req', s)
                    /\ (\E i \in DOMAIN queue' : MakesImage(queue'[i], s)) =>
                         /\ image[s] = "BUILD"
                         /\ \A i, j \in DOMAIN queue' :
                              MakesImage(queue'[i], s) /\ MakesImage(queue'[j], s) => i = j
                         /\ ~MakesImage(req', s)
                    /\ MakesImage(req', s) => image[s] = "BUILD"
  BY <1>1 DEF ImagesAreAsked, MakesImage
<1>3. \A i \in DOMAIN queue' : MakesImage(queue'[i], s) => i + 1 \in DOMAIN queue /\ MakesImage(queue[i + 1], s)
  BY <1>2
<1>4. MakesImage(req', s) => MakesImage(queue[1], s)
  BY <1>2
<1>5. \A i, j \in DOMAIN queue : MakesImage(queue[i], s) /\ MakesImage(queue[j], s) => i = j /\ image[s] = "BUILD"
  BY DEF ImagesAreAsked
<1>6. \A i, j \in DOMAIN queue' : MakesImage(queue'[i], s) /\ MakesImage(queue'[j], s) => i = j
  BY <1>2, <1>3, <1>5
<1>7. \A i \in DOMAIN queue' : MakesImage(queue'[i], s) => ~MakesImage(req', s)
  BY <1>2, <1>3, <1>4, <1>5
<1>8. \A g \in HttpThreads : MakesImage(http[g], s) => \A i \in DOMAIN queue : ~MakesImage(queue[i], s)
  BY DEF ImagesAreAsked
<1> QED
  BY <1>2, <1>3, <1>4, <1>5, <1>6, <1>7, <1>8

LEMMA ImagesAreAskedStep ==
  ASSUME TypeInv, PlacesAreNew, ThreadTyped, ImagesAreAsked, [Next]_vars
  PROVE  ImagesAreAsked'
<1>1. CASE \E h \in HttpThreads, s \in Servers, start \in {"yes", "no"} : PostServer(h, s, start)
  <2>1. PICK h \in HttpThreads, s \in Servers : \E start \in {"yes", "no"} : PostServer(h, s, start)
    BY <1>1
  <2>2. /\ UNCHANGED <<queue, image, req>>
        /\ \A g \in HttpThreads : \A t : MakesImage(http'[g], t) => MakesImage(http[g], t)
    BY <2>1 DEF PostServer, dbVars, threadVars, taskVars, TypeInv, TablesTyped, MakesImage, ImageActions, Task
  <2> QED
    BY <2>2 DEF ImagesAreAsked, MakesImage
<1>2. CASE \E h \in HttpThreads, ask \in Asked : AskAction(h, ask[1], ask[2])
  <2>1. \A ask \in Asked : ask[1] \in Servers /\ ask[2] \in Actions
    BY ServersAreTyped
  <2> QED
    BY <1>2, <2>1, AskImage
<1>3. CASE \E task \in {Reload, Exit} : AskThread(task)
  <2>1. PICK task \in {Reload, Exit} : AskThread(task)
    BY <1>3
  <2>2. UNCHANGED <<http, image, req>> /\ queue' = Append(queue, task)
    BY <2>1 DEF AskThread, dbVars, taskVars
  <2>3. \A i \in DOMAIN queue' : queue'[i] = task \/ (i \in DOMAIN queue /\ queue'[i] = queue[i])
    BY <2>2, Appended DEF TypeInv, TablesTyped
  <2>4. \A i \in DOMAIN queue' : \A s :
          MakesImage(queue'[i], s) => i \in DOMAIN queue /\ MakesImage(queue[i], s)
    BY <2>3, Ops DEF MakesImage, ImageActions
  <2> QED
    BY <2>2, <2>4 DEF ImagesAreAsked, MakesImage
<1>4. CASE \E h \in HttpThreads : InsertTask(h)
  BY <1>4, InsertImage
<1>5. CASE \E h \in HttpThreads : DeleteInstance(h)
  <2>1. PICK h \in HttpThreads : DeleteInstance(h)
    BY <1>5
  <2>2. /\ UNCHANGED <<queue, image, req>>
        /\ \A g \in HttpThreads : \A t : MakesImage(http'[g], t) => MakesImage(http[g], t)
    BY <2>1, Ops DEF DeleteInstance, threadVars, taskVars, TypeInv, TablesTyped, MakesImage, ImageActions
  <2> QED
    BY <2>2 DEF ImagesAreAsked, MakesImage
<1>6. CASE \E h \in HttpThreads : NewInstance(h)
  <2>1. PICK h \in HttpThreads : NewInstance(h)
    BY <1>6
  <2>2. PICK s : s = http[h].id
    OBVIOUS
  <2>3. UNCHANGED <<queue, image, req>>
    BY <2>1 DEF NewInstance, threadVars, taskVars
  <2>4. \/ http' = [http EXCEPT ![h] = Idle]
        \/ \E status : http' = [http EXCEPT ![h] = Task("start", s, status)]
    BY <2>1, <2>2 DEF NewInstance
  <2>5. \A g \in HttpThreads : \A t : MakesImage(http'[g], t) => MakesImage(http[g], t)
    BY <2>4, Ops DEF TypeInv, TablesTyped, MakesImage, ImageActions, Task
  <2> QED
    BY <2>3, <2>5 DEF ImagesAreAsked, MakesImage
<1>7. CASE TakeTask
  BY <1>7, TakeImage
<1>8. CASE Restart
  <2>1. /\ DOMAIN queue' = {} /\ req' = Idle /\ \A h \in HttpThreads : http'[h] = Idle
    BY <1>8 DEF Restart
  <2> QED
    BY <2>1, Ops DEF ImagesAreAsked, MakesImage, ImageActions
<1>9. CASE ActCreateImage
  <2>1. /\ UNCHANGED <<queue, http>> /\ req' = Idle /\ MakesImage(req, req.id) /\ req.id \in Servers
        /\ \A s \in Servers : s # req.id => image'[s] = image[s]
    BY <1>9, Ops DEF ActCreateImage, MakeImage, TaskDone, MakesImage, TypeInv, TaskFits, ThreadTyped
  <2> QED
    BY <2>1, Ops DEF ImagesAreAsked, MakesImage, ImageActions
<1>10. CASE UNCHANGED <<queue, http, image>> /\ req' \in {req, Idle}
  BY <1>10, ImagesKept
<1> QED
  BY <1>1, <1>2, <1>3, <1>4, <1>5, <1>7, <1>8, <1>9, <1>10, <1>6, TasksStay, RowsStay DEF Request, HttpStep

\* What is known of a server asked so is kept,
LEMMA MisnamedStays ==
  ASSUME [Next]_vars
  PROVE  misnamed \subseteq misnamed'
<1>1. CASE Request
  BY <1>1 DEF Request, PostServer, AskAction, AskThread, HttpStep, NewInstance, InsertTask, DeleteInstance,
              histVars
<1>2. CASE \/ Restart \/ ReplaceImage
           \/ \E s \in Servers, state \in GuestEvents \cup {"none"} : ShutsDown(s, state)
           \/ \E s \in Servers, state \in GuestEvents : GuestEvent(s, state)
  BY <1>2 DEF Restart, ReplaceImage, ShutsDown, GuestEvent, histVars
<1>3. CASE TakeTask \/ ActFails \/ ActStart \/ ActStartRebuild \/ ActRebuild \/ ActTerminate
           \/ ActOther \/ ActCreateImage
  BY <1>3 DEF TakeTask, ActFails, ActStart, ActStartRebuild, ActRebuild, ActTerminate,
              ActOther, ActCreateImage, histVars
<1>4. CASE GetInstance \/ PrepareFiles \/ PrepareFilesFails \/ Waited \/ CreateDomain
           \/ WriteStatus \/ Panic
  BY <1>4 DEF GetInstance, PrepareFiles, PrepareFilesFails, Waited, CreateDomain,
              WriteStatus, Panic, histVars
<1>5. CASE ForceOff \/ EndForceOff \/ ForceOffFails \/ SaveLocalinfo \/ Poll
           \/ (\E s \in Servers : PollWrite(s)) \/ EndThread \/ Load
  BY <1>5 DEF ForceOff, EndForceOff, ForceOffFails, SaveLocalinfo, Poll, PollWrite, EndThread, Load, histVars
<1>6. CASE UNCHANGED vars
  BY <1>6 DEF vars, histVars
<1> QED
  BY <1>1, <1>2, <1>3, <1>4, <1>5, <1>6 DEF Next, ThreadStep, Request

\* so each of the tasks is of one of them.
LEMMA RefsStep ==
  ASSUME TypeInv, RefsAreMisnamed, [Next]_vars
  PROVE  RefsAreMisnamed'
<1>1. \A t : NamesRef(t) => (t.op = "createImageRef" => t.id \in misnamed')
  BY MisnamedStays DEF NamesRef
<1>2. \A t \in {Idle, Reload, Exit} : t.op # "createImageRef"
  BY Ops
<1>3. CASE UNCHANGED <<queue, http>> /\ req' \in {req, Idle}
  BY <1>1, <1>2, <1>3 DEF RefsAreMisnamed, NamesRef
<1>4. CASE TakeTask
  <2>1. UNCHANGED http /\ req' = Head(queue) /\ queue' = Tail(queue) /\ queue # << >>
    BY <1>4 DEF TakeTask
  <2>2. /\ \A i \in DOMAIN queue' : i + 1 \in DOMAIN queue /\ queue[i + 1] = queue'[i]
        /\ 1 \in DOMAIN queue /\ queue[1] = req'
    BY <2>1, TakenAt DEF TypeInv, TablesTyped
  <2> QED
    BY <1>1, <2>1, <2>2 DEF RefsAreMisnamed, NamesRef
<1>5. CASE Restart
  <2>1. DOMAIN queue' = {} /\ req' = Idle /\ \A h \in HttpThreads : http'[h] = Idle
    BY <1>5 DEF Restart
  <2> QED
    BY <1>2, <2>1 DEF RefsAreMisnamed, NamesRef
<1>6. CASE Request
  <2>1. UNCHANGED req
    BY <1>6 DEF Request, PostServer, AskAction, AskThread, HttpStep, NewInstance, InsertTask, DeleteInstance,
                threadVars, taskVars
  <2>2. CASE \E task \in {Reload, Exit} : AskThread(task)
    <3>1. PICK task \in {Reload, Exit} : AskThread(task)
      BY <2>2
    <3>2. UNCHANGED http /\ queue' = Append(queue, task)
      BY <3>1 DEF AskThread
    <3>3. \A i \in DOMAIN queue' : queue'[i] = task \/ (i \in DOMAIN queue /\ queue'[i] = queue[i])
      BY <3>2, Appended DEF TypeInv, TablesTyped
    <3> QED
      BY <1>1, <1>2, <2>1, <3>2, <3>3 DEF RefsAreMisnamed, NamesRef
  <2>3. CASE \E h \in HttpThreads : InsertTask(h)
    <3>1. PICK h \in HttpThreads : InsertTask(h)
      BY <2>3
    <3>2. queue' = Append(queue, http[h]) /\ http[h] \in InstanceTask
      BY <3>1, Ops DEF InsertTask, TypeInv, TablesTyped
    <3>3. \A i \in DOMAIN queue' : queue'[i] = http[h] \/ (i \in DOMAIN queue /\ queue'[i] = queue[i])
      BY <3>2, Appended DEF TypeInv, TablesTyped
    <3>4. \A g \in HttpThreads : http'[g] = http[g] \/ http'[g].op # "createImageRef"
      BY <3>1, <1>2 DEF InsertTask, TypeInv, TablesTyped
    <3> QED
      BY <1>1, <2>1, <3>3, <3>4 DEF RefsAreMisnamed, NamesRef
  <2>4. CASE \E h \in HttpThreads, ask \in Asked : AskAction(h, ask[1], ask[2])
    <3>1. PICK h \in HttpThreads, ask \in Asked : AskAction(h, ask[1], ask[2])
      BY <2>4
    <3>2. PICK s : s = ask[1]
      OBVIOUS
    <3>3. PICK act : act = ask[2]
      OBVIOUS
    <3>4. /\ UNCHANGED queue
          /\ act = "createImageRef" => s \in misnamed'
          /\ http' = [http EXCEPT ![h] = Task(act, s, row[s])]
      BY <3>1, <3>2, <3>3 DEF AskAction, threadVars
    <3>5. \A g \in HttpThreads : http'[g] = http[g] \/ (http'[g].op = act /\ http'[g].id = s)
      BY <3>4 DEF Task, TypeInv, TablesTyped
    <3> QED
      BY <1>1, <2>1, <3>4, <3>5 DEF RefsAreMisnamed, NamesRef
  <2>5. CASE \/ \E h \in HttpThreads, s \in Servers, start \in {"yes", "no"} : PostServer(h, s, start)
             \/ \E h \in HttpThreads : NewInstance(h) \/ DeleteInstance(h)
    <3>1. UNCHANGED queue
      BY <2>5 DEF PostServer, NewInstance, DeleteInstance, threadVars
    <3>2. \A g \in HttpThreads : http'[g] = http[g] \/ http'[g].op # "createImageRef"
      BY <2>5, <1>2 DEF PostServer, NewInstance, DeleteInstance, Task, TypeInv, TablesTyped
    <3> QED
      BY <1>1, <2>1, <3>1, <3>2 DEF RefsAreMisnamed, NamesRef
  <2> QED
    BY <1>6, <2>2, <2>3, <2>4, <2>5 DEF Request, HttpStep
<1> QED
  BY <1>3, <1>4, <1>5, <1>6, TasksStay

LEMMA AskedStep ==
  ASSUME TypeInv, PlacesAreNew, BornFirst, ThreadTyped, AskedInv, [Next]_vars
  PROVE  AskedInv'
<1>1. ImagesAreAsked' /\ RefsAreMisnamed'
  BY ImagesAreAskedStep, RefsStep DEF AskedInv
<1>2. ASSUME NEW s \in Servers, image'[s] # "none" PROVE s \in born'
  <2>1. born \subseteq born'
    BY BornStep
  <2>2. CASE image[s] # "none"
    BY <2>1, <2>2 DEF AskedInv, ImagesAreOfBorn
  <2>3. CASE image[s] = "none" /\ ActCreateImage
    <3>1. image[req.id] = "BUILD" /\ req.id \in Servers
      BY <2>3, Ops DEF ActCreateImage, AskedInv, ImagesAreAsked, MakesImage, TypeInv, TaskFits
    <3>2. image'[s] = image[s]
      BY <2>3, <3>1 DEF ActCreateImage, MakeImage, ThreadTyped
    <3> QED
      BY <1>2, <2>3, <3>2
  <2>4. CASE image[s] = "none" /\ Request
    <3>1. PICK h \in HttpThreads, ask \in Asked : AskAction(h, ask[1], ask[2])
      BY <1>2, <2>4 DEF Request, PostServer, AskThread, HttpStep, NewInstance, InsertTask, DeleteInstance, dbVars
    <3>2. PICK t : t = ask[1]
      OBVIOUS
    <3>3. row[t] # NoRow /\ (image' = image \/ image' = [image EXCEPT ![t] = "BUILD"])
      BY <3>1, <3>2 DEF AskAction
    <3>4. s = t
      BY <1>2, <2>4, <3>3 DEF ThreadTyped
    <3> QED
      BY <2>1, <3>3, <3>4 DEF BornFirst
  <2> QED
    BY <1>2, <2>2, <2>3, <2>4, RowsStay
<1> QED
  BY <1>1, <1>2 DEF AskedInv, ImagesAreOfBorn

\* A terminate fails for the second time only if something has failed.
LEMMA NoPanicStep ==
  ASSUME TypeInv, CountsTyped, NoPanic, [Next]_vars
  PROVE  NoPanic'
<1> SUFFICES ASSUME Clean', pc' = "panic" PROVE FALSE
  BY DEF NoPanic
<1>1. Clean /\ ~Fault /\ pc # "panic"
  <2>1. Clean /\ UNCHANGED <<faults, crashes>>
    BY CountsStep
  <2> QED
    BY <2>1 DEF Fault, CountsTyped, NoPanic
<1>2. \A status : Conclude(status) => req.op = "terminate"
  BY DEF Conclude, TaskDone
<1>3. ThreadStep
  BY <1>1 DEF PostServer, AskAction, AskThread, HttpStep, NewInstance, InsertTask, DeleteInstance, ShutsDown,
         GuestEvent, ReplaceImage, Restart, threadVars, Next, vars
<1>4. ~ActFails
  BY <1>1 DEF ActFails, Clean, CountsTyped
<1>5. ~(TakeTask \/ ActStartRebuild \/ ActTerminate \/ ActCreateImage)
  BY <1>1 DEF TakeTask, ActStartRebuild, ActTerminate, ActCreateImage, TaskDone
<1>6. ~(ActStart \/ ActRebuild)
  <2>1. ActStart => pc' = "read" \/ Conclude("ACTIVE") \/ Conclude("ERROR")
    <3>1. ActStart => machine[req.id] \in MachineStates
      BY Ops DEF ActStart, TypeInv, TablesTyped, TaskFits
    <3> QED
      BY <3>1 DEF ActStart, MachineStates, Live
  <2>2. ActRebuild => pc' = "read" \/ Conclude("ERROR")
    BY DEF ActRebuild
  <2> QED
    BY <1>2, <2>1, <2>2 DEF ActStart, ActRebuild
<1>7. ~ActOther
  <2>1. ActOther => TaskDone \/ (Conclude("ERROR") /\ req.op = "shutoff")
    BY DEF ActOther
  <2> QED
    BY <1>2, <2>1 DEF TaskDone
<1>8. ~(GetInstance \/ PrepareFiles \/ PrepareFilesFails \/ Waited \/ CreateDomain)
  <2>1. pc \in {"read", "files", "create"} => req.op # "terminate"
    BY Ops DEF TypeInv, TaskFits
  <2> QED
    BY <1>2, <2>1 DEF GetInstance, PrepareFiles, PrepareFilesFails, Waited, CreateDomain
<1>9. ~(WriteStatus \/ Panic \/ ForceOff \/ EndForceOff \/ ForceOffFails)
  BY <1>1 DEF WriteStatus, Panic, ForceOff, EndForceOff, ForceOffFails, MayForceOff, TaskDone
<1>10. ~(SaveLocalinfo \/ Poll \/ (\E s \in Servers : PollWrite(s)) \/ EndThread \/ Load)
  BY <1>1 DEF SaveLocalinfo, Poll, PollWrite, EndThread, Load
<1> QED
  BY <1>3, <1>4, <1>5, <1>6, <1>7, <1>8, <1>9, <1>10 DEF ThreadStep

LEMMA DisksAreHeldStep ==
  ASSUME IInv, BornFirst, FilesTyped, CountsTyped, HeldInv, DisksAreBorn, DisksAreHeld, [Next]_vars
  PROVE  DisksAreHeld'
<1> SUFFICES ASSUME Clean', NEW s \in Servers, diskOf'[s] # Absent, s \notin shutDown', row'[s] # NoRow
             PROVE  HeldFile'[s] # Absent
  BY DEF DisksAreHeld
<1>1. TypeInv /\ PlacesAreNew /\ PendingIsShutDown
  BY DEF IInv, RunawayInv
<1>2. /\ Clean /\ LocalinfoIsSaved /\ ~Fault /\ crashes' = crashes
  <2>1. Clean /\ UNCHANGED <<faults, crashes>>
    BY CountsStep
  <2> QED
    BY <2>1 DEF HeldInv, Fault, CountsTyped
<1>3. CASE CreateDomain
  <2>1. pc = "create" /\ UNCHANGED <<record, row>> /\ pc' # "load"
    BY <1>3 DEF CreateDomain, Conclude, TaskDone, memVars, dbVars
  <2>2. CASE diskOf'[s] = diskOf[s]
    BY <1>1, <1>2, <2>1, <2>2, TasksStay DEF DisksAreHeld, HeldFile
  <2>3. CASE diskOf'[s] # diskOf[s]
    <3>1. s = req.id /\ Usable(disk, record[req.id])
      BY <1>3, <2>3 DEF CreateDomain, FilesTyped
    <3> QED
      BY <2>1, <3>1 DEF Usable, HeldFile
  <2> QED
    BY <2>2, <2>3
<1>4. CASE ~CreateDomain
  <2>1. diskOf[s] # Absent /\ s \notin shutDown
    BY <1>1, <1>4, DiskOfStays, TasksStay
  <2>2. row[s] # NoRow
    BY <1>1, <2>1, RowsStay DEF DisksAreBorn
  <2>3. HeldFile[s] # Absent
    BY <1>2, <2>1, <2>2 DEF DisksAreHeld
  <2>4. CASE ActTerminate
    <3>1. pc = "act" /\ pc' = "idle" /\ s # req.id
      BY <2>4 DEF ActTerminate, TaskDone
    <3>2. UNCHANGED record \/ record' = [record EXCEPT ![req.id] = Absent]
      BY <2>4 DEF ActTerminate, Forget
    <3> QED
      BY <2>3, <3>1, <3>2 DEF HeldFile, FilesTyped
  <2>5. CASE ForceOff
    <3>1. pc # "load" /\ pc' # "load" /\ record' = [record EXCEPT ![Head(pending)] = Absent]
      BY <2>5 DEF ForceOff, MayForceOff, Forget
    <3>2. Head(pending) \in shutDown
      BY <1>1, <2>5 DEF ForceOff, MayForceOff, PendingIsShutDown, TypeInv, TablesTyped
    <3> QED
      BY <2>1, <2>3, <3>1, <3>2 DEF HeldFile, FilesTyped
  <2>6. CASE PrepareFiles
    <3>1. pc = "files" /\ pc' # "load" /\ record \in [Servers -> FileOrNone]
      BY <2>6 DEF PrepareFiles, FilesTyped
    <3>2. UNCHANGED record \/ \E f \in Files : record' = [record EXCEPT ![req.id] = f]
      BY <1>1, <2>6, PreparedIs DEF Made
    <3> QED
      BY <2>3, <3>1, <3>2, ServersAreTyped DEF HeldFile
  <2>7. CASE PrepareFilesFails
    BY <1>2, <2>7 DEF PrepareFilesFails
  <2>8. CASE SaveLocalinfo
    BY <1>2, <2>3, <2>8 DEF SaveLocalinfo, Saved, HeldFile
  <2>9. CASE EndThread
    BY <1>2, <2>3, <2>9 DEF EndThread, Saved, LocalinfoIsSaved, HeldFile
  <2>10. CASE Load
    <3>1. /\ LoadFiles(savedFile, savedBase, Rows, {}) /\ pc = "load" /\ pc' = "idle"
      BY <1>2, <2>10 DEF Load
    <3>2. Rows[s] # NoStatus
      BY <1>1, <2>2, ServersAreTyped DEF Rows, TypeInv, TablesTyped
    <3>3. record'[s] = savedFile[s]
      BY <3>1, <3>2 DEF LoadFiles
    <3> QED
      BY <2>3, <3>1, <3>3 DEF HeldFile
  <2>11. CASE Restart
    <3>1. pc = "stopped"
      BY <1>2, <2>11 DEF Restart, CountsTyped
    <3> QED
      BY <1>2, <2>3, <2>11, <3>1 DEF Restart, nodeVars, LocalinfoIsSaved, HeldFile
  <2>12. CASE ReplaceImage
    BY <2>3, <2>12 DEF ReplaceImage, threadVars, memVars, HeldFile
  <2>13. CASE ~FileStep
    <3>1. UNCHANGED <<record, savedFile>>
      BY <2>13, FilesStay DEF FilesKept
    <3>2. ~ForceOffFails
      BY <1>2 DEF ForceOffFails
    <3>3. pc' = "load" <=> pc = "load"
      BY <1>1, <2>13, <3>2, EndsAre, LoadingStays DEF FileStep
    <3> QED
      BY <2>3, <3>1, <3>3 DEF HeldFile
  <2> QED
    BY <1>4, <2>4, <2>5, <2>6, <2>7, <2>8, <2>9, <2>10, <2>11, <2>12, <2>13 DEF FileStep
<1> QED
  BY <1>3, <1>4

LEMMA LockStep ==
  ASSUME IInv, BornFirst, ThreadTyped, FilesTyped, CountsTyped, DisksAreHeld, LockInv, [Next]_vars
  PROVE  LockInv'
<1>1. TypeInv /\ PlacesAreNew
  BY DEF IInv
<1>2. AskedInv' /\ NoPanic'
  BY <1>1, AskedStep, NoPanicStep DEF LockInv
<1> SUFFICES ASSUME Clean', lockLost' PROVE LostIsQuiet' /\ LockLostOnlyBy'
  BY <1>2 DEF LockInv, LostIsQuiet, LockLostOnlyBy, Clean
<1>3. Clean /\ ~Fault
  <2>1. Clean /\ UNCHANGED <<faults, crashes>>
    BY CountsStep
  <2> QED
    BY <2>1 DEF Fault, CountsTyped
<1>4. CASE lockLost
  <2>1. Looked' = {}
    <3>1. Looked = {} /\ ~GetInstance
      BY <1>3, <1>4 DEF LockInv, LostIsQuiet, GetInstance
    <3> QED
      BY <1>1, <3>1, TasksStay
  <2>2. PICK s \in Servers :
          /\ image[s] = "BUILD"
          /\ diskOf[s] = Absent \/ s \in shutDown \/ row[s] = NoRow \/ s \in misnamed
    BY <1>3, <1>4 DEF LockInv, LockLostOnlyBy, Clean
  <2>3. ~CreateDomain
    BY <1>1, <1>3, <1>4, LookedIs DEF LockInv, LostIsQuiet, CreateDomain
  <2>4. image'[s] = "BUILD"
    <3>1. CASE Request
      <4>1. image' = image \/ \E t : image[t] = "none" /\ image' = [image EXCEPT ![t] = "BUILD"]
        BY <3>1 DEF Request, PostServer, AskAction, AskThread, HttpStep, NewInstance, InsertTask, DeleteInstance, dbVars
      <4> QED
        BY <2>2, <4>1 DEF ThreadTyped
    <3> QED
      BY <1>1, <1>4, <2>2, <3>1, RowsStay DEF ActCreateImage
  <2>5. s \in born
    BY <2>2 DEF LockInv, AskedInv, ImagesAreOfBorn
  <2>6. diskOf'[s] = Absent \/ s \in shutDown' \/ row'[s] = NoRow \/ s \in misnamed'
    BY <1>1, <2>2, <2>3, <2>5, DiskOfStays, TasksStay, RowsStay, MisnamedStays
  <2> QED
    BY <2>1, <2>4, <2>6 DEF LostIsQuiet, LockLostOnlyBy
<1>5. CASE ~lockLost
  <2>1. ActCreateImage /\ SourceFile = Absent
    BY <1>1, <1>3, <1>5, RowsStay DEF ForceOffFails, Panic, LockInv, NoPanic
  <2>2. /\ req.id \in Servers /\ MakesImage(req, req.id) /\ pc = "act" /\ pc' = "idle"
        /\ UNCHANGED <<row, image, diskOf, shutDown, misnamed>>
    BY <1>1, <1>3, <1>5, <2>1, Ops
       DEF ActCreateImage, MakeImage, TaskDone, MakesImage, nodeVars, TypeInv, TaskFits
  <2>3. image[req.id] = "BUILD"
    BY <2>2 DEF LockInv, AskedInv, ImagesAreAsked
  <2>4. diskOf[req.id] = Absent \/ req.id \in shutDown \/ row[req.id] = NoRow \/ req.id \in misnamed
    <3>1. CASE req.op = "createImage"
      BY <1>3, <2>1, <2>2, <3>1 DEF DisksAreHeld, HeldFile, SourceFile
    <3>2. CASE req.op = "createImageRef"
      BY <3>2 DEF LockInv, AskedInv, RefsAreMisnamed, NamesRef
    <3> QED
      BY <2>2, <3>1, <3>2 DEF MakesImage, ImageActions
  <2>5. LockLostOnlyBy'
    BY <2>2, <2>3, <2>4 DEF LockLostOnlyBy
  <2>6. LostIsQuiet'
    BY <2>2 DEF LostIsQuiet, Looked
  <2> QED
    BY <2>5, <2>6
<1> QED
  BY <1>4, <1>5

\* Without failures and stops db_lock is lost only by the request for an image
\* of a server that has no files to make it of, or with the imageRef of another.
THEOREM LockIsKept == Spec => []LockLostOnlyBy
<1> DEFINE Inv == /\ IInv /\ BornFirst /\ ThreadTyped /\ FilesTyped /\ CountsTyped
                  /\ HeldInv /\ DisksAreBorn /\ DisksAreHeld /\ LockInv
<1>1. Init => Inv
  BY InitType, InitPlaces, InitRunaway, InitCores, InitAllTyped, InitHeld DEF IInv
<1>2. Inv /\ [Next]_vars => Inv'
  <2> SUFFICES ASSUME Inv, [Next]_vars PROVE Inv'
    OBVIOUS
  <2>1. TypeInv /\ PlacesAreNew /\ IInv'
    BY TypeInvStep, PlacesStep, RunawayStep DEF IInv
  <2>2. BornFirst' /\ ThreadTyped' /\ FilesTyped' /\ CountsTyped' /\ HeldInv'
    BY <2>1, BornStep, ThreadTypedStep, FilesTypedStep, CountsStep, HeldStep
  <2>3. DisksAreBorn' /\ DisksAreHeld' /\ LockInv'
    BY <2>1, DisksAreBornStep, DisksAreHeldStep, LockStep
  <2> QED
    BY <2>1, <2>2, <2>3
<1>3. Inv => LockLostOnlyBy
  BY DEF LockInv
<1> QED
  BY <1>1, <1>2, <1>3, PTL DEF Spec
=============================================================================
