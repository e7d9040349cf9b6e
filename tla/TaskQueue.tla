----------------------------- MODULE TaskQueue -----------------------------
(***************************************************************************)
(* The task queue of a worker thread: insert_task, called by the http      *)
(* threads and by the service, and the head of the loop in run, which      *)
(* takes the tasks.  host_thread, openflow_thread and dhcp_thread hold the *)
(* same code.                                                              *)
(*                                                                         *)
(* The queue is a Queue.Queue(2000) guarded by a second lock, queueLock,   *)
(* that both sides hold around their queue operation.  insert_task waits   *)
(* for room (put with a timeout of 5 s) while it holds queueLock; when the *)
(* wait ends in Queue.Full it returns -1 without releasing the lock.       *)
(*                                                                         *)
(* Abstracted: the contents of a task, apart from whether it is "exit"     *)
(* (the worker returns from run) or work; what processing a task does (see *)
(* OpenflowThread); the sleep of an idle worker.                           *)
(***************************************************************************)
EXTENDS Naturals, Sequences

CONSTANTS
  Producers,  \* threads that insert tasks
  Worker,     \* the thread that runs run()
  Nobody,     \* holder of a free queueLock
  WorkTasks,  \* tasks the worker processes and forgets
  Exit,       \* the 'exit' task
  NoTask,     \* the None of run, and no call in progress
  Capacity,   \* size of the queue (2000 in the code)
  MaxInserts  \* bound: number of calls of insert_task in a behaviour

ASSUME ThreadsAreDistinct ==
  /\ Worker \notin Producers
  /\ Nobody \notin Producers \cup {Worker}

ASSUME TasksAreDistinct ==
  /\ Exit \notin WorkTasks
  /\ NoTask \notin WorkTasks \cup {Exit}

ASSUME CapacityIsPositive == Capacity \in Nat \ {0}

Tasks == WorkTasks \cup {Exit}

VARIABLES
  queueLock,  \* who holds it
  taskQueue,  \* tasks inserted and not taken yet
  prodPc,     \* prodPc[p]: where p is in insert_task
  call,       \* call[p]: the task of the call in progress
  answer,     \* answer[p]: what the last call of p returned
  workerPc,   \* where the worker is in the loop of run
  task,       \* the local variable task of run
  taken,      \* history: the tasks taken from the queue
  done,       \* history: number of tasks whose processing has ended
  inserts     \* history: number of calls so far

lockVars   == <<queueLock, taskQueue>>
prodVars   == <<prodPc, call, answer, inserts>>
workerVars == <<workerPc, task, taken, done>>
vars == <<lockVars, prodVars, workerVars>>

Init ==
  /\ queueLock = Nobody
  /\ taskQueue = << >>
  /\ prodPc = [p \in Producers |-> "idle"]
  /\ call = [p \in Producers |-> NoTask]
  /\ answer = [p \in Producers |-> "none"]
  /\ workerPc = "acquire"
  /\ task = NoTask
  /\ taken = << >>
  /\ done = 0
  /\ inserts = 0

-----------------------------------------------------------------------------
(* insert_task *)

Call(p, t) ==
  /\ prodPc[p] = "idle"
  /\ inserts < MaxInserts
  /\ inserts' = inserts + 1
  /\ call' = [call EXCEPT ![p] = t]
  /\ prodPc' = [prodPc EXCEPT ![p] = "acquire"]
  /\ UNCHANGED <<lockVars, answer, workerVars>>

AcquireToPut(p) ==
  /\ prodPc[p] = "acquire"
  /\ queueLock = Nobody
  /\ queueLock' = p
  /\ prodPc' = [prodPc EXCEPT ![p] = "put"]
  /\ UNCHANGED <<taskQueue, call, answer, inserts, workerVars>>

\* Mutant of Put: the queue does not look at its size.
PutUnbounded(p) ==
  /\ prodPc[p] = "put"
  /\ taskQueue' = Append(taskQueue, call[p])
  /\ prodPc' = [prodPc EXCEPT ![p] = "release"]
  /\ UNCHANGED <<queueLock, call, answer, inserts, workerVars>>

Put(p) ==
  /\ prodPc[p] = "put"
  /\ Len(taskQueue) < Capacity
  /\ taskQueue' = Append(taskQueue, call[p])
  /\ prodPc' = [prodPc EXCEPT ![p] = "release"]
  /\ UNCHANGED <<queueLock, call, answer, inserts, workerVars>>

\* Mutant of PutTimeout: the caller is told the task was inserted.
PutTimeoutUnnoticed(p) ==
  /\ prodPc[p] = "put"
  /\ Len(taskQueue) = Capacity
  /\ prodPc' = [prodPc EXCEPT ![p] = "idle"]
  /\ call' = [call EXCEPT ![p] = NoTask]
  /\ answer' = [answer EXCEPT ![p] = "ok"]
  /\ UNCHANGED <<lockVars, inserts, workerVars>>

\* Five seconds without room: the except clause answers and keeps queueLock.
PutTimeout(p) ==
  /\ prodPc[p] = "put"
  /\ Len(taskQueue) = Capacity
  /\ prodPc' = [prodPc EXCEPT ![p] = "idle"]
  /\ call' = [call EXCEPT ![p] = NoTask]
  /\ answer' = [answer EXCEPT ![p] = "timeout"]
  /\ UNCHANGED <<lockVars, inserts, workerVars>>

ReleaseAfterPut(p) ==
  /\ prodPc[p] = "release"
  /\ queueLock' = Nobody
  /\ prodPc' = [prodPc EXCEPT ![p] = "idle"]
  /\ call' = [call EXCEPT ![p] = NoTask]
  /\ answer' = [answer EXCEPT ![p] = "ok"]
  /\ UNCHANGED <<taskQueue, inserts, workerVars>>

InsertTask(p) ==
  AcquireToPut(p) \/ Put(p) \/ PutTimeout(p) \/ ReleaseAfterPut(p)

-----------------------------------------------------------------------------
(* run *)

\* Mutant of AcquireToGet: run polls the queue without taking queueLock.
GetWithoutLock ==
  /\ workerPc = "acquire"
  /\ workerPc' = "get"
  /\ UNCHANGED <<lockVars, prodVars, task, taken, done>>

AcquireToGet ==
  /\ workerPc = "acquire"
  /\ queueLock = Nobody
  /\ queueLock' = Worker
  /\ workerPc' = "get"
  /\ UNCHANGED <<taskQueue, prodVars, task, taken, done>>

Get ==
  /\ workerPc = "get"
  /\ IF taskQueue # << >>
       THEN /\ task' = Head(taskQueue)
            /\ taskQueue' = Tail(taskQueue)
            /\ taken' = Append(taken, Head(taskQueue))
       ELSE /\ task' = NoTask
            /\ UNCHANGED <<taskQueue, taken>>
  /\ workerPc' = "release"
  /\ UNCHANGED <<queueLock, prodVars, done>>

\* Mutant of ReleaseAfterGet: the branch of 'exit' forgets the lock.
ReleaseUnlessExit ==
  /\ workerPc = "release"
  /\ queueLock' = IF task = Exit THEN queueLock ELSE Nobody
  /\ workerPc' = IF task = NoTask THEN "acquire" ELSE "process"
  /\ UNCHANGED <<taskQueue, prodVars, task, taken, done>>

\* Mutant of ReleaseAfterGet: a task that is found is polled over.
ReleaseAndPollAgain ==
  /\ workerPc = "release"
  /\ queueLock' = Nobody
  /\ workerPc' = "acquire"
  /\ UNCHANGED <<taskQueue, prodVars, task, taken, done>>

ReleaseAfterGet ==
  /\ workerPc = "release"
  /\ queueLock' = Nobody
  /\ workerPc' = IF task = NoTask THEN "acquire" ELSE "process"
  /\ UNCHANGED <<taskQueue, prodVars, task, taken, done>>

\* An exception in the handler is caught in the loop, so processing ends.
Process ==
  /\ workerPc = "process"
  /\ done' = done + 1
  /\ task' = NoTask
  /\ workerPc' = IF task = Exit THEN "exited" ELSE "acquire"
  /\ UNCHANGED <<lockVars, prodVars, taken>>

Run == AcquireToGet \/ Get \/ ReleaseAfterGet \/ Process

-----------------------------------------------------------------------------

Next ==
  \/ \E p \in Producers :
       \/ \E t \in Tasks : Call(p, t)
       \/ InsertTask(p)
  \/ Run

(***************************************************************************)
(* A thread that can go on does so.  The locks of Python are not fair, but *)
(* the worker is idle for a second or busy with a remote call between two  *)
(* acquisitions and a producer between two http requests, so nobody is     *)
(* overtaken for ever: strong fairness of the two acquisitions.            *)
(***************************************************************************)
Fairness ==
  /\ \A p \in Producers : WF_vars(InsertTask(p)) /\ SF_vars(AcquireToPut(p))
  /\ WF_vars(Run)
  /\ SF_vars(AcquireToGet)

Spec == Init /\ [][Next]_vars
FairSpec == Spec /\ Fairness

-----------------------------------------------------------------------------
(* Invariants *)

\* Type correctness of the queue, of its lock and of both sides.
TypeOK ==
  /\ queueLock \in Producers \cup {Worker, Nobody}
  /\ taskQueue \in Seq(Tasks)
  /\ Len(taskQueue) <= Capacity
  /\ prodPc \in [Producers -> {"idle", "acquire", "put", "release"}]
  /\ call \in [Producers -> Tasks \cup {NoTask}]
  /\ answer \in [Producers -> {"none", "ok", "timeout"}]
  /\ workerPc \in {"acquire", "get", "release", "process", "exited"}
  /\ task \in Tasks \cup {NoTask}
  /\ taken \in Seq(Tasks)
  /\ done \in Nat
  /\ inserts \in Nat

\* The thread is between its acquire and its release.
InSection(th) ==
  \/ th \in Producers /\ prodPc[th] \in {"put", "release"}
  \/ th = Worker /\ workerPc \in {"get", "release"}

\* queueLock is held by a thread that has left insert_task: nobody will
\* release it.
Wedged == queueLock # Nobody /\ ~InSection(queueLock)

(***************************************************************************)
(* The lock is lost in one way only: a producer found the queue full and   *)
(* was answered "timeout".  No other order of calls, not even with an      *)
(* 'exit' in the middle, leaves queueLock with a thread that is done.      *)
(***************************************************************************)
LostOnlyWhenFull ==
  Wedged => /\ queueLock \in Producers
            /\ answer[queueLock] = "timeout"
            /\ Len(taskQueue) = Capacity

(***************************************************************************)
(* The inductive invariant behind the theorems of TaskQueueProofs.         *)
(***************************************************************************)

\* A call is in progress exactly outside "idle".
CallMatchesPc ==
  \A p \in Producers : call[p] = NoTask <=> prodPc[p] = "idle"

\* Only the holder of queueLock is between its acquire and its release.
MutualExclusion ==
  \A th \in Producers \cup {Worker} : InSection(th) => queueLock = th

IInv ==
  /\ TypeOK
  /\ CallMatchesPc
  /\ MutualExclusion
  /\ LostOnlyWhenFull

-----------------------------------------------------------------------------
(* Properties of behaviours *)

\* After a "timeout" nothing enters or leaves the queue any more.
WedgedIsFinal == [][Wedged => UNCHANGED <<queueLock, taskQueue, taken>>]_vars

(***************************************************************************)
(* Every task that insert_task accepts is processed, unless the worker is  *)
(* told to exit before it or the lock is lost: neither the sleep of the    *)
(* idle worker nor the other producers can make a task wait for ever.      *)
(***************************************************************************)
AcceptedIsProcessed ==
  \A k \in 1..MaxInserts :
    (Len(taken) + Len(taskQueue) >= k)
      ~> (done >= k \/ workerPc = "exited" \/ Wedged)

(***************************************************************************)
(* insert_task returns: its timeout of 5 s is there for that.  It does not *)
(* once another call has timed out.                                        *)
(***************************************************************************)
InsertReturns ==
  \A p \in Producers : prodPc[p] # "idle" ~> prodPc[p] = "idle"

\* The code is a TaskChannel: the refinement mapping.
Channel == INSTANCE TaskChannel
  WITH queued <- [p \in Producers |-> prodPc[p] = "release"],
       pending <- taskQueue
ChannelSpec == Channel!Spec
=============================================================================
