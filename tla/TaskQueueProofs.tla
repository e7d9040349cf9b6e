-------------------------- MODULE TaskQueueProofs --------------------------
(***************************************************************************)
(* Theorems about TaskQueue, for any number of producers, any tasks and    *)
(* any capacity.  IInv (see TaskQueue) is inductive; the four results      *)
(* follow from it.                                                         *)
(***************************************************************************)
EXTENDS TaskQueue, TLAPS

\* Taking the head of a bounded, non-empty sequence leaves a bounded one.
LEMMA TakeHead ==
  ASSUME NEW S, NEW s \in Seq(S), s # << >>, NEW c \in Nat, Len(s) <= c
  PROVE  Head(s) \in S /\ Tail(s) \in Seq(S) /\ Len(Tail(s)) <= c
<1>1. Len(s) \in Nat /\ Len(Tail(s)) = Len(s) - 1
  OBVIOUS
<1>2. QED
  BY <1>1

\* The initial state satisfies the inductive invariant.
LEMMA InitIInv == Init => IInv
BY ThreadsAreDistinct, TasksAreDistinct, CapacityIsPositive
   DEF Init, IInv, TypeOK, CallMatchesPc, MutualExclusion, LostOnlyWhenFull,
       Wedged, InSection, Tasks

\* Every step of insert_task and of run preserves the inductive invariant.
LEMMA NextIInv == IInv /\ [Next]_vars => IInv'
<1> SUFFICES ASSUME IInv, [Next]_vars PROVE IInv'
  OBVIOUS
<1> USE ThreadsAreDistinct, TasksAreDistinct, CapacityIsPositive
    DEF IInv, TypeOK, CallMatchesPc, MutualExclusion, LostOnlyWhenFull,
        Wedged, InSection, Tasks, lockVars, prodVars, workerVars
<1>1. ASSUME NEW p \in Producers, NEW t \in Tasks, Call(p, t) PROVE IInv'
  BY <1>1 DEF Call
<1>2. ASSUME NEW p \in Producers, AcquireToPut(p) PROVE IInv'
  BY <1>2 DEF AcquireToPut
<1>3. ASSUME NEW p \in Producers, Put(p) PROVE IInv'
  BY <1>3 DEF Put
<1>4. ASSUME NEW p \in Producers, PutTimeout(p) PROVE IInv'
  BY <1>4 DEF PutTimeout
<1>5. ASSUME NEW p \in Producers, ReleaseAfterPut(p) PROVE IInv'
  BY <1>5 DEF ReleaseAfterPut
<1>6. CASE AcquireToGet
  BY <1>6 DEF AcquireToGet
<1>7. CASE Get
  <2>1. CASE taskQueue # << >>
    <3>1. /\ Head(taskQueue) \in Tasks
          /\ Tail(taskQueue) \in Seq(Tasks)
          /\ Len(Tail(taskQueue)) <= Capacity
      BY <2>1, TakeHead
    <3>2. Append(taken, Head(taskQueue)) \in Seq(Tasks)
      BY <3>1
    <3>3. /\ task' = Head(taskQueue)
          /\ taskQueue' = Tail(taskQueue)
          /\ taken' = Append(taken, Head(taskQueue))
          /\ workerPc = "get" /\ workerPc' = "release"
          /\ UNCHANGED <<queueLock, prodPc, call, answer, inserts, done>>
      BY <1>7, <2>1 DEF Get
    <3>4. TypeOK'
      BY <3>1, <3>2, <3>3
    <3>5. QED
      BY <3>3, <3>4
  <2>2. CASE taskQueue = << >>
    BY <1>7, <2>2 DEF Get
  <2>3. QED
    BY <2>1, <2>2
<1>8. CASE ReleaseAfterGet
  BY <1>8 DEF ReleaseAfterGet
<1>9. CASE Process
  BY <1>9 DEF Process
<1>10. CASE UNCHANGED vars
  BY <1>10 DEF vars
<1>11. QED
  BY <1>1, <1>2, <1>3, <1>4, <1>5, <1>6, <1>7, <1>8, <1>9, <1>10
     DEF Next, InsertTask, Run

\* The inductive invariant holds in every reachable state.
THEOREM InductiveInvariant == Spec => []IInv
BY InitIInv, NextIInv, PTL DEF Spec

\* Types of the queue, the lock and the program counters.
THEOREM TypeCorrect == Spec => []TypeOK
<1>1. IInv => TypeOK
  BY DEF IInv
<1>2. QED
  BY <1>1, InductiveInvariant, PTL

\* queueLock excludes: two threads are never between acquire and release.
THEOREM LockExcludes == Spec => []MutualExclusion
<1>1. IInv => MutualExclusion
  BY DEF IInv
<1>2. QED
  BY <1>1, InductiveInvariant, PTL

\* queueLock is lost only to a producer that timed out on a full queue.
THEOREM LockLostOnlyWhenFull == Spec => []LostOnlyWhenFull
<1>1. IInv => LostOnlyWhenFull
  BY DEF IInv
<1>2. QED
  BY <1>1, InductiveInvariant, PTL

\* Once lost, queueLock is never free again and the queue never changes.
THEOREM LostLockIsFinal == Spec => WedgedIsFinal
<1>1. ASSUME IInv, Next, Wedged
      PROVE  UNCHANGED <<queueLock, taskQueue, taken>>
  <2> USE IInv, Wedged, ThreadsAreDistinct
      DEF IInv, TypeOK, MutualExclusion, LostOnlyWhenFull, Wedged, InSection,
          lockVars, prodVars, workerVars
  <2>1. ASSUME NEW p \in Producers
        PROVE  /\ ~AcquireToPut(p) /\ ~Put(p) /\ ~ReleaseAfterPut(p)
               /\ ~PutTimeout(p)
    BY DEF AcquireToPut, Put, ReleaseAfterPut, PutTimeout
  <2>2. ~AcquireToGet /\ ~Get /\ ~ReleaseAfterGet
    BY DEF AcquireToGet, Get, ReleaseAfterGet
  <2>3. ASSUME NEW p \in Producers, NEW t \in Tasks, Call(p, t)
        PROVE  UNCHANGED <<queueLock, taskQueue, taken>>
    BY <2>3 DEF Call
  <2>4. ASSUME Process PROVE UNCHANGED <<queueLock, taskQueue, taken>>
    BY <2>4 DEF Process
  <2>5. QED
    BY <1>1, <2>1, <2>2, <2>3, <2>4 DEF Next, InsertTask, Run
<1>2. IInv /\ [Next]_vars
        => [Wedged => UNCHANGED <<queueLock, taskQueue, taken>>]_vars
  BY <1>1 DEF vars
<1>3. QED
  BY <1>2, InductiveInvariant, PTL DEF Spec, WedgedIsFinal

-----------------------------------------------------------------------------
(* TaskQueue implements TaskChannel. *)

\* Every step of the code is a step of the channel or changes nothing in it.
LEMMA ChannelStep == IInv /\ [Next]_vars => [Channel!Next]_(Channel!vars)
<1> SUFFICES ASSUME IInv, [Next]_vars
             PROVE  [Channel!Next]_(Channel!vars)
  OBVIOUS
<1> USE TasksAreDistinct
    DEF IInv, TypeOK, CallMatchesPc, Tasks, lockVars, prodVars, workerVars,
        Channel!Next, Channel!vars
<1>1. ASSUME NEW p \in Producers, NEW t \in Tasks, Call(p, t)
      PROVE  Channel!Call(p, t)
  BY <1>1 DEF Call, Channel!Call
<1>2. ASSUME NEW p \in Producers, AcquireToPut(p)
      PROVE  UNCHANGED Channel!vars
  BY <1>2 DEF AcquireToPut
<1>3. ASSUME NEW p \in Producers, Put(p) PROVE Channel!Accept(p)
  BY <1>3 DEF Put, Channel!Accept
<1>4. ASSUME NEW p \in Producers, PutTimeout(p) PROVE Channel!Refuse(p)
  BY <1>4 DEF PutTimeout, Channel!Refuse
<1>5. ASSUME NEW p \in Producers, ReleaseAfterPut(p)
      PROVE  Channel!Return(p)
  BY <1>5 DEF ReleaseAfterPut, Channel!Return
<1>6. ASSUME AcquireToGet \/ ReleaseAfterGet \/ Process
      PROVE  UNCHANGED Channel!vars
  BY <1>6 DEF AcquireToGet, ReleaseAfterGet, Process
<1>7. ASSUME Get PROVE Channel!Deliver \/ UNCHANGED Channel!vars
  BY <1>7 DEF Get, Channel!Deliver
<1>8. ASSUME UNCHANGED vars PROVE UNCHANGED Channel!vars
  BY <1>8 DEF vars
<1>9. QED
  BY <1>1, <1>2, <1>3, <1>4, <1>5, <1>6, <1>7, <1>8 DEF Next, InsertTask, Run

\* insert_task and run keep the promise of TaskChannel.
THEOREM ImplementsChannel == Spec => ChannelSpec
<1>1. Init => Channel!Init
  BY DEF Init, Channel!Init
<1>2. QED
  BY <1>1, ChannelStep, InductiveInvariant, PTL
     DEF Spec, ChannelSpec, Channel!Spec
=============================================================================
