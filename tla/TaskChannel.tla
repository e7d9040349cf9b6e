---------------------------- MODULE TaskChannel ----------------------------
(***************************************************************************)
(* What the callers of insert_task are promised by the task queue of a     *)
(* worker thread (host_thread, openflow_thread and dhcp_thread each own    *)
(* one): a call either puts its task in the queue once and answers "ok",   *)
(* or leaves the queue alone and answers "timeout"; the worker is handed   *)
(* the tasks once each, in the order in which they were put.               *)
(*                                                                         *)
(* TaskQueue is the code that keeps this promise; the modules of the       *)
(* threads themselves take their tasks from a channel of this kind.        *)
(***************************************************************************)
EXTENDS Naturals, Sequences

CONSTANTS
  Producers,  \* the threads that call insert_task
  Tasks,      \* what they insert
  NoTask      \* no call in progress

VARIABLES
  call,       \* call[p]: the task p is inserting, NoTask between calls
  queued,     \* queued[p]: that task is already in the queue
  answer,     \* answer[p]: what the last call of p returned
  pending,    \* accepted tasks the worker has not taken yet, in order
  taken       \* the tasks handed to the worker, in order

vars == <<call, queued, answer, pending, taken>>

Init ==
  /\ call = [p \in Producers |-> NoTask]
  /\ queued = [p \in Producers |-> FALSE]
  /\ answer = [p \in Producers |-> "none"]
  /\ pending = << >>
  /\ taken = << >>

Call(p, t) ==
  /\ call[p] = NoTask
  /\ call' = [call EXCEPT ![p] = t]
  /\ UNCHANGED <<queued, answer, pending, taken>>

Accept(p) ==
  /\ call[p] # NoTask
  /\ ~queued[p]
  /\ queued' = [queued EXCEPT ![p] = TRUE]
  /\ pending' = Append(pending, call[p])
  /\ UNCHANGED <<call, answer, taken>>

Return(p) ==
  /\ queued[p]
  /\ call' = [call EXCEPT ![p] = NoTask]
  /\ queued' = [queued EXCEPT ![p] = FALSE]
  /\ answer' = [answer EXCEPT ![p] = "ok"]
  /\ UNCHANGED <<pending, taken>>

Refuse(p) ==
  /\ call[p] # NoTask
  /\ ~queued[p]
  /\ call' = [call EXCEPT ![p] = NoTask]
  /\ answer' = [answer EXCEPT ![p] = "timeout"]
  /\ UNCHANGED <<queued, pending, taken>>

Deliver ==
  /\ pending # << >>
  /\ pending' = Tail(pending)
  /\ taken' = Append(taken, Head(pending))
  /\ UNCHANGED <<call, queued, answer>>

Next ==
  \/ \E p \in Producers :
       \/ \E t \in Tasks : Call(p, t)
       \/ Accept(p)
       \/ Return(p)
       \/ Refuse(p)
  \/ Deliver

Spec == Init /\ [][Next]_vars
=============================================================================
