---------------------------- MODULE HttpRequests ----------------------------
(***************************************************************************)
(* The two http servers of openvim, http and http-admin: a thread each,    *)
(* which works on one request at a time and shares config_dic, and through *)
(* the database everything else, with the other.  A request in progress is *)
(* a record whose field op names what it does next.                        *)
(***************************************************************************)
EXTENDS Naturals

CONSTANTS
  HttpThreads,
  MaxOps,      \* bound: number of requests
  MaxFaults    \* bound: calls that fail, and stops of the process

ASSUME BoundsAreNumbers == MaxOps \in Nat /\ MaxFaults \in Nat

\* openvimd starts http and http-admin, each of which serves a request at a time.
ASSUME TwoServers == \E g, h \in HttpThreads : HttpThreads = {g, h}

VARIABLES
  http,        \* http[h]: the request in progress
  ops,         \* the requests so far
  faults

Idle == [op |-> "idle"]

Begin(h, request) ==
  /\ http[h] = Idle
  /\ ops < MaxOps
  /\ http' = [http EXCEPT ![h] = request]
  /\ ops' = ops + 1

Continue(h, request) ==
  /\ http' = [http EXCEPT ![h] = request]
  /\ UNCHANGED ops

\* It is answered, well or badly.
Finish(h) == Continue(h, Idle)

Fault ==
  /\ faults < MaxFaults
  /\ faults' = faults + 1

AllAnswered == \A h \in HttpThreads : http[h] = Idle
=============================================================================
