----------------------------- MODULE ServerLife -----------------------------
(***************************************************************************)
(* What the database and the compute node promise of a server, whatever    *)
(* thread works on it: its identifier is used once, its row never comes    *)
(* back and is never CREATING again, and a machine is created only by      *)
(* somebody who had found the row.  HostThread is shown to implement it;   *)
(* ServerLife itself has no thread in it.                                  *)
(***************************************************************************)
CONSTANTS
  Servers,
  NoRow    \* no row in instances

VARIABLES
  row,     \* row[s]: instances.status
  machine, \* machine[s]: the state of its domain at the compute node
  born,    \* servers that have had a row
  looked   \* servers whose row was found by a launch in progress

lifeVars == <<row, machine, born, looked>>

Reports == {"ACTIVE", "PAUSED", "INACTIVE", "ERROR"}
MachineStates == {"none", "running", "paused", "off", "crashed"}

LifeInit ==
  /\ row \in [Servers -> {NoRow} \cup Reports]
  /\ machine \in [Servers -> MachineStates]
  /\ born = {s \in Servers : row[s] # NoRow}
  /\ looked = {}
  /\ \A s \in Servers \ born : machine[s] = "none"

\* POST server: new_instance.
Order(s, status) ==
  /\ s \notin born
  /\ row' = [row EXCEPT ![s] = status]
  /\ born' = born \cup {s}
  /\ UNCHANGED <<machine, looked>>

\* Somebody writes what became of it.
Report(s, status) ==
  /\ row[s] # NoRow
  /\ row' = [row EXCEPT ![s] = status]
  /\ UNCHANGED <<machine, born, looked>>

\* DELETE server: delete_instance.
Remove(s) ==
  /\ row[s] # NoRow
  /\ row' = [row EXCEPT ![s] = NoRow]
  /\ UNCHANGED <<machine, born, looked>>

\* A launch finds the row; it may fail or stop before it creates the machine.
Look(s) ==
  /\ row[s] # NoRow
  /\ looked' = looked \cup {s}
  /\ UNCHANGED <<row, machine, born>>
GiveUp(s) ==
  /\ looked' = looked \ {s}
  /\ UNCHANGED <<row, machine, born>>

Launch(s) ==
  /\ s \in looked
  /\ machine[s] = "none"
  /\ machine' = [machine EXCEPT ![s] = "running"]
  /\ looked' = looked \ {s}
  /\ UNCHANGED <<row, born>>

\* The guest, an action of the api or the end of the machine.
Change(s, state) ==
  /\ machine[s] # "none"
  /\ machine' = [machine EXCEPT ![s] = state]
  /\ UNCHANGED <<row, born, looked>>

LifeNext ==
  \E s \in Servers :
    \/ \E status \in {"CREATING", "INACTIVE"} : Order(s, status)
    \/ \E status \in Reports : Report(s, status)
    \/ Remove(s) \/ Look(s) \/ GiveUp(s) \/ Launch(s)
    \/ \E state \in MachineStates : Change(s, state)

LifeSpec == LifeInit /\ [][LifeNext]_lifeVars
=============================================================================
