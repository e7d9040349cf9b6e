----------------------------- MODULE DhcpThread -----------------------------
(***************************************************************************)
(* The dhcp_thread with the http requests that feed it: it looks for the   *)
(* address that the guest behind each mac got from the dhcp server, and    *)
(* writes it to the row of the port.  A server is created and deleted by   *)
(* requests which tell the thread of its mac after the database has been   *)
(* changed, and only if the network is in dhcp_nets at that time.          *)
(*                                                                         *)
(* Kept: the tasks in order, each reading of the lease and each write to   *)
(* ports, the entries of mac_status, what a stop of the process and a      *)
(* failed read of the database forget.                                     *)
(*                                                                         *)
(* Abstracted: the time.  An entry is young until its limit has passed     *)
(* (300 s to become ACTIVE, then 120 s to get an address), which may       *)
(* happen at any time, and every entry that waits for its next reading is  *)
(* read again some time.  The address is there or is not; one port for     *)
(* each server, which once ACTIVE stays so until it is deleted; mode       *)
(* 'test' is left out.                                                     *)
(***************************************************************************)
EXTENDS Networks, Sequences

VARIABLES
  leased,     \* leased[m]: the dhcp server has a lease for it
  macStatus,  \* mac_status
  tasks,      \* taskQueue
  lease,      \* <<m, content>>: a lease that was read and not yet written
  dhcpPc,     \* the thread loads the macs, or goes round
  (* history *)
  untold,     \* macs of servers whose dhcp network was not in dhcp_nets when asked
  misled      \* macs with tasks in another order than their ports, or with a
              \* 'del' for a port that stayed

dhcpVars == <<port, leased, macStatus, tasks, lease, dhcpPc, untold, misled>>
thingsOfDhcp == <<macStatus, lease, dhcpPc, faults>>

Addresses == {"none", "0.0.0.0", "known"}
Port == [id : 1..MaxOps, net : Nets, status : {"CREATING", "ACTIVE"}, ip : Addresses]
Entry == [ip : Addresses, active : BOOLEAN, young : BOOLEAN, done : BOOLEAN]

ASSUME NoneIsNoRecord == None \notin Port \cup Entry

Here(m) == port[m] # None

NewEntry(ip) == [ip |-> ip, active |-> FALSE, young |-> TRUE, done |-> FALSE]

\* The port with the mac when the request began, not another one after it.
Same(m, id) == Here(m) /\ port[m].id = id

-----------------------------------------------------------------------------
(* Requests *)

\* POST servers: new_instance with its port.  A mac is that of one port only.
PostServer(h, m, n) ==
  /\ ~Here(m)
  /\ Exists(n)
  /\ nets[n].bridge # None
  /\ Begin(h, [op |-> "ports", mac |-> m, id |-> ops + 1])
  /\ port' = [port EXCEPT ![m] = [id |-> ops + 1, net |-> n, status |-> "CREATING", ip |-> "none"]]
  /\ untold' = untold \ {m}
  /\ misled' = misled \ {m}
  /\ UNCHANGED <<leased, tasks, thingsOfDhcp>>

\* Its ports are read again and looked for in dhcp_nets.  If they cannot be read
\* nobody is told.
AskPorts(h) ==
  /\ http[h].op = "ports"
  /\ LET m == http[h].mac
     IN  \E read \in BOOLEAN :
           LET told == read /\ Same(m, http[h].id) /\ dhcpNets[port[m].net] > 0
           IN  /\ IF read THEN UNCHANGED faults ELSE Fault
               /\ Continue(h, IF told THEN [http[h] EXCEPT !.op = "add"] ELSE Idle)
               /\ untold' = IF Same(m, http[h].id) /\ ~told THEN untold \cup {m} ELSE untold
  /\ UNCHANGED <<port, leased, tasks, macStatus, lease, dhcpPc, misled>>

InsertAdd(h) ==
  /\ http[h].op = "add"
  /\ tasks' = Append(tasks, [op |-> "add", mac |-> http[h].mac])
  /\ misled' = IF Same(http[h].mac, http[h].id) THEN misled ELSE misled \cup {http[h].mac}
  /\ Finish(h)
  /\ UNCHANGED <<port, leased, thingsOfDhcp, untold>>

\* DELETE servers: the macs are read first, perhaps in vain.
DeleteServer(h, m) ==
  /\ Here(m)
  /\ \/ /\ Begin(h, [op |-> "delete", mac |-> m, id |-> port[m].id, net |-> port[m].net])
        /\ UNCHANGED faults
     \/ /\ Begin(h, [op |-> "delete", mac |-> m, id |-> port[m].id, net |-> None])
        /\ Fault
  /\ UNCHANGED dhcpVars

\* delete_instance takes the port with it.  If it fails the server and its port
\* stay; nobody looks at that, and the thread is told all the same.
DeleteInstance(h) ==
  /\ http[h].op = "delete"
  /\ LET m == http[h].mac
     IN  \/ /\ port' = IF Same(m, http[h].id) THEN [port EXCEPT ![m] = None] ELSE port
            /\ UNCHANGED <<misled, faults>>
         \/ /\ misled' = IF Same(m, http[h].id) THEN misled \cup {m} ELSE misled
            /\ UNCHANGED port
            /\ Fault
  /\ Continue(h, [http[h] EXCEPT !.op = "del"])
  /\ UNCHANGED <<leased, tasks, macStatus, lease, dhcpPc, untold>>

\* A 'del' behind the 'add' of the next port with the mac.
Overtakes(m) ==
  Here(m) /\ \A k \in HttpThreads : http[k].op \in {"ports", "add"} => http[k].mac # m

\* The network was read, and is in dhcp_nets.
Served(n) == n # None /\ dhcpNets[n] > 0

\* Mutant: the thread is told of the networks it does not serve.
InsertDelUnserved(h) ==
  /\ http[h].op = "del"
  /\ tasks' = IF Served(http[h].net) THEN tasks
              ELSE Append(tasks, [op |-> "del", mac |-> http[h].mac])
  /\ misled' = IF Overtakes(http[h].mac) THEN misled \cup {http[h].mac} ELSE misled
  /\ Finish(h)
  /\ UNCHANGED <<port, leased, thingsOfDhcp, untold>>

\* Then the thread is told, if the network was read and is in dhcp_nets now.
InsertDel(h) ==
  /\ http[h].op = "del"
  /\ LET m == http[h].mac
         told == Served(http[h].net)
     IN  /\ tasks' = IF told THEN Append(tasks, [op |-> "del", mac |-> m]) ELSE tasks
         /\ misled' = IF Overtakes(m) THEN misled \cup {m} ELSE misled
         /\ untold' = IF told THEN untold ELSE untold \cup {m}
  /\ Finish(h)
  /\ UNCHANGED <<port, leased, thingsOfDhcp>>

-----------------------------------------------------------------------------
(* The thread *)

\* load_mac_from_db.
LoadMacs ==
  /\ dhcpPc = "load"
  /\ \/ /\ macStatus' = [m \in Macs |-> IF Here(m) /\ dhcpNets[port[m].net] > 0
                                        THEN NewEntry(port[m].ip) ELSE None]
        /\ untold' = untold \cup {m \in Macs : Here(m) /\ dhcpNets[port[m].net] = 0}
        /\ UNCHANGED faults
     \/ /\ macStatus' = [m \in Macs |-> None]
        /\ untold' = untold \cup {m \in Macs : Here(m)}
        /\ Fault
  /\ dhcpPc' = "round"
  /\ UNCHANGED <<http, ops, port, leased, tasks, lease, misled>>

TakeTask ==
  /\ dhcpPc = "round"
  /\ lease = None
  /\ tasks # << >>
  /\ macStatus' = [macStatus EXCEPT ![Head(tasks).mac] =
                     IF Head(tasks).op = "add" THEN NewEntry("none") ELSE None]
  /\ tasks' = Tail(tasks)
  /\ UNCHANGED <<http, ops, port, leased, lease, dhcpPc, faults, untold, misled>>

\* The entries that get_ip_from_dhcp works on: the reading is due, and after
\* an address was written the next is ten times the time since 1970 away.
Due(m) == dhcpPc = "round" /\ lease = None /\ macStatus[m] # None /\ ~macStatus[m].done

\* update_rows of ports by mac.
WriteAddress(m, ip) == port' = IF Here(m) THEN [port EXCEPT ![m].ip = ip] ELSE port

\* 0.0.0.0 tells that there is no address in time, unless one was known.  It
\* is remembered whether or not it was written.
GiveUp(m, entry) ==
  IF ~entry.young /\ entry.ip = "none"
  THEN /\ macStatus' = [macStatus EXCEPT ![m] = [entry EXCEPT !.ip = "0.0.0.0"]]
       /\ \/ WriteAddress(m, "0.0.0.0") /\ UNCHANGED faults
          \/ UNCHANGED port /\ Fault
  ELSE /\ macStatus' = [macStatus EXCEPT ![m] = entry]
       /\ UNCHANGED <<port, faults>>

\* Not active: the status of the server is looked at.
CheckActive(m) ==
  /\ Due(m)
  /\ ~macStatus[m].active
  /\ IF Here(m) /\ port[m].status = "ACTIVE"
     THEN /\ macStatus' = [macStatus EXCEPT ![m].active = TRUE, ![m].young = TRUE]
          /\ UNCHANGED <<port, faults>>
     ELSE GiveUp(m, macStatus[m])
  /\ UNCHANGED <<http, ops, leased, tasks, lease, dhcpPc, untold, misled>>

\* get_dhcp_lease.sh is run at the dhcp server, perhaps in vain.
ReadLease(m) ==
  /\ Due(m)
  /\ macStatus[m].active
  /\ \/ lease' = <<m, leased[m]>> /\ UNCHANGED faults
     \/ lease' = <<m, FALSE>> /\ Fault
  /\ UNCHANGED <<http, ops, port, leased, macStatus, tasks, dhcpPc, untold, misled>>

\* Mutant: a write that failed is taken for done.
TakenForDone ==
  /\ lease # None
  /\ LET m == lease[1]
     IN  \/ /\ lease[2]
            /\ macStatus' = [macStatus EXCEPT ![m].ip = "known", ![m].done = TRUE]
            /\ \/ WriteAddress(m, "known") /\ UNCHANGED faults
               \/ UNCHANGED port /\ Fault
         \/ ~lease[2] /\ GiveUp(m, macStatus[m])
  /\ lease' = None
  /\ UNCHANGED <<http, ops, leased, tasks, dhcpPc, untold, misled>>

\* The address is written; if that fails it is read again, as if there were none.
UseLease ==
  /\ lease # None
  /\ LET m == lease[1]
     IN  \/ /\ lease[2]
            /\ WriteAddress(m, "known")
            /\ macStatus' = [macStatus EXCEPT ![m].ip = "known", ![m].done = TRUE]
            /\ UNCHANGED faults
         \/ /\ lease[2]
            /\ macStatus' = [macStatus EXCEPT ![m].ip = "known"]
            /\ Fault
            /\ UNCHANGED port
         \/ ~lease[2] /\ GiveUp(m, macStatus[m])
  /\ lease' = None
  /\ UNCHANGED <<http, ops, leased, tasks, dhcpPc, untold, misled>>

-----------------------------------------------------------------------------
(* Environment *)

\* The limit of an entry passes.
Late(m) ==
  /\ macStatus[m] # None
  /\ macStatus[m].young
  /\ macStatus' = [macStatus EXCEPT ![m].young = FALSE]
  /\ UNCHANGED <<http, ops, port, leased, tasks, lease, dhcpPc, faults, untold, misled>>

\* The host thread writes that the server runs (HostThread).
Report(m) ==
  /\ Here(m)
  /\ port' = [port EXCEPT ![m].status = "ACTIVE"]
  /\ UNCHANGED <<http, ops, leased, tasks, thingsOfDhcp, untold, misled>>

\* A guest that runs asks for its address and gets it.
GuestAsks(m) ==
  /\ Here(m)
  /\ port[m].status = "ACTIVE"
  /\ ~leased[m]
  /\ leased' = [leased EXCEPT ![m] = TRUE]
  /\ UNCHANGED <<http, ops, port, tasks, thingsOfDhcp, untold, misled>>

DhcpInit ==
  /\ port = [m \in Macs |-> None]
  /\ leased = [m \in Macs |-> FALSE]
  /\ macStatus = [m \in Macs |-> None]
  /\ tasks = << >>
  /\ lease = None
  /\ dhcpPc = "load"
  /\ untold = {}
  /\ misled = {}

\* The service stops, and starts with an empty mac_status.
DhcpStart ==
  /\ macStatus' = [m \in Macs |-> None]
  /\ tasks' = << >>
  /\ lease' = None
  /\ dhcpPc' = "load"
  /\ untold' = {}
  /\ misled' = {}
  /\ UNCHANGED <<port, leased>>

DhcpRequest(h) ==
  \/ \E m \in Macs, n \in Nets : PostServer(h, m, n)
  \/ \E m \in Macs : DeleteServer(h, m)

DhcpStep(h) == AskPorts(h) \/ InsertAdd(h) \/ DeleteInstance(h) \/ InsertDel(h)

MacStep(m) == CheckActive(m) \/ ReadLease(m)
ThreadStep == LoadMacs \/ TakeTask \/ UseLease

DhcpEnvironment ==
  \E m \in Macs :
    Late(m) \/ GuestAsks(m) \/ Report(m)

-----------------------------------------------------------------------------
(* Properties *)

DhcpTypeOK ==
  /\ port \in [Macs -> Port \cup {None}]
  /\ macStatus \in [Macs -> Entry \cup {None}]
  /\ leased \in [Macs -> BOOLEAN]
  /\ dhcpPc \in {"load", "round"}

\* A guest that stays ACTIVE on a network with a dhcp server, and has a lease,
\* has its address in the database some time, whatever lease or write failed or
\* was late on the way.  Not if its network was not in dhcp_nets, or its ports
\* could not be read, when the thread was to be told, nor if the tasks of the
\* mac went out of order because its last server was just being deleted, nor if
\* it is itself one that could not be deleted: the thread has forgotten it.
AddressIsWritten ==
  \A m \in Macs :
    []<>( \/ ~Here(m) \/ port[m].status # "ACTIVE" \/ ~leased[m]
          \/ m \in untold \cup misled
          \/ port[m].ip = "known" )

\* The thread forgets the macs of the deleted servers, with the same exceptions.
TrackedMacsExist ==
  (AllAnswered /\ tasks = << >> /\ dhcpPc = "round") =>
    \A m \in Macs \ (untold \cup misled) : macStatus[m] # None => Here(m)
=============================================================================
