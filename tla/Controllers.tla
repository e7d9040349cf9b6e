----------------------------- MODULE Controllers -----------------------------
(***************************************************************************)
(* The openflow controllers: requests add, edit and delete rows of ofcs    *)
(* and start and end an openflow_thread for each; requests on external     *)
(* ports look for the thread that is to be told of the change.  A thread   *)
(* is found by the uuid of its controller in ofcs_thread, or by the dpid   *)
(* of a switch in ofcs_thread_dpid, a list in which a dpid may be several  *)
(* times: no key of ofcs forbids it.                                       *)
(*                                                                         *)
(* Kept: every access to the database, to the two dictionaries and to the  *)
(* queue of a thread as a step of its own, the foreign key of ports, the   *)
(* removals from the list by the loop that goes over it.                   *)
(*                                                                         *)
(* Abstracted: the Default controller is configured; each port is in a     *)
(* network of its own (OpenflowThread chooses among the ports of one), and *)
(* its mapping names a controller with the dpid of its row, or the Default *)
(* one, which has no row.  An update takes no time and is right: what it   *)
(* does is OpenflowThread.                                                 *)
(***************************************************************************)
EXTENDS HttpRequests, SequencesExt

CONSTANTS
  Ofcs,          \* the uuids that new_row gives
  Default,       \* the controller of the configuration, which has no row
  Dpids,
  DefaultDpid,   \* its of_controller_dpid
  OfPorts,       \* external ports
  Nothing        \* no row

VARIABLES
  ofcs,          \* ofcs[c]: dpid of its row
  ofcsThread,    \* config['ofcs_thread']: those with a thread
  ofcsThreadDpid,\* config['ofcs_thread_dpid']: pairs of a dpid and a controller
  running,       \* the threads that have not ended
  ofTasks,       \* ofTasks[c]: taskQueue of its thread
  ofPort,        \* ofPort[p]: its row in ports
  (* history *)
  ofcsMade,      \* the uuids given
  behind,        \* controllers with a change that no update has come after
  threadless,    \* controllers whose row and thread did not go together
  edited,        \* dpids that a controller had or got while its thread was running
  blurred,       \* dpids that were taken from another controller, or passed over
  hurried        \* controllers to be told while their thread was started or ended

ofcVars == <<ofcs, ofcsThread, ofcsThreadDpid, running, ofTasks, ofPort,
             ofcsMade, behind, threadless, edited, blurred, hurried>>
ofcRows == <<ofcs, ofPort, ofcsMade>>
ofcThreads == <<ofcsThread, ofcsThreadDpid, running, ofTasks>>

Known == Ofcs \cup {Default}

ASSUME DpidsAreTold ==
  /\ Default \notin Ofcs
  /\ DefaultDpid \in Dpids
  /\ Nothing \notin Dpids
  /\ IsFiniteSet(Ofcs)

HasRow(c) == ofcs[c] # Nothing

\* Those that a start gives a thread.
Present == {Default} \cup {c \in Ofcs : HasRow(c)}
DpidOf(c) == IF c = Default THEN DefaultDpid ELSE ofcs[c]

\* The controllers that the list has for a dpid.
Listed(d) == {c \in Known : \E i \in DOMAIN ofcsThreadDpid : ofcsThreadDpid[i] = <<d, c>>}

-----------------------------------------------------------------------------
(* Administration of controllers *)

\* new_of_controller: the row; any dpid will do.
NewOfController(h, c, d) ==
  /\ c \notin ofcsMade
  /\ Begin(h, [op |-> "load", ofc |-> c, dpid |-> d])
  /\ ofcs' = [ofcs EXCEPT ![c] = d]
  /\ ofcsMade' = ofcsMade \cup {c}
  /\ UNCHANGED <<ofcThreads, ofPort, behind, threadless, edited, blurred, hurried, faults>>

\* Then its connector is loaded and its thread started.  If that fails the row
\* stays; nor does anybody look whether it is still there.
CreateOfcTask(h) ==
  /\ http[h].op = "load"
  /\ LET c == http[h].ofc
     IN  \/ /\ ofcsThread' = ofcsThread \cup {c}
            /\ ofcsThreadDpid' = Append(ofcsThreadDpid, <<http[h].dpid, c>>)
            /\ running' = running \cup {c}
            /\ threadless' = IF HasRow(c) THEN threadless ELSE threadless \cup {c}
            /\ UNCHANGED faults
         \/ /\ threadless' = threadless \cup {c}
            /\ UNCHANGED <<ofcsThread, ofcsThreadDpid, running>>
            /\ Fault
  /\ Finish(h)
  /\ UNCHANGED <<ofcRows, ofTasks, behind, edited, blurred, hurried>>

\* edit_of_controller changes the row and nothing else.
EditOfController(h, c, d) ==
  /\ HasRow(c)
  /\ ofcs' = [ofcs EXCEPT ![c] = d]
  /\ edited' = IF ofcs[c] = d THEN edited ELSE edited \cup {ofcs[c], d}
  /\ Begin(h, Idle)
  /\ UNCHANGED <<ofcThreads, ofPort, ofcsMade, behind, threadless, blurred, hurried, faults>>

\* delete_of_controller reads the row for its dpid.
DeleteOfController(h, c) ==
  /\ HasRow(c)
  /\ Begin(h, [op |-> "delete_ofc", ofc |-> c, dpid |-> ofcs[c]])
  /\ UNCHANGED <<ofcVars, faults>>

\* Mutant: the foreign key of ports sets null.
DeleteOfcUnasked(h) ==
  /\ http[h].op = "delete_ofc"
  /\ IF ~HasRow(http[h].ofc)
     THEN Finish(h) /\ UNCHANGED ofcs
     ELSE /\ ofcs' = [ofcs EXCEPT ![http[h].ofc] = Nothing]
          /\ Continue(h, [http[h] EXCEPT !.op = "forget_ofc"])
  /\ UNCHANGED <<ofcThreads, ofPort, ofcsMade, behind, threadless, edited, blurred, hurried, faults>>

\* A port keeps its controller.
DeleteOfc(h) ==
  /\ http[h].op = "delete_ofc"
  /\ LET c == http[h].ofc
     IN  IF ~HasRow(c) \/ \E p \in OfPorts : ofPort[p] # Nothing /\ ofPort[p].ofc = c
         THEN Finish(h) /\ UNCHANGED ofcs
         ELSE /\ ofcs' = [ofcs EXCEPT ![c] = Nothing]
              /\ Continue(h, [http[h] EXCEPT !.op = "forget_ofc"])
  /\ UNCHANGED <<ofcThreads, ofPort, ofcsMade, behind, threadless, edited, blurred, hurried, faults>>

PortRequestOn(c) ==
  \E k \in HttpThreads : http[k].op \in {"pick", "tell"} /\ http[k].ofc = c

\* Its thread is taken out of the dictionary; if it has none the KeyError ends
\* the request.
ForgetOfc(h) ==
  /\ http[h].op = "forget_ofc"
  /\ LET c == http[h].ofc
     IN  IF c \notin ofcsThread
         THEN Finish(h) /\ UNCHANGED <<ofcsThread, hurried>>
         ELSE /\ ofcsThread' = ofcsThread \ {c}
              /\ hurried' = IF PortRequestOn(c) THEN hurried \cup {c} ELSE hurried
              /\ Continue(h, [op |-> "forget_dpid", ofc |-> c, dpid |-> http[h].dpid, at |-> 1])
  /\ UNCHANGED <<ofcRows, ofcsThreadDpid, running, ofTasks, behind, threadless, edited,
                 blurred, faults>>

\* for ofc_th in ofcs_thread_dpid: the next entry of the list, whatever others
\* do with it meanwhile; one with the dpid is to go, whosever thread it names.
ForgetDpid(h) ==
  /\ http[h].op = "forget_dpid"
  /\ LET c == http[h].ofc
         d == http[h].dpid
         i == http[h].at
     IN  IF i > Len(ofcsThreadDpid)
         THEN /\ blurred' = IF c \in Listed(d) THEN blurred \cup {d} ELSE blurred
              /\ Continue(h, [op |-> "exit_ofc", ofc |-> c, dpid |-> d])
         ELSE /\ UNCHANGED blurred
              /\ Continue(h, IF ofcsThreadDpid[i][1] = d
                             THEN [op |-> "remove_dpid", ofc |-> c, dpid |-> d, at |-> i + 1,
                                   listed |-> ofcsThreadDpid[i][2]]
                             ELSE [http[h] EXCEPT !.at = i + 1])
  /\ UNCHANGED <<ofcRows, ofcThreads, behind, threadless, edited, hurried, faults>>

\* remove(ofc_th), so that the loop passes over the entry after it.  If another
\* request has removed it, the ValueError ends this one: the thread stays.
RemoveDpid(h) ==
  /\ http[h].op = "remove_dpid"
  /\ LET c == http[h].ofc
         d == http[h].dpid
         e == <<d, http[h].listed>>
     IN  IF http[h].listed \notin Listed(d)
         THEN /\ threadless' = threadless \cup {c}
              /\ Finish(h)
              /\ UNCHANGED <<ofcsThreadDpid, blurred>>
         ELSE /\ \E j \in DOMAIN ofcsThreadDpid :
                   ofcsThreadDpid[j] = e /\ ofcsThreadDpid' = RemoveAt(ofcsThreadDpid, j)
              /\ blurred' = IF http[h].listed = c THEN blurred ELSE blurred \cup {d}
              /\ Continue(h, [op |-> "forget_dpid", ofc |-> c, dpid |-> d, at |-> http[h].at])
              /\ UNCHANGED threadless
  /\ UNCHANGED <<ofcRows, ofcsThread, running, ofTasks, behind, edited, hurried, faults>>

\* Then the thread is told to end.
ExitOfc(h) ==
  /\ http[h].op = "exit_ofc"
  /\ ofTasks' = [ofTasks EXCEPT ![http[h].ofc] = Append(@, "exit")]
  /\ Finish(h)
  /\ UNCHANGED <<ofcRows, ofcsThread, ofcsThreadDpid, running, behind, threadless, edited,
                 blurred, hurried, faults>>

-----------------------------------------------------------------------------
(* External ports *)

\* new_external_port reads the mapping of the port: a controller with a row,
\* or none, for a switch of the Default controller.  A new port is one that no
\* other request is about to make (a bound).
NewExternalPort(h, p, c) ==
  /\ ofPort[p] = Nothing
  /\ \A k \in HttpThreads : http[k].op = "insert_port" => http[k].port # p
  /\ c \in Present
  /\ Begin(h, [op |-> "insert_port", port |-> p, ofc |-> c, dpid |-> DpidOf(c)])
  /\ UNCHANGED <<ofcVars, faults>>

InsertPort(h) ==
  /\ http[h].op = "insert_port"
  /\ LET c == http[h].ofc
     IN  IF c \notin Present
         THEN Finish(h) /\ UNCHANGED <<ofPort, behind>>
         ELSE /\ ofPort' = [ofPort EXCEPT ![http[h].port] = [ofc |-> c, dpid |-> http[h].dpid]]
              /\ behind' = behind \cup {c}
              /\ Continue(h, [http[h] EXCEPT !.op = "pick", !.dpid = Nothing])
  /\ UNCHANGED <<ofcs, ofcsMade, ofcThreads, threadless, edited, blurred, hurried, faults>>

\* delete_port: the row goes, and its controller and dpid were read before.
DeletePort(h, p) ==
  /\ ofPort[p] # Nothing
  /\ Begin(h, [op |-> "pick", port |-> p, ofc |-> ofPort[p].ofc, dpid |-> ofPort[p].dpid])
  /\ ofPort' = [ofPort EXCEPT ![p] = Nothing]
  /\ behind' = behind \cup {ofPort[p].ofc}
  /\ UNCHANGED <<ofcs, ofcsMade, ofcThreads, threadless, edited, blurred, hurried, faults>>

\* net_update_ofc_thread: the thread of the controller; for none, or if it has
\* none, all that are listed for the dpid; Default if there is no dpid either.
ThreadsFor(c, d) ==
  IF c # Default /\ c \in ofcsThread THEN {c}
  ELSE IF d # Nothing THEN Listed(d)
  ELSE {c} \cap {Default}

PickThread(h) ==
  /\ http[h].op = "pick"
  /\ Continue(h, [op |-> "tell", ofc |-> http[h].ofc,
                  to |-> ThreadsFor(http[h].ofc, http[h].dpid)])
  /\ hurried' = hurried \cup {c \in {http[h].ofc} :
                  \E k \in HttpThreads : http[k].op = "load" /\ http[k].ofc = c}
  /\ UNCHANGED <<ofcRows, ofcThreads, behind, threadless, edited, blurred, faults>>

\* One insert_task after the other; to nobody it is an error, which changes nothing.
TellThread(h) ==
  /\ http[h].op = "tell"
  /\ IF http[h].to = {}
     THEN Finish(h) /\ UNCHANGED ofTasks
     ELSE \E c \in http[h].to :
            /\ ofTasks' = [ofTasks EXCEPT ![c] = Append(@, "update")]
            /\ Continue(h, [http[h] EXCEPT !.to = @ \ {c}])
  /\ UNCHANGED <<ofcRows, ofcsThread, ofcsThreadDpid, running, behind, threadless, edited,
                 blurred, hurried, faults>>

-----------------------------------------------------------------------------
(* The threads *)

\* The tasks behind 'exit' stay where they are.
TakeOfTask(c) ==
  /\ c \in running
  /\ ofTasks[c] # << >>
  /\ ofTasks' = [ofTasks EXCEPT ![c] = Tail(@)]
  /\ IF Head(ofTasks[c]) = "exit"
     THEN running' = running \ {c} /\ UNCHANGED behind
     ELSE behind' = behind \ {c} /\ UNCHANGED running
  /\ UNCHANGED <<http, ops, faults, ofcRows, ofcsThread, ofcsThreadDpid, threadless, edited,
                 blurred, hurried>>

\* start_service: the Default controller, then the rows in any order.  What was
\* behind is so for good: nobody updates the networks then.
StartOfcs ==
  /\ ofcsThread' = Present
  /\ ofcsThreadDpid' = << <<DefaultDpid, Default>> >> \o
       SetToSeq({<<ofcs[c], c>> : c \in Present \ {Default}})
  /\ running' = ofcsThread'
  /\ ofTasks' = [c \in Known |-> << >>]
  /\ behind' = {} /\ threadless' = {} /\ edited' = {} /\ blurred' = {} /\ hurried' = {}
  /\ UNCHANGED ofcRows

\* The first start, with the controllers the database has.
ControllersInit(stored) ==
  /\ ofcs = stored
  /\ ofcsMade = {c \in Ofcs : HasRow(c)}
  /\ ofcsThread = Present
  /\ ofcsThreadDpid = << <<DefaultDpid, Default>> >> \o
       SetToSeq({<<ofcs[c], c>> : c \in ofcsMade})
  /\ running = ofcsThread
  /\ ofTasks = [c \in Known |-> << >>]
  /\ ofPort = [p \in OfPorts |-> Nothing]
  /\ behind = {} /\ threadless = {} /\ edited = {} /\ blurred = {} /\ hurried = {}

OfcRequest(h) ==
  \/ \E c \in Ofcs, d \in Dpids : NewOfController(h, c, d) \/ EditOfController(h, c, d)
  \/ \E c \in Ofcs : DeleteOfController(h, c)
  \/ \E p \in OfPorts, c \in Known : NewExternalPort(h, p, c)
  \/ \E p \in OfPorts : DeletePort(h, p)

OfcStep(h) ==
  \/ CreateOfcTask(h) \/ DeleteOfc(h) \/ ForgetOfc(h) \/ ForgetDpid(h) \/ RemoveDpid(h) \/ ExitOfc(h)
  \/ InsertPort(h) \/ PickThread(h) \/ TellThread(h)

-----------------------------------------------------------------------------
(* Properties *)

ControllersTypeOK ==
  /\ ofcs \in [Ofcs -> Dpids \cup {Nothing}]
  /\ ofcsThread \subseteq Known
  /\ running \subseteq Known
  /\ ofPort \in [OfPorts -> [ofc : Known, dpid : Dpids] \cup {Nothing}]

\* When all requests are answered, the threads, and the controllers the list
\* gives for a dpid, are those a start of the service would make; the others
\* have been told to end.  The exceptions: the connector could not be loaded, or
\* the controller was deleted before, or at the same time as another with its
\* dpid; a dpid was edited, or one of several controllers with it was deleted.
ControllersAsLoaded ==
  AllAnswered =>
    /\ ofcsThread \ threadless = Present \ threadless
    /\ \A d \in Dpids \ (edited \cup blurred) :
         Listed(d) \ threadless = {c \in Present \ threadless : DpidOf(c) = d}
    /\ \A c \in running \ (ofcsThread \cup threadless) : "exit" \in ToSet(ofTasks[c])

\* When the threads have done what they were told, each has updated its network
\* after the last change of a port: a task is never left to another thread or
\* to one that has ended.  The exceptions: a controller without a thread, one
\* that had a port before its thread was started, one deleted before it was told
\* of the port it had just lost, and the Default one, looked for by its dpid.
PortChangesAreTold ==
  (AllAnswered /\ \A c \in running : ofTasks[c] = << >>) =>
    \A c \in behind :
      \/ c \in threadless \cup hurried
      \/ c = Default /\ DefaultDpid \in blurred
=============================================================================
