------------------------------ MODULE Services ------------------------------
(***************************************************************************)
(* CHAPTR13/SimpleService.C, a service of two threads: ServiceMain, which  *)
(* reports its status every second until it is told to shut down, and the  *)
(* main thread, in which the dispatcher runs ServerCtrlHandler for every   *)
(* control of the control manager, and returns when that knows the service *)
(* as stopped.                                                             *)
(*                                                                         *)
(* Both call UpdateStatus, which works on one structure without a lock:    *)
(* it stores the new state, if there is one, and calls SetServiceStatus,   *)
(* which copies the structure and sends the copy.  The checkpoint is left  *)
(* out, as is pauseFlag, which nobody reads.                               *)
(***************************************************************************)

VARIABLES shutDown,
          dwCurrentState,  \* of hServStatus
          hSStat,          \* the handler is registered
          service,         \* where ServiceMain is
          dispatcher,      \* where the main thread is
          update,          \* where each thread's call of UpdateStatus is
          sent,            \* the copy that it sends
          manager,         \* the last state that reached the control manager
          overtaken        \* history: the stop came after a later word than STOPPED

serviceVars == <<shutDown, dwCurrentState, hSStat, service, dispatcher, update, sent, manager,
                 overtaken>>

StatusThreads == {"service", "dispatcher"}

\* Instead of a state: leave the one there is.
NoChange == "unchanged"

ServicesInit ==
  /\ shutDown = FALSE /\ hSStat = FALSE /\ overtaken = FALSE
  /\ dwCurrentState = "START_PENDING" /\ manager = "START_PENDING"
  /\ service = "register" /\ dispatcher = "idle"
  /\ update = [t \in StatusThreads |-> "returned"]
  /\ sent = [t \in StatusThreads |-> NoChange]

Calls(t, place) == update' = [update EXCEPT ![t] = place]

-----------------------------------------------------------------------------
(* UpdateStatus *)

\* Its first steps, in one: only the state is shared.
UpdateStatus(t, new) ==
  /\ update[t] = "returned" /\ Calls(t, "copy")
  /\ dwCurrentState' = IF new = NoChange THEN dwCurrentState ELSE new
  /\ overtaken' = (overtaken \/ (new = "STOP_PENDING" /\ dwCurrentState = "STOPPED"))
  /\ UNCHANGED <<hSStat, sent, manager>>

\* Without a handle SetServiceStatus fails, and UpdateStatus calls itself until
\* the stack is used up.
CopyStatus(t) ==
  /\ update[t] = "copy"
  /\ Calls(t, IF hSStat THEN "send" ELSE "overflow")
  /\ sent' = [sent EXCEPT ![t] = dwCurrentState]
  /\ UNCHANGED <<shutDown, dwCurrentState, hSStat, service, dispatcher, manager, overtaken>>

SendStatus(t) ==
  /\ update[t] = "send" /\ Calls(t, "returned")
  /\ manager' = sent[t]
  /\ overtaken' = (overtaken \/ (manager = "STOPPED" /\ sent[t] # "STOPPED"))
  /\ UNCHANGED <<shutDown, dwCurrentState, hSStat, service, dispatcher, sent>>

SetServiceStatus(t) == CopyStatus(t) \/ SendStatus(t)

-----------------------------------------------------------------------------
(* ServiceMain, with ServiceSpecific *)

ServiceGoes(from, to) == service = from /\ service' = to /\ UNCHANGED <<shutDown, dispatcher>>

Register ==
  /\ ServiceGoes("register", "starting") /\ hSStat' = TRUE /\ Calls("service", "copy")
  /\ UNCHANGED <<dwCurrentState, sent, manager, overtaken>>

RegisterFails == ServiceGoes("register", "ended") /\ UpdateStatus("service", "STOPPED")

\* Fault: the last report leaves the state as it is.
ServiceLoop_NoChange ==
  \/ ~shutDown /\ ServiceGoes("loop", "loop") /\ UpdateStatus("service", NoChange)
  \/ shutDown /\ ServiceGoes("loop", "ended") /\ UpdateStatus("service", NoChange)

ServiceLoop ==
  \/ ~shutDown /\ ServiceGoes("loop", "loop") /\ UpdateStatus("service", NoChange)
  \/ shutDown /\ ServiceGoes("loop", "ended") /\ UpdateStatus("service", "STOPPED")

ServiceMain ==
  \/ Register \/ RegisterFails
  \/ ServiceGoes("starting", "running") /\ UpdateStatus("service", NoChange)
  \/ ServiceGoes("running", "loop") /\ UpdateStatus("service", "RUNNING")
  \/ ServiceLoop

-----------------------------------------------------------------------------
(* The main thread *)

\* The manager sends controls to a service that it knows as running.
Control ==
  /\ dispatcher = "idle" /\ manager = "RUNNING"
  /\ dispatcher' \in {"stop", "interrogate"}
  /\ UNCHANGED <<shutDown, dwCurrentState, hSStat, service, update, sent, manager, overtaken>>

SetShutDown ==
  /\ dispatcher = "stop" /\ dispatcher' = "stopping" /\ shutDown' = TRUE
  /\ UNCHANGED <<dwCurrentState, hSStat, service, update, sent, manager, overtaken>>

ServerCtrlHandler ==
  \/ SetShutDown
  \/ /\ UNCHANGED <<shutDown, service>>
     /\ \/ /\ dispatcher = "stopping" /\ dispatcher' = "interrogate"
           /\ UpdateStatus("dispatcher", "STOP_PENDING")
        \/ /\ dispatcher = "interrogate" /\ dispatcher' = "handled"
           /\ UpdateStatus("dispatcher", NoChange)

HandlerReturns ==
  /\ dispatcher = "handled" /\ update["dispatcher"] = "returned" /\ dispatcher' = "idle"
  /\ UNCHANGED <<shutDown, dwCurrentState, hSStat, service, update, sent, manager, overtaken>>

DispatcherReturns ==
  /\ dispatcher = "idle" /\ manager = "STOPPED" /\ dispatcher' = "returned"
  /\ UNCHANGED <<shutDown, dwCurrentState, hSStat, service, update, sent, manager, overtaken>>

ServiceThread == ServiceMain \/ SetServiceStatus("service")

DispatcherThread ==
  ServerCtrlHandler \/ HandlerReturns \/ DispatcherReturns \/ SetServiceStatus("dispatcher")

\* The process ends with the dispatcher, unless the manager's last word of the
\* service is not that it has stopped.
ServiceEnded == dispatcher = "returned" \/ overtaken
=============================================================================
