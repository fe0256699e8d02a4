------------------------------ MODULE ServerNP ------------------------------
(***************************************************************************)
(* CHAPTR11/serverNP.C and clientNP.C: a server thread for every instance  *)
(* of a named pipe, which leaves the wait for a client to a Connect thread *)
(* and looks at shutDown from time to time; a monitor that cancels what    *)
(* the threads wait for on the pipes once shutDown is set; clients that    *)
(* send a command at a time.  A command is carried out and answered in one *)
(* step, for the client reads until the answer's end.  The mailslot, the   *)
(* temporary files and the failures of the system are left out.            *)
(***************************************************************************)
EXTENDS Naturals

CONSTANTS MAX_CLIENTS,    \* instances of the pipe
          Requests        \* bound on what the client of each writes

VARIABLES npShutDown,     \* shutDown
          npipe,          \* state of each instance: "connected" to its client
          request,        \* what the client has written to it: "none" when answered
          conTh,          \* its Connect thread
          hConTh,         \* the server thread has a handle to that thread
          server,
          monitor,        \* 0: broadcasts, else the instance it comes to next
          npMain,
          late,           \* a wait on the instance began after its CancelIoEx
          overwritten     \* history: a shut down requested has been undone

npVars == <<npShutDown, npipe, request, conTh, hConTh, server, monitor, npMain, late,
            overwritten>>
historyVars == <<late, overwritten>>
pipeVars == <<npipe, request>>

Instance == 1 .. MAX_CLIENTS

\* A new instance takes a client even before ConnectNamedPipe.
NPInit ==
  /\ npShutDown = FALSE
  /\ npipe = [i \in Instance |-> "listening"]
  /\ request = [i \in Instance |-> "none"]
  /\ conTh = [i \in Instance |-> "none"] /\ hConTh = [i \in Instance |-> FALSE]
  /\ server = [i \in Instance |-> "loop"]
  /\ monitor = 0 /\ npMain = "wait"
  /\ late = [i \in Instance |-> FALSE] /\ overwritten = FALSE

ServerAt(i, from, to) == server[i] = from /\ server' = [server EXCEPT ![i] = to]

\* A wait for instance i begins: has the monitor been there?
Begins(i) == late' = [late EXCEPT ![i] = @ \/ monitor > i]

\* Opening instance i ends a ConnectNamedPipe on it.
Opened(i) == conTh' = [conTh EXCEPT ![i] = IF @ = "pending" THEN "ended" ELSE @]

-----------------------------------------------------------------------------
(* Server *)

\* A Connect thread that is left, after a shut down undone, and the new one are
\* one here: the call of the second begins when that of the first has ended.
CreateConnect(i) ==
  /\ ~npShutDown /\ ServerAt(i, "loop", "wait")
  /\ \/ /\ conTh[i] \in {"none", "ended"}
        /\ conTh' = [conTh EXCEPT ![i] = "start"] /\ UNCHANGED late
     \/ /\ conTh[i] \in {"start", "pending"}
        /\ late' = [late EXCEPT ![i] = TRUE] /\ UNCHANGED conTh
  /\ hConTh' = [hConTh EXCEPT ![i] = TRUE]
  /\ UNCHANGED <<npShutDown, pipeVars, monitor, npMain, overwritten>>

LeaveLoop(i) ==
  /\ npShutDown /\ ServerAt(i, "loop", "end")
  /\ UNCHANGED <<npShutDown, pipeVars, conTh, hConTh, monitor, npMain, historyVars>>

WaitEnds(i) ==
  /\ npShutDown \/ conTh[i] = "ended"
  /\ ServerAt(i, "wait", "awake")
  /\ UNCHANGED <<npShutDown, pipeVars, conTh, hConTh, monitor, npMain, historyVars>>

\* Whatever ended the wait, without shutDown it is taken for a connection.
Connected(i) ==
  /\ \/ npShutDown /\ ServerAt(i, "awake", "loop") /\ UNCHANGED hConTh
     \/ ~npShutDown /\ ServerAt(i, "awake", "test") /\ hConTh' = [hConTh EXCEPT ![i] = FALSE]
  /\ UNCHANGED <<npShutDown, pipeVars, conTh, monitor, npMain, historyVars>>

TestShutDown(i) ==
  /\ \/ npShutDown /\ ServerAt(i, "test", "disconnect") /\ UNCHANGED late
     \/ ~npShutDown /\ ServerAt(i, "test", "call") /\ UNCHANGED late
     \/ ServerAt(i, "call", "read") /\ Begins(i)
  /\ UNCHANGED <<overwritten, npShutDown, pipeVars, conTh, hConTh, monitor, npMain>>

\* shutDown = shutDown || (_tcscmp (...) == 0): the flag is read here, and ...
ReadRequest(i) ==
  /\ request[i] \in {"command", "$ShutDownServer"}
  /\ ServerAt(i, "read", IF npShutDown \/ request[i] = "$ShutDownServer" THEN "set" ELSE "clear")
  /\ request' = [request EXCEPT ![i] = "taken"]
  /\ UNCHANGED <<npShutDown, npipe, conTh, hConTh, monitor, npMain, historyVars>>

\* ... written here, whatever other threads have written in between.
WriteFlag(i) ==
  /\ \/ ServerAt(i, "set", "answer") /\ npShutDown' = TRUE
     \/ ServerAt(i, "clear", "answer") /\ npShutDown' = FALSE
  /\ overwritten' = (overwritten \/ (npShutDown /\ ~npShutDown'))
  /\ UNCHANGED <<pipeVars, conTh, hConTh, monitor, npMain, late>>

\* With shutDown set, also by another thread, there is no answer.
Answer(i) ==
  /\ ServerAt(i, "answer", "test")
  /\ request' = IF npShutDown THEN request ELSE [request EXCEPT ![i] = "none"]
  /\ UNCHANGED <<npShutDown, npipe, conTh, hConTh, monitor, npMain, historyVars>>

\* Other calls for the instance wait behind a pending ConnectNamedPipe.
ReadFails(i) ==
  /\ npipe[i] # "connected" /\ request[i] = "none" /\ conTh[i] # "pending"
  /\ ServerAt(i, "read", "disconnect")
  /\ UNCHANGED <<npShutDown, pipeVars, conTh, hConTh, monitor, npMain, historyVars>>

\* FlushFileBuffers and DisconnectNamedPipe; the client's calls fail.
Disconnect(i) ==
  /\ conTh[i] # "pending" /\ ServerAt(i, "disconnect", "loop")
  /\ npipe' = [npipe EXCEPT ![i] = "disconnected"]
  /\ request' = [request EXCEPT ![i] = "none"]
  /\ UNCHANGED <<npShutDown, conTh, hConTh, monitor, npMain, historyVars>>

\* GetExitCodeThread
TestConnect(i) ==
  /\ \/ hConTh[i] /\ conTh[i] # "ended" /\ ServerAt(i, "end", "force")
     \/ ~(hConTh[i] /\ conTh[i] # "ended") /\ ServerAt(i, "end", "done")
  /\ UNCHANGED <<npShutDown, pipeVars, conTh, hConTh, monitor, npMain, historyVars>>

\* CreateFile opens any instance that listens, and CloseHandle breaks it.
ForceConnect(i) ==
  /\ ServerAt(i, "force", "join")
  /\ \/ \E j \in Instance :
          /\ npipe[j] = "listening"
          /\ npipe' = [npipe EXCEPT ![j] = "broken"]
          /\ Opened(j)
     \/ (\A j \in Instance : npipe[j] # "listening") /\ UNCHANGED <<npipe, conTh>>
  /\ UNCHANGED <<npShutDown, request, hConTh, monitor, npMain, historyVars>>

JoinConnect(i) ==
  /\ conTh[i] = "ended" /\ ServerAt(i, "join", "done")
  /\ UNCHANGED <<npShutDown, pipeVars, conTh, hConTh, monitor, npMain, historyVars>>

Server(i) ==
  \/ CreateConnect(i) \/ LeaveLoop(i) \/ WaitEnds(i) \/ Connected(i) \/ TestShutDown(i)
  \/ ReadRequest(i) \/ WriteFlag(i) \/ Answer(i) \/ ReadFails(i) \/ Disconnect(i)
  \/ TestConnect(i) \/ ForceConnect(i) \/ JoinConnect(i)

\* ConnectNamedPipe returns at once when a client came before.
Connect(i) ==
  /\ conTh[i] = "start"
  /\ \/ /\ npipe[i] \in {"connected", "broken"}
        /\ conTh' = [conTh EXCEPT ![i] = "ended"]
        /\ UNCHANGED <<npipe, late>>
     \/ /\ npipe[i] \notin {"connected", "broken"}
        /\ conTh' = [conTh EXCEPT ![i] = "pending"]
        /\ npipe' = [npipe EXCEPT ![i] = "listening"]
        /\ Begins(i)
  /\ UNCHANGED <<overwritten, npShutDown, request, hConTh, server, monitor, npMain>>

-----------------------------------------------------------------------------
(* The monitor, main, the console's handler and the clients *)

\* The monitor sees the flag, once and for all.
BroadcastEnds ==
  /\ npShutDown /\ monitor = 0 /\ monitor' = 1
  /\ UNCHANGED <<npShutDown, pipeVars, conTh, hConTh, server, npMain, historyVars>>

\* Fault: the last instance is left out.
CancelIo_NotLast ==
  /\ monitor \in Instance /\ monitor' = monitor + 1
  /\ conTh' = [conTh EXCEPT ![monitor] =
                IF @ = "pending" /\ monitor < MAX_CLIENTS THEN "ended" ELSE @]
  /\ server' = [server EXCEPT ![monitor] =
                IF @ = "read" /\ monitor < MAX_CLIENTS THEN "disconnect" ELSE @]
  /\ UNCHANGED <<npShutDown, pipeVars, hConTh, npMain, historyVars>>

\* CancelIoEx ends the waits there are.
CancelIo ==
  /\ monitor \in Instance /\ monitor' = monitor + 1
  /\ conTh' = [conTh EXCEPT ![monitor] = IF @ = "pending" THEN "ended" ELSE @]
  /\ server' = [server EXCEPT ![monitor] = IF @ = "read" THEN "disconnect" ELSE @]
  /\ UNCHANGED <<npShutDown, pipeVars, hConTh, npMain, historyVars>>

\* The process exits, and its handles are closed.
ServerExit ==
  /\ npMain = "wait"
  /\ monitor = MAX_CLIENTS + 1 /\ \A i \in Instance : server[i] = "done"
  /\ npMain' = "done"
  /\ npipe' = [i \in Instance |-> "disconnected"]
  /\ request' = [i \in Instance |-> "none"]
  /\ UNCHANGED <<npShutDown, conTh, hConTh, server, monitor, historyVars>>

Handler ==
  /\ ~npShutDown /\ npShutDown' = TRUE
  /\ UNCHANGED <<pipeVars, conTh, hConTh, server, monitor, npMain, historyVars>>

\* A client of instance i: there are as many as find an instance.
OpenPipe(i) ==
  /\ npipe[i] = "listening"
  /\ npipe' = [npipe EXCEPT ![i] = "connected"]
  /\ Opened(i)
  /\ UNCHANGED <<npShutDown, request, hConTh, server, monitor, npMain, historyVars>>

WriteRequest(i) ==
  /\ npipe[i] = "connected" /\ request[i] = "none"
  /\ \E r \in Requests[i] : request' = [request EXCEPT ![i] = r]
  /\ UNCHANGED <<npShutDown, npipe, conTh, hConTh, server, monitor, npMain, historyVars>>

Quit(i) ==
  /\ npipe[i] = "connected" /\ request[i] = "none"
  /\ npipe' = [npipe EXCEPT ![i] = "broken"]
  /\ UNCHANGED <<npShutDown, request, conTh, hConTh, server, monitor, npMain, historyVars>>

Client(i) == OpenPipe(i) \/ WriteRequest(i) \/ Quit(i)

\* The bound: after a shut down undone, users and clients do no more.
Users == ~overwritten /\ (Handler \/ \E i \in Instance : Client(i))

NPNext ==
  \/ \E i \in Instance : Server(i) \/ Connect(i)
  \/ BroadcastEnds \/ CancelIo \/ ServerExit \/ Users
-----------------------------------------------------------------------------
(***************************************************************************)
(* "Cancel all outstanding I/O operations": when shutDown stays set, every *)
(* server thread ends, but for one whose ReadFile or ConnectNamedPipe      *)
(* began after the monitor had been at its instance.  It need not stay     *)
(* set: a thread that has read the flag before writes 0 over it.           *)
(***************************************************************************)
ServersEnded == \A i \in Instance : server[i] = "done" \/ late[i]
ServerStopped == ServersEnded \/ ~npShutDown

(***************************************************************************)
(* A client that has sent a command does not wait for ever for the answer  *)
(* or an error, unless such a thread keeps the server from ending, or a    *)
(* shut down that left its command without an answer has been undone.      *)
(***************************************************************************)
AwaitsAnswer == \E i \in Instance : request[i] # "none"
Answered == ~AwaitsAnswer \/ overwritten \/ \E i \in Instance : late[i]
=============================================================================
