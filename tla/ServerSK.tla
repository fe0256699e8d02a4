------------------------------ MODULE ServerSK ------------------------------
(***************************************************************************)
(* CHAPTR12/serverSK.c: main looks for a free slot, lets an accept thread  *)
(* wait for a client and start its server thread in the slot, and at a     *)
(* shut down goes round the slots until no server thread is left.  A slot  *)
(* has a critical section; it is held for more than a step by the accept   *)
(* thread and by main in its shut down.  Clients send, quit or disconnect  *)
(* when they like.                                                         *)
(***************************************************************************)
EXTENDS Integers

CONSTANT SK_CLIENTS   \* MAX_CLIENTS of this server, the number of slots

SlotsAssumption == SK_CLIENTS \in Nat \ {0}

VARIABLES shutFlag, skMain, iThread, nRunningThreads,
          thState,          \* SERVER_SLOT_FREE, SERVER_THREAD_RUNNING, ...
          threadCs,         \* who holds it from one step to the next
          srvThread,        \* what the thread of the slot does
          acceptThread,
          acceptSlot,       \* its argument
          hAcceptThread     \* main has its handle

mainVars == <<skMain, iThread, nRunningThreads>>
slotVars == <<thState, threadCs, srvThread>>
acceptVars == <<acceptThread, acceptSlot, hAcceptThread>>
skVars == <<shutFlag, mainVars, slotVars, acceptVars>>

Slot == 0 .. SK_CLIENTS - 1

SKInit ==
  /\ shutFlag = FALSE
  /\ skMain = "scan" /\ iThread = 0 /\ nRunningThreads = 0
  /\ thState = [s \in Slot |-> "FREE"]
  /\ threadCs = [s \in Slot |-> "none"]
  /\ srvThread = [s \in Slot |-> "none"]
  /\ acceptThread = "none" /\ acceptSlot = 0 /\ hAcceptThread = FALSE

Ended(s) == srvThread[s] \in {"ended", "crashed"}
NextSlot == iThread' = IF iThread = SK_CLIENTS - 1 THEN 0 ELSE iThread + 1
Marks(s, state) == thState' = [thState EXCEPT ![s] = state]

-----------------------------------------------------------------------------
(* main, until the shut down *)

\* A stopped slot is freed when its thread has ended; a free one is used.
ScanSlot ==
  /\ skMain = "scan" /\ ~shutFlag
  /\ threadCs[iThread] = "none"
  /\ thState[iThread] = "STOPPED" => Ended(iThread)
  /\ IF thState[iThread] \in {"STOPPED", "FREE"}
     THEN Marks(iThread, "FREE") /\ skMain' = "accept" /\ UNCHANGED iThread
     ELSE NextSlot /\ UNCHANGED <<thState, skMain>>
  /\ UNCHANGED <<shutFlag, nRunningThreads, threadCs, srvThread, acceptVars>>

\* Both loops look at the flag; in the slot it is at, main first waits for
\* a stopped thread.
LeaveScan ==
  /\ skMain \in {"scan", "accept", "poll"} /\ shutFlag
  /\ \/ UNCHANGED thState
     \/ /\ skMain = "scan" /\ threadCs[iThread] = "none"
        /\ thState[iThread] = "STOPPED" /\ Ended(iThread)
        /\ Marks(iThread, "FREE")
  /\ skMain' = "drain" /\ iThread' = 0
  /\ UNCHANGED <<shutFlag, nRunningThreads, threadCs, srvThread, acceptVars>>

CreateAcceptThread ==
  /\ skMain = "accept"
  /\ acceptThread' = "accept" /\ acceptSlot' = iThread /\ hAcceptThread' = TRUE
  /\ skMain' = "poll"
  /\ UNCHANGED <<shutFlag, iThread, nRunningThreads, slotVars>>

\* When the flag has just been set, the handle stays open.
AcceptThreadEnded ==
  /\ skMain = "poll" /\ acceptThread = "ended"
  /\ IF shutFlag THEN skMain' = "drain" /\ UNCHANGED hAcceptThread
                 ELSE skMain' = "scan" /\ hAcceptThread' = FALSE
  /\ iThread' = 0
  /\ UNCHANGED <<shutFlag, nRunningThreads, slotVars, acceptThread, acceptSlot>>

-----------------------------------------------------------------------------
(* main, in the shut down *)

DrainEnter ==
  /\ skMain = "drain" /\ threadCs[iThread] = "none"
  /\ threadCs' = [threadCs EXCEPT ![iThread] = "main"]
  /\ skMain' = "wait"
  /\ UNCHANGED <<shutFlag, iThread, nRunningThreads, thState, srvThread, acceptVars>>

\* The section is left; after the last slot the threads still running decide.
DrainLeave(running) ==
  /\ threadCs' = [threadCs EXCEPT ![iThread] = "none"]
  /\ NextSlot
  /\ IF iThread' # 0
     THEN skMain' = "drain" /\ nRunningThreads' = running
     ELSE skMain' = (IF running = 0 THEN "close" ELSE "drain") /\ nRunningThreads' = 0

\* Fault: a slot whose thread does not end in time is not counted.
DrainSlot_NotCounted ==
  /\ skMain = "wait"
  /\ \/ thState[iThread] \in {"RUNNING", "STOPPED"} /\ Ended(iThread) /\ Marks(iThread, "INVALID")
     \/ UNCHANGED thState
  /\ DrainLeave(nRunningThreads)
  /\ UNCHANGED <<shutFlag, srvThread, acceptVars>>

\* A wait of ten seconds, and when it fails another; if the thread ends in
\* the second it is neither counted nor is the slot made invalid.
DrainSlot ==
  /\ skMain = "wait"
  /\ \/ /\ thState[iThread] \notin {"RUNNING", "STOPPED"}
        /\ DrainLeave(nRunningThreads) /\ UNCHANGED thState
     \/ /\ thState[iThread] \in {"RUNNING", "STOPPED"} /\ Ended(iThread)
        /\ \/ Marks(iThread, "INVALID")
           \/ UNCHANGED thState
        /\ DrainLeave(nRunningThreads)
     \/ /\ thState[iThread] \in {"RUNNING", "STOPPED"} /\ ~Ended(iThread)
        /\ DrainLeave(nRunningThreads + 1) /\ UNCHANGED thState
  /\ UNCHANGED <<shutFlag, srvThread, acceptVars>>

\* closesocket makes an accept fail, and ReportError in the accept thread
\* ends the process.
ServerExits ==
  /\ skMain = "close"
  /\ hAcceptThread => acceptThread \in {"accept", "ended"}
  /\ skMain' = "done"
  /\ UNCHANGED <<shutFlag, iThread, nRunningThreads, slotVars, acceptVars>>

Main == \/ ScanSlot \/ LeaveScan \/ CreateAcceptThread \/ AcceptThreadEnded
        \/ DrainEnter \/ DrainSlot \/ ServerExits

-----------------------------------------------------------------------------
(* AcceptThread, Server and the handler, as long as there is a process *)

Accept ==
  /\ acceptThread = "accept" /\ skMain # "done"
  /\ acceptThread' = "create"
  /\ UNCHANGED <<shutFlag, mainVars, slotVars, acceptSlot, hAcceptThread>>

\* Fault: the thread is created before the section is entered.
StartServer_NoCs ==
  /\ acceptThread = "create" /\ skMain # "done"
  /\ srvThread' = [srvThread EXCEPT ![acceptSlot] = "loop"]
  /\ acceptThread' = "mark"
  /\ UNCHANGED <<shutFlag, mainVars, thState, threadCs, acceptSlot, hAcceptThread>>

StartServer ==
  /\ acceptThread = "create" /\ skMain # "done"
  /\ threadCs[acceptSlot] = "none"
  /\ threadCs' = [threadCs EXCEPT ![acceptSlot] = "accept"]
  /\ srvThread' = [srvThread EXCEPT ![acceptSlot] = "loop"]
  /\ acceptThread' = "mark"
  /\ UNCHANGED <<shutFlag, mainVars, thState, acceptSlot, hAcceptThread>>

MarkRunning ==
  /\ acceptThread = "mark" /\ skMain # "done"
  /\ Marks(acceptSlot, "RUNNING")
  /\ threadCs' = [threadCs EXCEPT ![acceptSlot] = "none"]
  /\ acceptThread' = "ended"
  /\ UNCHANGED <<shutFlag, mainVars, srvThread, acceptSlot, hAcceptThread>>

Moves(s, from, to) ==
  /\ skMain # "done"
  /\ srvThread[s] = from
  /\ srvThread' = [srvThread EXCEPT ![s] = to]

\* A command, or $Quit, or the client has gone; then the flag once more.
\* "crashed": an exception in the library's command, and no word to the slot.
ServeSlot(s) ==
  /\ \/ Moves(s, "loop", IF shutFlag THEN "stop" ELSE "receive")
     \/ ~shutFlag /\ Moves(s, "receive", "command")
     \/ Moves(s, "receive", "stop")
     \/ Moves(s, "command", "loop")
     \/ Moves(s, "command", "crashed")
     \/ Moves(s, "leave", "ended")
  /\ UNCHANGED <<shutFlag, mainVars, thState, threadCs, acceptVars>>

\* But for the client's part in it.
ServesItself(s) == srvThread[s] # "receive" /\ ServeSlot(s)

StopServer(s) ==
  /\ threadCs[s] = "none"
  /\ Moves(s, "stop", "leave")
  /\ Marks(s, "STOPPED")
  /\ UNCHANGED <<shutFlag, mainVars, threadCs, acceptVars>>

SKHandler ==
  /\ ~shutFlag /\ shutFlag' = TRUE
  /\ UNCHANGED <<mainVars, slotVars, acceptVars>>

SKNext == \/ Main
          \/ Accept \/ StartServer \/ MarkRunning
          \/ \E s \in Slot : ServeSlot(s) \/ StopServer(s)
          \/ SKHandler
-----------------------------------------------------------------------------
Running(s) == srvThread[s] \notin {"none", "ended", "crashed"}

(***************************************************************************)
(* What main decides by is true of the threads: a slot it reuses has no    *)
(* running thread, one whose thread has ended is known as such, and "Wait  *)
(* for any active server threads to terminate": after the shut down none   *)
(* is running, but for one that was accepted after main had been at its    *)
(* slot.                                                                   *)
(***************************************************************************)
SlotsTellThreads ==
  /\ \A s \in Slot :
       /\ thState[s] = "FREE" /\ Running(s) => acceptSlot = s /\ acceptThread = "mark"
       /\ thState[s] = "RUNNING" => srvThread[s] \notin {"none", "ended"}
  /\ skMain \in {"close", "done"} =>
       \A s \in Slot : Running(s) => hAcceptThread /\ acceptSlot = s

(***************************************************************************)
(* After the handler has set shutFlag, the server exits, or waits for a    *)
(* client's next request as long as the client likes.                      *)
(***************************************************************************)
ShutDownEnded == skMain = "done" \/ \E s \in Slot : srvThread[s] = "receive"
=============================================================================
