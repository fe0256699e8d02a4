---------------------------- MODULE MutexSemQueue ----------------------------
(***************************************************************************)
(* WindowsViaCPP5th, 09-Queue/Queue.cpp: a queue whose semaphore counts    *)
(* its elements.  Append takes the mutex, counts its element and stores it *)
(* where the count was; Remove waits for the mutex and the semaphore at    *)
(* once.  All waits are finite.                                            *)
(***************************************************************************)
EXTENDS Integers, Sequences

CONSTANTS QueueClients, QueueServers,
          Unowned, m_nMaxElements,
          ClientRequests           \* bound on the requests of a client

VARIABLES m_hmtxQ, m_hsemNumElements,
          m_pElements,          \* from 1
          msqNumber,            \* nRequestNum of each client
          msqpc,
          lPrevCount,           \* of the client that appends
          msqShutdown,          \* g_fShutdown
          msqMain,
          appended              \* what was counted in and not yet taken out

msqVars == <<m_hmtxQ, m_hsemNumElements, m_pElements, msqNumber, msqpc,
             lPrevCount, msqShutdown, msqMain, appended>>
objectVars == <<m_hmtxQ, m_hsemNumElements, m_pElements, lPrevCount, appended>>

MSQThreads == QueueClients \cup QueueServers

MSQAssumption == /\ m_nMaxElements \in Nat
                 /\ Unowned \notin MSQThreads
                 /\ QueueClients \cap QueueServers = {}

Uninitialised == <<>>

MSQInit ==
  /\ m_hmtxQ = Unowned /\ m_hsemNumElements = 0
  /\ m_pElements = [i \in 1 .. m_nMaxElements |-> Uninitialised]
  /\ msqNumber = [c \in QueueClients |-> 0]
  /\ msqpc = [t \in MSQThreads |-> "loop"]
  /\ lPrevCount = 0
  /\ msqShutdown = FALSE /\ msqMain = "dialog" /\ appended = <<>>

Go(t, from, to) == msqpc[t] = from /\ msqpc' = [msqpc EXCEPT ![t] = to]
Element(c) == <<c, msqNumber[c]>>

TestFlag(t, to) == Go(t, "loop", IF msqShutdown THEN "done" ELSE to)

Unlock(t) ==
  /\ Go(t, "unlock", "loop")
  /\ m_hmtxQ' = Unowned
  /\ UNCHANGED <<m_hsemNumElements, m_pElements, lPrevCount, appended, msqNumber, msqShutdown, msqMain>>

-----------------------------------------------------------------------------
(* ClientThread and Append *)

NextRequest(c) ==
  /\ msqNumber[c] < ClientRequests \/ msqShutdown
  /\ TestFlag(c, "append")
  /\ msqNumber' = IF msqShutdown THEN msqNumber ELSE [msqNumber EXCEPT ![c] = @ + 1]
  /\ UNCHANGED <<objectVars, msqShutdown, msqMain>>

AppendWait(c) ==
  /\ \/ m_hmtxQ = Unowned /\ m_hmtxQ' = c /\ Go(c, "append", "count")
     \/ Go(c, "append", "loop") /\ UNCHANGED m_hmtxQ         \* WAIT_TIMEOUT
  /\ UNCHANGED <<m_hsemNumElements, m_pElements, lPrevCount, appended, msqNumber, msqShutdown, msqMain>>

\* ReleaseSemaphore fails when the queue is full.
AppendCount(c) ==
  /\ IF m_hsemNumElements < m_nMaxElements
     THEN /\ Go(c, "count", "store")
          /\ lPrevCount' = m_hsemNumElements
          /\ m_hsemNumElements' = m_hsemNumElements + 1
          /\ appended' = Append(appended, Element(c))
     ELSE Go(c, "count", "unlock") /\ UNCHANGED <<m_hsemNumElements, lPrevCount, appended>>
  /\ UNCHANGED <<m_hmtxQ, m_pElements, msqNumber, msqShutdown, msqMain>>

\* Arrays start at 1 here.
AppendStore(c) ==
  /\ Go(c, "store", "unlock")
  /\ m_pElements' = [m_pElements EXCEPT ![lPrevCount + 1] = Element(c)]
  /\ UNCHANGED <<m_hmtxQ, m_hsemNumElements, lPrevCount, appended, msqNumber, msqShutdown, msqMain>>

QueueClient(c) == \/ NextRequest(c) \/ AppendWait(c) \/ AppendCount(c) \/ AppendStore(c)
                  \/ Unlock(c)

-----------------------------------------------------------------------------
(* ServerThread and Remove *)

\* Fault: the semaphore alone is waited for.
RemoveWait_NoMutex(s) ==
  /\ \/ /\ m_hsemNumElements > 0
        /\ m_hsemNumElements' = m_hsemNumElements - 1
        /\ Go(s, "remove", "shift") /\ UNCHANGED m_hmtxQ
     \/ Go(s, "remove", "loop") /\ UNCHANGED <<m_hmtxQ, m_hsemNumElements>>
  /\ UNCHANGED <<m_pElements, lPrevCount, appended, msqNumber, msqShutdown, msqMain>>

RemoveWait(s) ==
  /\ \/ /\ m_hmtxQ = Unowned /\ m_hsemNumElements > 0
        /\ m_hmtxQ' = s /\ m_hsemNumElements' = m_hsemNumElements - 1
        /\ Go(s, "remove", "shift")
     \/ Go(s, "remove", "loop") /\ UNCHANGED <<m_hmtxQ, m_hsemNumElements>>
  /\ UNCHANGED <<m_pElements, lPrevCount, appended, msqNumber, msqShutdown, msqMain>>

\* Fault: the elements that are left are not moved.
RemoveShift_NoMove(s) ==
  /\ Go(s, "shift", "unlock")
  /\ appended' = IF appended = <<>> THEN <<>> ELSE Tail(appended)
  /\ UNCHANGED <<m_hmtxQ, m_hsemNumElements, m_pElements, lPrevCount, msqNumber, msqShutdown,
                 msqMain>>

\* The element goes to the caller, and MoveMemory leaves the last one in place.
RemoveShift(s) ==
  /\ Go(s, "shift", "unlock")
  /\ m_pElements' = [i \in DOMAIN m_pElements |->
                       IF i < m_nMaxElements THEN m_pElements[i + 1] ELSE m_pElements[i]]
  /\ appended' = IF appended = <<>> THEN <<>> ELSE Tail(appended)
  /\ UNCHANGED <<m_hmtxQ, m_hsemNumElements, lPrevCount, msqNumber, msqShutdown, msqMain>>

QueueServer(s) ==
  \/ TestFlag(s, "remove") /\ UNCHANGED <<objectVars, msqNumber, msqShutdown, msqMain>>
  \/ RemoveWait(s) \/ RemoveShift(s) \/ Unlock(s)

-----------------------------------------------------------------------------
CloseDialog ==
  /\ msqMain = "dialog" /\ msqMain' = "join"
  /\ msqShutdown' = TRUE
  /\ UNCHANGED <<objectVars, msqNumber, msqpc>>

JoinAll ==
  /\ msqMain = "join" /\ msqMain' = "done"
  /\ \A t \in MSQThreads : msqpc[t] = "done"
  /\ UNCHANGED <<objectVars, msqNumber, msqpc, msqShutdown>>

MSQNext == \/ \E c \in QueueClients : QueueClient(c)
           \/ \E s \in QueueServers : QueueServer(s)
           \/ CloseDialog \/ JoinAll
-----------------------------------------------------------------------------
(***************************************************************************)
(* Whoever may take the mutex and the semaphore finds what they stand for: *)
(* as many elements as the semaphore counts, stored, in the order of their *)
(* appends.                                                                *)
(***************************************************************************)
CountedElementsStored ==
  m_hmtxQ = Unowned =>
    /\ m_hsemNumElements = Len(appended)
    /\ SubSeq(m_pElements, 1, m_hsemNumElements) = appended
=============================================================================
