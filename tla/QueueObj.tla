------------------------------ MODULE QueueObj ------------------------------
(***************************************************************************)
(* CHAPTR10/QueueObj.c: the broadcast model.  qNe and qNf are manual-reset *)
(* events, a caller waits with SignalObjectAndWait(qGuard, event,          *)
(* INFINITE) and a change of the queue is announced with PulseEvent, which *)
(* releases exactly the threads that wait at that instant.  The event is   *)
(* therefore never left signalled and has no state of its own.             *)
(* SignalObjectAndWait is taken to release and wait in one step.           *)
(***************************************************************************)
EXTENDS QueueMonitor

vars == queueVars

\* pc after self has pulsed the event that the threads of S wait for, has
\* released the guard and has returned.
Pulsed(self, S) ==
  [t \in Threads |-> IF t = self THEN "out"
                     ELSE IF t \in Waiting(S) THEN "again" ELSE pc[t]]

\* while (QueueEmpty (q)) SignalObjectAndWait (qGuard, qNe, INFINITE, FALSE)
GetWait(c) ==
  /\ pc[c] = "sleep" /\ ~destroyed
  /\ Goto(c, "wait")
  /\ ReleaseGuard(c)
  /\ UNCHANGED <<ringVars, closeVars, status>>

GetRemove(c) ==
  /\ pc[c] = "act" /\ ~destroyed
  /\ QueueRemove(c)
  /\ pc' = Pulsed(c, Producers)
  /\ ReleaseGuard(c)
  /\ status' = [status EXCEPT ![c] = "ok"]
  /\ UNCHANGED closeVars

PutWait(p) ==
  /\ pc[p] = "sleep" /\ ~destroyed
  /\ Goto(p, "wait")
  /\ ReleaseGuard(p)
  /\ UNCHANGED <<ringVars, closeVars, status>>

\* Fault: the change is not announced.
PutInsert_NoPulse(p, m) ==
  /\ pc[p] = "act" /\ ~destroyed
  /\ QueueInsert(m)
  /\ Goto(p, "out")
  /\ ReleaseGuard(p)
  /\ status' = [status EXCEPT ![p] = "ok"]
  /\ UNCHANGED closeVars

PutInsert(p, m) ==
  /\ pc[p] = "act" /\ ~destroyed
  /\ QueueInsert(m)
  /\ pc' = Pulsed(p, Consumers)
  /\ ReleaseGuard(p)
  /\ status' = [status EXCEPT ![p] = "ok"]
  /\ UNCHANGED closeVars

GetTest(c) == Test(c, QueueEmpty)
PutTest(p) == Test(p, QueueFull)

QueueGet(c) == GetTest(c) \/ GetWait(c) \/ GetRemove(c)
QueuePut(p) == PutTest(p) \/ PutWait(p) \/ \E m \in Msg : PutInsert(p, m)

Init == QueueInitialize

Next == \/ CommonStep
        \/ \E c \in Consumers : QueueGet(c)
        \/ \E p \in Producers : QueuePut(p)

Spec == Init /\ [][Next]_vars

-----------------------------------------------------------------------------
TypeOK == MonitorTypeOK

(***************************************************************************)
(* No wake-up is lost: PulseEvent releases everyone who waits, and nobody  *)
(* can start to wait between another thread's change and its pulse, so a   *)
(* thread asleep in QueueGet means an empty queue and one asleep in        *)
(* QueuePut a full one.                                                    *)
(***************************************************************************)
NoLostWakeup ==
  /\ \A c \in Consumers : pc[c] = "wait" => QueueEmpty
  /\ \A p \in Producers : pc[p] = "wait" => QueueFull

(***************************************************************************)
(* QueueObj.c implements the bounded first-in first-out buffer, each call  *)
(* taking effect when it changes the ring.                                 *)
(***************************************************************************)
ImplementsFIFO == FIFO!Spec
=============================================================================
