----------------------------- MODULE QueueObjCV -----------------------------
(***************************************************************************)
(* CHAPTR10/QueueObjCV.c: the queue on Windows condition variables.  qGuard*)
(* is an SRW lock, which is not recursive and is never closed.             *)
(* SleepConditionVariableSRW releases it and sleeps in one step, may       *)
(* return without having been woken, and takes the lock again before it    *)
(* returns; WakeConditionVariable wakes one sleeper and leaves no trace    *)
(* when there is none.                                                     *)
(***************************************************************************)
EXTENDS QueueMonitor

vars == queueVars

AcquireSRWLock(t) == qGuard = NoThread /\ qGuard' = t

\* self wakes one of the threads of S, releases the lock and returns.
WakeConditionVariable(self, S) ==
  IF Waiting(S) = {}
  THEN Goto(self, "out")
  ELSE \E w \in Waiting(S) : pc' = [pc EXCEPT ![w] = "again", ![self] = "out"]

-----------------------------------------------------------------------------
\* The early return, like the others', keeps the lock.
EnterCV(t) ==
  /\ pc[t] = "enter"
  /\ AcquireSRWLock(t)
  /\ IF destroyed
     THEN /\ Goto(t, "out")
          /\ status' = [status EXCEPT ![t] = "destroyed"]
     ELSE /\ Goto(t, "in")
          /\ UNCHANGED status
  /\ UNCHANGED <<ringVars, closeVars>>

SleepConditionVariable(t) ==
  /\ pc[t] = "sleep"
  /\ Goto(t, "wait")
  /\ ReleaseGuard(t)
  /\ UNCHANGED <<ringVars, closeVars, status>>

WakeSpuriously(t) ==
  /\ pc[t] = "wait"
  /\ Goto(t, "again")
  /\ UNCHANGED <<ringVars, closeVars, qGuard, status>>

ReacquireCV(t) ==
  /\ pc[t] = "again"
  /\ AcquireSRWLock(t)
  /\ Goto(t, "in")
  /\ UNCHANGED <<ringVars, closeVars, status>>

GetRemove(c) ==
  /\ pc[c] = "act" /\ ~destroyed
  /\ QueueRemove(c)
  /\ WakeConditionVariable(c, Producers)
  /\ ReleaseGuard(c)
  /\ status' = [status EXCEPT ![c] = "ok"]
  /\ UNCHANGED closeVars

\* Fault: the producer wakes its own side.
PutInsert_WakesProducer(p, m) ==
  /\ pc[p] = "act" /\ ~destroyed
  /\ QueueInsert(m)
  /\ WakeConditionVariable(p, Producers)
  /\ ReleaseGuard(p)
  /\ status' = [status EXCEPT ![p] = "ok"]
  /\ UNCHANGED closeVars

PutInsert(p, m) ==
  /\ pc[p] = "act" /\ ~destroyed
  /\ QueueInsert(m)
  /\ WakeConditionVariable(p, Consumers)
  /\ ReleaseGuard(p)
  /\ status' = [status EXCEPT ![p] = "ok"]
  /\ UNCHANGED closeVars

\* A thread that was asleep when the queue was destroyed, and finds that it
\* has something to do, uses msgArray, which is NULL.
UseDestroyed(t) ==
  /\ pc[t] = "act" /\ destroyed
  /\ pc' = [u \in Threads |-> "crashed"]
  /\ UNCHANGED <<ringVars, closeVars, qGuard, status>>

DestroyCV(d) ==
  /\ pc[d] = "enter"
  /\ qGuard = NoThread
  /\ destroyed' = TRUE
  /\ Goto(d, "gone")
  /\ UNCHANGED <<ringVars, guardOpen, qGuard, status>>

QueueGet(c) == Test(c, QueueEmpty) \/ GetRemove(c)
QueuePut(p) == Test(p, QueueFull) \/ \E m \in Msg : PutInsert(p, m)
Sleep(t) == SleepConditionVariable(t) \/ WakeSpuriously(t)

Init == QueueInitialize

Next == \/ \E t \in Callers : \/ Call(t)
                              \/ EnterCV(t)
                              \/ Sleep(t)
                              \/ ReacquireCV(t)
                              \/ UseDestroyed(t)
        \/ \E c \in Consumers : QueueGet(c)
        \/ \E p \in Producers : QueuePut(p)
        \/ \E d \in Destroyers : CallDestroy(d) \/ DestroyCV(d)

Spec == Init /\ [][Next]_vars
=============================================================================
