-------------------------- MODULE QueueObjPthreads --------------------------
(***************************************************************************)
(* CHAPTR10/ThreeStagePthreads/QueueObj.c: the queue on POSIX condition    *)
(* variables.  A wait releases the mutex and sleeps in one step, may end   *)
(* without a reason, and, when its time is finite, may end with a status   *)
(* (late); a change wakes everyone on the other side.  Unlike the Windows  *)
(* versions a call looks at q_destroyed once, before it takes the mutex,   *)
(* and a call that has timed out neither moves a message nor wakes anyone. *)
(***************************************************************************)
EXTENDS QueueMonitor

CONSTANT Finite       \* the callers whose MaxWait is not INFINITE

VARIABLE late         \* the callers with tstatus # 0

vars == <<queueVars, late>>

\* if (q_destroyed(q)) return 1;
EnterUnlocked(t) ==
  /\ pc[t] = "enter"
  /\ IF destroyed
     THEN Goto(t, "out") /\ status' = [status EXCEPT ![t] = "destroyed"]
     ELSE Goto(t, "again") /\ UNCHANGED status
  /\ UNCHANGED <<ringVars, closeVars, qGuard, late>>

CondWait(t) ==
  /\ pc[t] = "sleep"
  /\ Goto(t, "wait")
  /\ ReleaseGuard(t)
  /\ UNCHANGED <<ringVars, closeVars, status, late>>

WakeSpuriously(t) ==
  /\ pc[t] = "wait"
  /\ Goto(t, "again")
  /\ UNCHANGED <<ringVars, closeVars, qGuard, status, late>>

TimeOut(t) ==
  /\ pc[t] = "wait" /\ t \in Finite
  /\ Goto(t, "again")
  /\ late' = late \cup {t}
  /\ UNCHANGED <<ringVars, closeVars, qGuard, status>>

\* pthread_cond_broadcast to the threads of S, unlock, return 0.
BroadcastAndReturn(self, S) ==
  /\ pc' = [t \in Threads |-> IF t = self THEN "out"
                              ELSE IF t \in Waiting(S) THEN "again" ELSE pc[t]]
  /\ ReleaseGuard(self)
  /\ status' = [status EXCEPT ![self] = "ok"]
  /\ UNCHANGED <<closeVars, late>>

GetTest(c) == Test(c, QueueEmpty /\ c \notin late) /\ UNCHANGED late
PutTest(p) == Test(p, QueueFull /\ p \notin late) /\ UNCHANGED late

GetRemove(c) ==
  /\ pc[c] = "act" /\ c \notin late /\ ~destroyed
  /\ QueueRemove(c)
  /\ BroadcastAndReturn(c, Producers)

PutInsert(p, m) ==
  /\ pc[p] = "act" /\ p \notin late /\ ~destroyed
  /\ QueueInsert(m)
  /\ BroadcastAndReturn(p, Consumers)

\* max(1, tstatus): the message that may have come meanwhile stays.
ReturnLate(t) ==
  /\ pc[t] = "act" /\ t \in late
  /\ Goto(t, "out")
  /\ ReleaseGuard(t)
  /\ status' = [status EXCEPT ![t] = "timeout"]
  /\ late' = late \ {t}
  /\ UNCHANGED <<ringVars, closeVars>>

\* A thread that passed the test of q_destroyed before q_destroy ran uses an
\* array that has been freed; taken to end the process.
UseFreed(t) ==
  /\ pc[t] = "act" /\ t \notin late /\ destroyed
  /\ pc' = [u \in Threads |-> "crashed"]
  /\ UNCHANGED <<ringVars, closeVars, qGuard, status, late>>

QueueGet(c) == GetTest(c) \/ GetRemove(c)
QueuePut(p) == PutTest(p) \/ \E m \in Msg : PutInsert(p, m)

Next == \/ \E t \in Callers : \/ (Call(t) \/ Reacquire(t)) /\ UNCHANGED late
                              \/ EnterUnlocked(t)
                              \/ CondWait(t) \/ WakeSpuriously(t) \/ TimeOut(t)
                              \/ ReturnLate(t) \/ UseFreed(t)
        \/ \E c \in Consumers : QueueGet(c)
        \/ \E p \in Producers : QueuePut(p)
        \/ \E d \in Destroyers : Destroyer(d) /\ UNCHANGED late

Init == QueueInitialize /\ late = {}

Spec == Init /\ [][Next]_vars
=============================================================================
