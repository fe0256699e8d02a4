--------------------------- MODULE QueueObjCancel ---------------------------
(***************************************************************************)
(* CHAPTR10/QueueObjCancel.c: the signal model with alertable waits.  A    *)
(* thread is cancelled with QueueUserAPC (QueueShutDown, thread, n): the   *)
(* callback runs in that thread, in its next wait for an event, and sets   *)
(* shutDownGet (n odd) or ShutDownPut (n/2 odd), which all calls of        *)
(* QueueGet or QueuePut in the process look at.                            *)
(*                                                                         *)
(* The flag is read three times in a call: by the while loop, before the   *)
(* move ("act") and, after the release of the guard, for the status to     *)
(* return ("ret").  A call that sees it before the move returns at once;   *)
(* it still owns the guard then, unless it comes from the wait.            *)
(***************************************************************************)
EXTENDS AutoResetEvents

VARIABLES shutDownGet, ShutDownPut,
          apc,     \* apc[t]: the n of the APC queued for t, 0 if there is none
          moved    \* history: the callers whose last call has moved a message

cancelVars == <<shutDownGet, ShutDownPut, apc>>
vars == <<queueVars, signalled, cancelVars, moved>>

SeesShutDown(t) == IF t \in Consumers THEN shutDownGet ELSE ShutDownPut

\* The call of t ends, with WAIT_TIMEOUT.
Cancelled(t) ==
  /\ Goto(t, "out")
  /\ status' = [status EXCEPT ![t] = "timeout"]

\* msgArray is tested before the guard is taken.
CallCancel(t) ==
  /\ Call(t)
  /\ moved' = moved \ {t}
  /\ UNCHANGED <<signalled, cancelVars>>

EnterCancel(t) ==
  /\ pc[t] = "enter"
  /\ AcquireGuard(t)
  /\ Goto(t, "in")
  /\ UNCHANGED <<ringVars, closeVars, status, signalled, cancelVars, moved>>

\* while (!shutDownGet && QueueEmpty (q)), and the return when the flag ends it.
LoopTest(t, mustWait) ==
  /\ pc[t] = "in"
  /\ IF SeesShutDown(t)
     THEN Cancelled(t)
     ELSE Goto(t, IF mustWait THEN "sleep" ELSE "act") /\ UNCHANGED status
  /\ UNCHANGED <<ringVars, closeVars, qGuard, signalled, cancelVars, moved>>

\* SignalObjectAndWait (qGuard, event, INFINITE, TRUE)
AlertableWait(t) ==
  /\ pc[t] = "sleep"
  /\ WaitForEvent(t)
  /\ ReleaseGuard(t)
  /\ UNCHANGED <<ringVars, closeVars, status, cancelVars, moved>>

\* Fault: the thread that has been cancelled leaves the loop as if it owned
\* the guard and had a message.
QueueShutDown_Proceeds(t) ==
  /\ pc[t] = "wait" /\ apc[t] # 0
  /\ shutDownGet' = (shutDownGet \/ apc[t] % 2 # 0)
  /\ ShutDownPut' = (ShutDownPut \/ (apc[t] \div 2) % 2 # 0)
  /\ apc' = [apc EXCEPT ![t] = 0]
  /\ Goto(t, IF SeesShutDown(t)' THEN "act" ELSE "again")
  /\ UNCHANGED <<ringVars, closeVars, qGuard, signalled, moved, status>>

\* The APC runs and ends the wait.  When it has set the flag that t looks at,
\* or somebody else has, t returns without the guard.
QueueShutDown(t) ==
  /\ pc[t] = "wait" /\ apc[t] # 0
  /\ shutDownGet' = (shutDownGet \/ apc[t] % 2 # 0)
  /\ ShutDownPut' = (ShutDownPut \/ (apc[t] \div 2) % 2 # 0)
  /\ apc' = [apc EXCEPT ![t] = 0]
  /\ IF SeesShutDown(t)'
     THEN Cancelled(t)
     ELSE Goto(t, "again") /\ UNCHANGED status
  /\ UNCHANGED <<ringVars, closeVars, qGuard, signalled, moved>>

ReacquireCancel(t) ==
  /\ Reacquire(t)
  /\ UNCHANGED <<signalled, cancelVars, moved>>

\* The second look at the flag ends the call.
GiveUp(t) ==
  /\ pc[t] = "act" /\ SeesShutDown(t)
  /\ Cancelled(t)
  /\ UNCHANGED <<ringVars, closeVars, qGuard, signalled, cancelVars, moved>>

GetRemove(c) ==
  /\ pc[c] = "act" /\ ~SeesShutDown(c)
  /\ QueueRemove(c)
  /\ SetEvent(c, "qNf", "ret")
  /\ ReleaseGuard(c)
  /\ moved' = moved \cup {c}
  /\ UNCHANGED <<closeVars, status, cancelVars>>

PutInsert(p, m) ==
  /\ pc[p] = "act" /\ ~SeesShutDown(p)
  /\ QueueInsert(m)
  /\ SetEvent(p, "qNe", "ret")
  /\ ReleaseGuard(p)
  /\ moved' = moved \cup {p}
  /\ UNCHANGED <<closeVars, status, cancelVars>>

\* return shutDownGet ? WAIT_TIMEOUT : 0
Report(t) ==
  /\ pc[t] = "ret"
  /\ Goto(t, "out")
  /\ status' = [status EXCEPT ![t] = IF SeesShutDown(t) THEN "timeout" ELSE "ok"]
  /\ UNCHANGED <<ringVars, closeVars, qGuard, signalled, cancelVars, moved>>

\* QueueUserAPC (QueueShutDown, t, n), at most once per thread.
QueueUserAPC(t, n) ==
  /\ apc[t] = 0 /\ ~shutDownGet /\ ~ShutDownPut
  /\ apc' = [apc EXCEPT ![t] = n]
  /\ UNCHANGED <<queueVars, signalled, shutDownGet, ShutDownPut, moved>>

QueueGet(c) == LoopTest(c, QueueEmpty) \/ GetRemove(c)
QueuePut(p) == LoopTest(p, QueueFull) \/ \E m \in Msg : PutInsert(p, m)
Wait(t) == AlertableWait(t) \/ QueueShutDown(t) \/ ReacquireCancel(t)

Init == /\ QueueInitialize
        /\ signalled = [e \in Events |-> FALSE]
        /\ shutDownGet = FALSE /\ ShutDownPut = FALSE
        /\ apc = [t \in Callers |-> 0]
        /\ moved = {}

Next == \/ \E t \in Callers : \/ CallCancel(t)
                              \/ EnterCancel(t)
                              \/ Wait(t)
                              \/ GiveUp(t)
                              \/ Report(t)
                              \/ \E n \in 1 .. 3 : QueueUserAPC(t, n)
        \/ \E c \in Consumers : QueueGet(c)
        \/ \E p \in Producers : QueuePut(p)

Spec == Init /\ [][Next]_vars

CancelTypeOK ==
  /\ {shutDownGet, ShutDownPut} \subseteq BOOLEAN
  /\ apc \in [Callers -> 0 .. 3]
  /\ moved \subseteq Callers
=============================================================================
