--------------------------- MODULE QueueObjCS_Sig ---------------------------
(***************************************************************************)
(* CHAPTR10/QueueObjCS_Sig.c: the signal model with a CRITICAL_SECTION as  *)
(* guard.  A caller leaves the guard first and waits for its event in a    *)
(* second step ("gap" in between), for MaxWait, which may be INFINITE.     *)
(* A caller whose wait timed out is in late; it moves no message, but it   *)
(* sets the other side's event like one that did.                          *)
(*                                                                         *)
(* TimedSpec is CHAPTR10/QueueObjSig_noSOAW.c.                             *)
(***************************************************************************)
EXTENDS AutoResetEvents

CONSTANT Finite       \* the callers whose MaxWait is not INFINITE

VARIABLE late         \* the callers with TimedOut = TRUE

vars == <<queueVars, signalled, late>>

LeaveGuard(t) ==
  /\ pc[t] = "sleep"
  /\ Goto(t, "gap")
  /\ ReleaseGuard(t)
  /\ UNCHANGED <<ringVars, closeVars, status, signalled, late>>

BeginWait(t) ==
  /\ pc[t] = "gap"
  /\ WaitForEvent(t)
  /\ UNCHANGED <<ringVars, closeVars, qGuard, status, late>>

TimeOut(t) ==
  /\ t \in Finite
  /\ pc[t] = "wait"
  /\ Goto(t, "again")
  /\ late' = late \cup {t}
  /\ UNCHANGED <<ringVars, closeVars, qGuard, status, signalled>>

\* The end of QueueGet or QueuePut: announce, leave the guard, return.
Return(t, e) ==
  /\ SetEvent(t, e, "out")
  /\ ReleaseGuard(t)
  /\ status' = [status EXCEPT ![t] = IF t \in late THEN "timeout" ELSE "ok"]
  /\ late' = late \ {t}
  /\ UNCHANGED closeVars

GetTest(c) == /\ Test(c, QueueEmpty /\ c \notin late)
              /\ UNCHANGED <<signalled, late>>

GetReturn(c) == /\ pc[c] = "act"
                /\ IF c \in late THEN UNCHANGED ringVars ELSE QueueRemove(c)
                /\ Return(c, "qNf")

PutTest(p) == /\ Test(p, QueueFull /\ p \notin late)
              /\ UNCHANGED <<signalled, late>>

PutReturn(p, m) == /\ pc[p] = "act"
                   /\ IF p \in late THEN UNCHANGED ringVars ELSE QueueInsert(m)
                   /\ Return(p, "qNe")

Wait(t) == LeaveGuard(t) \/ BeginWait(t) \/ TimeOut(t)
QueueGet(c) == GetTest(c) \/ GetReturn(c)
QueuePut(p) == PutTest(p) \/ \E m \in Msg : PutReturn(p, m)

Init == /\ QueueInitialize
        /\ signalled = [e \in Events |-> FALSE]
        /\ late = {}

Next == \/ \E t \in Callers : \/ CallerStep(t) /\ UNCHANGED <<signalled, late>>
                              \/ Wait(t)
        \/ \E c \in Consumers : QueueGet(c)
        \/ \E p \in Producers : QueuePut(p)

Spec == Init /\ [][Next]_vars
-----------------------------------------------------------------------------
(* QueueObjSig_noSOAW.c, with two differences: every wait is for           *)
(* CV_TIMEOUT, whatever MaxWait is, and the first that runs out ends the   *)
(* call; and a call that has timed out moves a message nevertheless when   *)
(* it finds that it can.  (That the guard is a mutex here makes no         *)
(* difference to the model.)                                               *)

\* Fault: the result of the wait is lost, so that the call reports success
\* although QueueRemove may have found nothing to remove.
GetFinish_ReportsSuccess(c) ==
  /\ pc[c] = "act"
  /\ QueueRemove(c)
  /\ SetEvent(c, "qNf", "out")
  /\ ReleaseGuard(c)
  /\ status' = [status EXCEPT ![c] = "ok"]
  /\ late' = late \ {c}
  /\ UNCHANGED closeVars

GetFinish(c) ==
  /\ pc[c] = "act"
  /\ IF c \notin late \/ ~QueueEmpty THEN QueueRemove(c) ELSE UNCHANGED ringVars
  /\ Return(c, "qNf")

PutFinish(p, m) ==
  /\ pc[p] = "act"
  /\ IF p \notin late \/ ~QueueFull THEN QueueInsert(m) ELSE UNCHANGED ringVars
  /\ Return(p, "qNe")

TimedNext == \/ \E t \in Callers : \/ CallerStep(t) /\ UNCHANGED <<signalled, late>>
                                   \/ Wait(t)
             \/ \E c \in Consumers : GetTest(c) \/ GetFinish(c)
             \/ \E p \in Producers : PutTest(p) \/ \E m \in Msg : PutFinish(p, m)

TimedSpec == Init /\ [][TimedNext]_vars
=============================================================================
