---------------------------- MODULE QueueObj_Sig ----------------------------
(***************************************************************************)
(* CHAPTR10/QueueObj_Sig.c: the signal model with SignalObjectAndWait.     *)
(***************************************************************************)
EXTENDS AutoResetEvents

vars == <<queueVars, signalled>>

\* Fault: the guard is released before the wait begins, as in QueueObjCS_Sig.c.
GetWait_TwoSteps(c) ==
  /\ \/ pc[c] = "sleep" /\ Goto(c, "gap") /\ ReleaseGuard(c) /\ UNCHANGED signalled
     \/ pc[c] = "gap" /\ WaitForEvent(c) /\ UNCHANGED qGuard
  /\ UNCHANGED <<ringVars, closeVars, status>>

GetWait(c) ==
  /\ pc[c] = "sleep" /\ ~destroyed
  /\ WaitForEvent(c)
  /\ ReleaseGuard(c)
  /\ UNCHANGED <<ringVars, closeVars, status>>

GetRemove(c) ==
  /\ pc[c] = "act" /\ ~destroyed
  /\ QueueRemove(c)
  /\ SetEvent(c, "qNf", "out")
  /\ ReleaseGuard(c)
  /\ status' = [status EXCEPT ![c] = "ok"]
  /\ UNCHANGED closeVars

PutWait(p) ==
  /\ pc[p] = "sleep" /\ ~destroyed
  /\ WaitForEvent(p)
  /\ ReleaseGuard(p)
  /\ UNCHANGED <<ringVars, closeVars, status>>

\* Fault: the producer sets the event of the other side.
PutInsert_WrongEvent(p, m) ==
  /\ pc[p] = "act" /\ ~destroyed
  /\ QueueInsert(m)
  /\ SetEvent(p, "qNf", "out")
  /\ ReleaseGuard(p)
  /\ status' = [status EXCEPT ![p] = "ok"]
  /\ UNCHANGED closeVars

PutInsert(p, m) ==
  /\ pc[p] = "act" /\ ~destroyed
  /\ QueueInsert(m)
  /\ SetEvent(p, "qNe", "out")
  /\ ReleaseGuard(p)
  /\ status' = [status EXCEPT ![p] = "ok"]
  /\ UNCHANGED closeVars

GetTest(c) == Test(c, QueueEmpty) /\ UNCHANGED signalled
PutTest(p) == Test(p, QueueFull) /\ UNCHANGED signalled

QueueGet(c) == GetTest(c) \/ GetWait(c) \/ GetRemove(c)
QueuePut(p) == PutTest(p) \/ PutWait(p) \/ \E m \in Msg : PutInsert(p, m)

Init == QueueInitialize /\ signalled = [e \in Events |-> FALSE]

Next == \/ CommonStep /\ UNCHANGED signalled
        \/ \E c \in Consumers : QueueGet(c)
        \/ \E p \in Producers : QueuePut(p)

Spec == Init /\ [][Next]_vars
=============================================================================
