---------------------------- MODULE QueueObjPoll ----------------------------
(***************************************************************************)
(* CHAPTR10/QueueObjCS.c and QueueObj_noSOAW.c, which differ in the kind   *)
(* of guard only: the broadcast model without SignalObjectAndWait.  A      *)
(* caller releases the guard first and waits on the manual-reset event in  *)
(* a second step, so that it misses a PulseEvent in between ("gap").  For  *)
(* that reason no wait is longer than CV_TIMEOUT: the loop polls.  A call  *)
(* with a finite MaxWait adds CV_TIMEOUT to TotalWaitTime after each wait, *)
(* also after one that a pulse has ended early.                            *)
(***************************************************************************)
EXTENDS QueueMonitor

CONSTANTS Finite,      \* the callers whose MaxWait is not INFINITE
          MaxWait,     \* their MaxWait
          CV_TIMEOUT   \* 5

VARIABLE TotalWaitTime

vars == <<queueVars, TotalWaitTime>>

TimedOut(t) == TotalWaitTime[t] > MaxWait

\* The threads of S go on after their wait.
Charged(S) == [t \in Callers |->
                 IF t \in S \cap Finite THEN TotalWaitTime[t] + CV_TIMEOUT
                 ELSE TotalWaitTime[t]]

LeaveGuard(t) ==
  /\ pc[t] = "sleep"
  /\ Goto(t, "gap")
  /\ ReleaseGuard(t)
  /\ UNCHANGED <<ringVars, closeVars, status, TotalWaitTime>>

BeginWait(t) ==
  /\ pc[t] = "gap"
  /\ Goto(t, "wait")
  /\ UNCHANGED <<ringVars, closeVars, qGuard, status, TotalWaitTime>>

\* Fault: the wait lasts for MaxWait, which may be INFINITE.
WaitElapses_MaxWait(t) ==
  /\ pc[t] = "wait" /\ t \in Finite
  /\ Goto(t, "again")
  /\ TotalWaitTime' = Charged({t})
  /\ UNCHANGED <<ringVars, closeVars, qGuard, status>>

\* CV_TIMEOUT passes without a pulse.
WaitElapses(t) ==
  /\ pc[t] = "wait"
  /\ Goto(t, "again")
  /\ TotalWaitTime' = Charged({t})
  /\ UNCHANGED <<ringVars, closeVars, qGuard, status>>

\* The end of a call: pulse the event that the threads of S wait for, leave
\* the guard, return.
Return(self, S) ==
  /\ pc' = [t \in Threads |-> IF t = self THEN "out"
                              ELSE IF t \in Waiting(S) THEN "again" ELSE pc[t]]
  /\ TotalWaitTime' = [Charged(Waiting(S)) EXCEPT ![self] = 0]
  /\ ReleaseGuard(self)
  /\ status' = [status EXCEPT ![self] = IF TimedOut(self) THEN "timeout" ELSE "ok"]
  /\ UNCHANGED closeVars

\* Fault: a call that has waited too long waits again.
GetTest_IgnoresTimeOut(c) == Test(c, QueueEmpty) /\ UNCHANGED TotalWaitTime

GetTest(c) == Test(c, QueueEmpty /\ ~TimedOut(c)) /\ UNCHANGED TotalWaitTime

\* Fault: the message is removed whether the call has timed out or not.
GetReturn_IgnoresTimeOut(c) ==
  /\ pc[c] = "act"
  /\ QueueRemove(c)
  /\ Return(c, Producers)

GetReturn(c) ==
  /\ pc[c] = "act"
  /\ IF TimedOut(c) THEN UNCHANGED ringVars ELSE QueueRemove(c)
  /\ Return(c, Producers)

PutTest(p) == Test(p, QueueFull /\ ~TimedOut(p)) /\ UNCHANGED TotalWaitTime

PutReturn(p, m) ==
  /\ pc[p] = "act"
  /\ IF TimedOut(p) THEN UNCHANGED ringVars ELSE QueueInsert(m)
  /\ Return(p, Consumers)

Wait(t) == LeaveGuard(t) \/ BeginWait(t) \/ WaitElapses(t)
QueueGet(c) == GetTest(c) \/ GetReturn(c)
QueuePut(p) == PutTest(p) \/ \E m \in Msg : PutReturn(p, m)

Init == QueueInitialize /\ TotalWaitTime = [t \in Callers |-> 0]

Next == \/ \E t \in Callers : \/ CallerStep(t) /\ UNCHANGED TotalWaitTime
                              \/ Wait(t)
        \/ \E c \in Consumers : QueueGet(c)
        \/ \E p \in Producers : QueuePut(p)

Spec == Init /\ [][Next]_vars

-----------------------------------------------------------------------------
WaitTimeOK ==
  /\ TotalWaitTime \in [Callers -> 0 .. MaxWait + CV_TIMEOUT]
  /\ \A t \in Callers \ Finite : TotalWaitTime[t] = 0
=============================================================================
