----------------------- MODULE QueueVersions_proofs -----------------------
(***************************************************************************)
(* All versions of the queue keep one discipline, and all that is promised *)
(* of them follows from it.  A thread that does not own the guard changes  *)
(* nothing of the ring (QuietStep).  One that owns it moves a message only *)
(* when the ring allows it, gives the guard up in the same step, wakes a   *)
(* thread of the other side where the version does, and has then done what *)
(* its call is for (MoveStep).  Or the queue comes to its end (EndStep).   *)
(*                                                                         *)
(* For each version there is one lemma, that its steps are such steps and  *)
(* keep what the version owes by itself; the theorems at the end are about *)
(* the discipline and do not look at the versions any more.                *)
(***************************************************************************)
EXTENDS QueueVersions, QueueMonitor_proofs, FiniteSetTheorems
(***************************************************************************)
(* The versions that call QueueDestroy, or may find the queue destroyed.   *)
(***************************************************************************)
DestroyedVersions == {"QueueObj", "QueueObj_Sig", "QueueObjCV", "QueueObjPthreads"}

\* The versions that wake one thread per change, and lose no signal.
SignalVersions == {"QueueObj_Sig", "QueueObjCV", "QueueObjCancel"}

LateVersions == {"QueueObjCS_Sig", "QueueObjSig_noSOAW", "QueueObjPthreads"}

\* What the while loop of t waits for has not come.
MustWait(t) == IF t \in Consumers THEN QueueEmpty ELSE QueueFull

(***************************************************************************)
(* A thread inside owns the guard while the queue exists, and the guard's  *)
(* handle is closed only after msgArray has been freed.                    *)
(***************************************************************************)
InsideOwnsGuard ==
  ~destroyed => /\ guardOpen
                /\ \A t \in Threads : /\ pc[t] \in Inside => qGuard = t
                                      /\ pc[t] # "closing"

(***************************************************************************)
(* A decision holds until it is acted on.  This is also so when the queue  *)
(* has been destroyed, for the ring does not change then.                  *)
(***************************************************************************)
DecisionsKept ==
  \A t \in Callers :
    /\ pc[t] = "act" => ~MustWait(t) \/ t \in OutOfTime
    /\ pc[t] = "sleep" => MustWait(t)

(***************************************************************************)
(* A call is pending while its caller is inside the queue functions; it    *)
(* has moved a message at the end only.                                    *)
(***************************************************************************)
PendingDuringCall ==
  \A t \in Callers :
    /\ pc[t] # "crashed" => (status[t] = "pending" <=> pc[t] # "out")
    /\ t \in moved => pc[t] \in {"out", "ret"}
    /\ pc[t] = "ret" => t \in moved

(***************************************************************************)
(* What belongs to one version is not touched in the others.               *)
(***************************************************************************)
OwnVariables ==
  /\ version \notin DestroyedVersions => ~destroyed
  /\ version \notin LateVersions => late = {}
  /\ version # "QueueObjPoll" => \A t \in Callers : TotalWaitTime[t] = 0
  /\ version # "QueueObjCancel" => ~shutDownGet /\ ~ShutDownPut /\ moved = {}

(***************************************************************************)
(* A call of QueueObjPoll that has to wait has not timed out.              *)
(***************************************************************************)
WaitsInTime ==
  \A t \in Callers : pc[t] \in {"sleep", "gap", "wait"} => ~Poll!TimedOut(t)

IInv == /\ TypeOK /\ InsideOwnsGuard /\ DecisionsKept /\ PendingDuringCall
        /\ OwnVariables /\ WaitsInTime /\ NoLostWakeup
-----------------------------------------------------------------------------
(***************************************************************************)
(* What the steps of all the versions have in common.                      *)
(***************************************************************************)

\* Threads other than t go on only from their waits.
Wakes(t) ==
  /\ pc' \in [Threads -> PCs]
  /\ \A u \in Threads \ {t} : \/ pc'[u] = pc[u]
                              \/ pc[u] = "wait" /\ pc'[u] = "again"

\* t may take or release the guard, and owns it inside.
Guarded(t) ==
  /\ qGuard' \in {qGuard, t, NoThread}
  /\ qGuard' # qGuard => qGuard \in {t, NoThread}
  /\ ~destroyed => (pc'[t] \in Inside => qGuard' = t) /\ pc'[t] # "closing"

\* What the call of t has done so far.
Told(t) == IF t \in moved THEN "ok" ELSE status[t]

\* Nothing happens to the calls of other threads than t.
OthersUntold(t) ==
  /\ status' \in [Callers -> Statuses] /\ moved' \subseteq Callers
  /\ \A u \in Callers \ {t} : /\ status'[u] = status[u]
                              /\ u \in moved' <=> u \in moved

\* Nobody else than t gets more time.
OthersInTime(t) == \A u \in Callers \ {t} : u \in OutOfTime => u \in OutOfTime'

\* The part of PendingDuringCall, and of DecisionsKept, that is about t.
Accounted(t) ==
  /\ pc[t] # "crashed" => (status[t] = "pending" <=> pc[t] # "out")
  /\ t \in moved => pc[t] \in {"out", "ret"}
  /\ pc[t] = "ret" => t \in moved

Decided(t) ==
  /\ pc[t] = "act" => ~MustWait(t) \/ t \in OutOfTime
  /\ pc[t] = "sleep" => MustWait(t)

\* Where a thread is awake in its call.
Awake == {"again", "in", "act"}

\* In the versions that wake one thread per change, and until a cancellation
\* takes effect, a thread that is awake ends its call by moving a message,
\* and one with no reason to does not go to sleep.
NoSignalWasted(t) ==
  version \in SignalVersions /\ ~destroyed /\ ~shutDownGet' /\ ~ShutDownPut' =>
    /\ pc[t] \in Awake => pc'[t] \in Awake \/ MustWait(t)
    /\ pc'[t] = "wait" => pc[t] = "wait" \/ MustWait(t)

\* The threads that wait for what t does.
Other(t) == IF t \in Consumers THEN Producers ELSE Consumers

\* t tells one of them.
OtherTold(t) ==
  version \in SignalVersions /\ Waiting(Other(t)) # {} =>
    \E w \in Waiting(Other(t)) : pc'[w] = "again"

(***************************************************************************)
(* t goes on without touching the ring: its call may start, or fail.       *)
(***************************************************************************)
QuietStep(t) ==
  /\ UNCHANGED <<ringVars, closeVars>>
  /\ Wakes(t) /\ Guarded(t) /\ OthersUntold(t) /\ OthersInTime(t) /\ NoSignalWasted(t)
  /\ t \in Callers =>
       /\ Accounted(t)' /\ Decided(t)'
       /\ \/ Told(t)' = Told(t)
          \/ Told(t) # "pending" /\ Told(t)' = "pending"
          \/ Told(t) = "pending" /\ Told(t)' \in {"destroyed", "timeout"}

(***************************************************************************)
(* t acts on the ring while the queue exists, and its call takes effect    *)
(* in this step.                                                           *)
(***************************************************************************)
MoveStep(t) ==
  /\ pc[t] = "act" /\ ~destroyed /\ ~MustWait(t)
  /\ pc'[t] \in {"out", "ret"} /\ qGuard' = NoThread
  /\ UNCHANGED closeVars
  /\ Wakes(t) /\ OthersUntold(t)
  /\ Accounted(t)' /\ OtherTold(t)
  /\ Told(t)' \in IF version = "QueueObjSig_noSOAW" THEN {"ok", "timeout"} ELSE {"ok"}
  /\ IF t \in Consumers THEN QueueRemove(t) ELSE \E m \in Msg : QueueInsert(m)

(***************************************************************************)
(* The queue is destroyed, or its guard closed; or its use afterwards ends *)
(* the process.                                                            *)
(***************************************************************************)
EndStep ==
  /\ destroyed' = TRUE /\ guardOpen' \in BOOLEAN
  /\ UNCHANGED <<ringVars, qGuard, status, moved, late, TotalWaitTime>>
  /\ \/ \E d \in Destroyers : Wakes(d)
     \/ moved = {} /\ pc' = [u \in Threads |-> "crashed"]

MonitorStep ==
  \/ \E t \in Threads : QuietStep(t)
  \/ \E t \in Callers : MoveStep(t)
  \/ EndStep

(***************************************************************************)
(* The part of the invariant that all versions owe to the guard.           *)
(***************************************************************************)
MonitorInv == MonitorTypeOK /\ moved \subseteq Callers
              /\ InsideOwnsGuard /\ DecisionsKept /\ PendingDuringCall

(***************************************************************************)
(* A step of the monitor keeps its part of the invariant, whatever version *)
(* took it.                                                                *)
(***************************************************************************)
LEMMA MonitorStepInv ==
  ASSUME MonitorInv, MonitorStep, version' = version
  PROVE  MonitorInv'
<1> USE ThreadsAssumption DEF MonitorInv, MonitorTypeOK, Threads, Callers
<1>1. ASSUME NEW t \in Threads, QuietStep(t) PROVE MonitorInv'
  <2> USE <1>1 DEF QuietStep, Wakes, Guarded, OthersUntold, OthersInTime
  <2>1. MonitorTypeOK' /\ (moved \subseteq Callers)'
    BY DEF ringVars, closeVars
  <2>2. InsideOwnsGuard'
    BY DEF InsideOwnsGuard, Inside, closeVars
  <2>3. PendingDuringCall'
    BY DEF PendingDuringCall, Accounted
  <2>4. \A u \in Callers : MustWait(u)' <=> MustWait(u)
    BY DEF MustWait, QueueEmpty, QueueFull, ringVars
  <2>5. ASSUME NEW u \in Callers PROVE Decided(u)'
    <3>1. CASE u = t
      BY <3>1
    <3>2. CASE u # t
      BY <2>4, <3>2 DEF DecisionsKept, Decided
    <3> QED BY <3>1, <3>2
  <2>6. DecisionsKept'
    BY <2>5 DEF DecisionsKept, Decided
  <2> QED BY <2>1, <2>2, <2>3, <2>6
<1>2. ASSUME NEW t \in Callers, MoveStep(t) PROVE MonitorInv'
  <2> USE <1>2 DEF MoveStep, Wakes, OthersUntold
  <2>1. MonitorTypeOK' /\ (moved \subseteq Callers)'
    <3>1. CASE t \in Consumers
      BY <3>1, RemoveMakesRoom DEF MustWait, closeVars
    <3>2. CASE t \in Producers
      BY <3>2, InsertMakesMessage DEF MustWait, closeVars
    <3> QED BY <3>1, <3>2
  <2>2. qGuard = t /\ \A u \in Threads \ {t} : pc[u] \notin Inside
    BY DEF InsideOwnsGuard, Inside
  <2>3. \A u \in Threads : pc'[u] \notin Inside
    BY <2>2 DEF Inside
  <2>4. InsideOwnsGuard'
    BY <2>3 DEF InsideOwnsGuard, Inside, closeVars
  <2>5. PendingDuringCall'
    BY DEF PendingDuringCall, Accounted
  <2>6. DecisionsKept'
    BY <2>3 DEF DecisionsKept, Inside
  <2> QED BY <2>1, <2>4, <2>5, <2>6
<1>3. CASE EndStep
  <2> USE <1>3 DEF EndStep, Wakes
  <2>1. MonitorTypeOK' /\ (moved \subseteq Callers)'
    BY DEF ringVars, PCs
  <2>2. InsideOwnsGuard'
    BY DEF InsideOwnsGuard
  <2>3. PendingDuringCall'
    BY DEF PendingDuringCall
  <2>4. DecisionsKept'
    BY DEF DecisionsKept, MustWait, QueueEmpty, QueueFull, ringVars, OutOfTime, Poll!TimedOut
  <2> QED BY <2>1, <2>2, <2>3, <2>4
<1> QED BY <1>1, <1>2, <1>3 DEF MonitorStep

-----------------------------------------------------------------------------
(* The steps that several versions share. *)

\* The calls and the clocks of the other versions stay as they are.
frame == <<late, TotalWaitTime, cancelVars>>

(***************************************************************************)
(* The callers out of time are told by late and TotalWaitTime alone.       *)
(***************************************************************************)
LEMMA OutOfTimeFramed ==
  ASSUME UNCHANGED <<late, TotalWaitTime>> PROVE OutOfTime' = OutOfTime
BY DEF OutOfTime, Poll!TimedOut

(***************************************************************************)
(* Outside QueueObjPoll they are the late ones.                            *)
(***************************************************************************)
LEMMA OutOfTimeIsLate ==
  ASSUME OwnVariables, version # "QueueObjPoll", UNCHANGED TotalWaitTime
  PROVE  OutOfTime = late /\ OutOfTime' = late'
BY VersionsAssumption DEF OwnVariables, OutOfTime, Poll!TimedOut

(***************************************************************************)
(* Whether a thread must wait is told by the ring alone.                   *)
(***************************************************************************)
LEMMA MustWaitFramed ==
  ASSUME UNCHANGED ringVars, NEW t PROVE MustWait(t)' = MustWait(t)
BY DEF MustWait, QueueEmpty, QueueFull, ringVars

\* The part of the invariant that each version owes by itself.
OwnInv ==
  /\ version \in Versions /\ EventsTypeOK /\ late \subseteq Callers
  /\ Poll!WaitTimeOK /\ Cancel!CancelTypeOK
  /\ OwnVariables /\ WaitsInTime /\ NoLostWakeup

(***************************************************************************)
(* The invariant is what all versions owe and what each owes by itself.    *)
(***************************************************************************)
LEMMA PartsOfIInv == IInv <=> MonitorInv /\ OwnInv
BY DEF IInv, MonitorInv, OwnInv, TypeOK, Cancel!CancelTypeOK, Cancel!Callers, Callers

(***************************************************************************)
(* A step of a version other than QueueObjPoll, which touches neither the  *)
(* clocks nor what belongs to QueueObjCancel, keeps the second part if it  *)
(* keeps the promises about events, late callers and wake-ups.             *)
(***************************************************************************)
LEMMA OwnInvFramed ==
  ASSUME OwnInv, version # "QueueObjPoll", UNCHANGED <<version, TotalWaitTime, cancelVars>>,
         EventsTypeOK', late' \subseteq Callers, version \notin LateVersions => late' = {},
         destroyed' = destroyed \/ version \in DestroyedVersions,
         NoLostWakeup'
  PROVE  OwnInv'
<1> USE VersionsAssumption DEF OwnInv, cancelVars
<1>1. Poll!WaitTimeOK'
  BY DEF Poll!WaitTimeOK
<1>2. Cancel!CancelTypeOK'
  BY DEF Cancel!CancelTypeOK
<1>3. OwnVariables'
  BY DEF OwnVariables
<1>4. WaitsInTime'
  BY DEF WaitsInTime, OwnVariables, Poll!TimedOut
<1> QED BY <1>1, <1>2, <1>3, <1>4

(***************************************************************************)
(* The common steps leave the ring alone and put nobody to sleep.          *)
(***************************************************************************)
LEMMA CommonStepFrame ==
  ASSUME MonitorTypeOK, CommonStep
  PROVE  /\ UNCHANGED ringVars
         /\ \A t \in Callers : pc'[t] = "wait" => pc[t] = "wait"
<1> USE DEF MonitorTypeOK, Goto, Threads, Callers
<1>1. ASSUME NEW t \in Callers, CallerStep(t) \/ ResumeDestroyed(t)
      PROVE  \A u \in Callers : pc'[u] = "wait" => pc[u] = "wait"
  BY <1>1 DEF CallerStep, Call, Enter, Reacquire, ResumeDestroyed
<1>2. ASSUME NEW d \in Destroyers, Destroyer(d)
      PROVE  \A u \in Callers : pc'[u] = "wait" => pc[u] = "wait"
  BY <1>2 DEF Destroyer, CallDestroy, QueueDestroy, CloseGuard
<1>3. UNCHANGED ringVars
  BY DEF CommonStep, CallerStep, Destroyer, Call, Enter, Reacquire, ResumeDestroyed, CallDestroy,
         QueueDestroy, CloseGuard
<1> QED BY <1>1, <1>2, <1>3 DEF CommonStep

(***************************************************************************)
(* A call begins, a thread comes in, the queue is destroyed.               *)
(***************************************************************************)
LEMMA CommonIsMonitorStep ==
  ASSUME MonitorInv, OwnInv, version # "QueueObjCancel", UNCHANGED frame,
         CommonStep
  PROVE  MonitorStep
<1> USE ThreadsAssumption
    DEF MonitorInv, OwnInv, MonitorTypeOK, Inside, Awake, frame, cancelVars, Goto, PCs, Statuses,
        Threads, Callers
<1>0. OutOfTime' = OutOfTime /\ moved = {} /\ moved' = {}
  BY OutOfTimeFramed DEF OwnVariables
<1>1. ASSUME NEW t \in Callers, Call(t) \/ Enter(t) \/ Reacquire(t) PROVE QuietStep(t)
  BY <1>0, <1>1 DEF Call, Enter, Reacquire, AcquireGuard, QuietStep, Wakes, Guarded, OthersUntold,
     OthersInTime, NoSignalWasted, Accounted, Decided, Told, InsideOwnsGuard, PendingDuringCall
<1>2. ASSUME NEW t \in Callers, ResumeDestroyed(t) PROVE QuietStep(t) \/ EndStep
  <2>1. CASE pc[t] = "sleep" /\ Goto(t, "again")
    BY <1>0, <1>2, <2>1 DEF ResumeDestroyed, QuietStep, Wakes, Guarded, OthersUntold,
       OthersInTime, NoSignalWasted, Accounted, Decided, Told, PendingDuringCall
  <2>2. CASE pc' = [u \in Threads |-> "crashed"]
    BY <1>0, <1>2, <2>2 DEF ResumeDestroyed, EndStep, closeVars
  <2> QED BY <1>2, <2>1, <2>2 DEF ResumeDestroyed
<1>3. ASSUME NEW d \in Destroyers, CallDestroy(d) PROVE QuietStep(d)
  BY <1>0, <1>3 DEF CallDestroy, QuietStep, Wakes, Guarded, OthersUntold, OthersInTime,
     NoSignalWasted
<1>4. ASSUME NEW d \in Destroyers, QueueDestroy(d) \/ CloseGuard(d) PROVE EndStep
  BY <1>4 DEF QueueDestroy, CloseGuard, EndStep, Wakes, InsideOwnsGuard
<1> QED
  BY <1>1, <1>2, <1>3, <1>4 DEF CommonStep, CallerStep, Destroyer, MonitorStep

(***************************************************************************)
(* The test of the loop, for a thread that has not timed out.              *)
(***************************************************************************)
LEMMA TestIsMonitorStep ==
  ASSUME MonitorInv, OwnInv, UNCHANGED frame, NEW t \in Callers, NEW b \in BOOLEAN, Test(t, b),
         b => MustWait(t), ~b => ~MustWait(t) \/ t \in OutOfTime
  PROVE  MonitorStep
<1> USE ThreadsAssumption
    DEF MonitorInv, OwnInv, MonitorTypeOK, Inside, Awake, frame, cancelVars, Goto, PCs, Statuses,
        Threads, Callers
<1>0. OutOfTime' = OutOfTime /\ (MustWait(t)' <=> MustWait(t))
  BY OutOfTimeFramed, MustWaitFramed DEF Test
<1>1. moved' = moved /\ moved \subseteq Callers /\ pc[t] = "in"
      /\ UNCHANGED <<ringVars, closeVars, qGuard, status>>
      /\ pc' = [pc EXCEPT ![t] = IF b THEN "sleep" ELSE "act"]
  BY DEF Test
<1>2. Wakes(t) /\ Guarded(t) /\ OthersUntold(t) /\ OthersInTime(t)
  BY <1>0, <1>1 DEF Wakes, Guarded, OthersUntold, OthersInTime, InsideOwnsGuard
<1>3. Accounted(t)'
  BY <1>1 DEF Accounted, PendingDuringCall
<1>4. Decided(t)' /\ NoSignalWasted(t)
  BY <1>0, <1>1 DEF Decided, NoSignalWasted
<1>5. Told(t)' = Told(t)
  BY <1>1 DEF Told
<1> QED
  BY <1>1, <1>2, <1>3, <1>4, <1>5 DEF MonitorStep, QuietStep

(***************************************************************************)
(* A thread goes to sleep, on the way there or from there.                 *)
(***************************************************************************)
LEMMA SleepIsMonitorStep ==
  ASSUME MonitorInv, NEW t \in Callers, NEW l \in {"gap", "wait", "again"},
         pc[t] \in {"sleep", "gap", "wait"}, pc[t] = "gap" => version \notin SignalVersions,
         Goto(t, l), ReleaseGuard(t) \/ UNCHANGED qGuard,
         UNCHANGED <<ringVars, closeVars, status, moved>>, OthersInTime(t)
  PROVE  MonitorStep
<1> USE ThreadsAssumption
    DEF MonitorInv, MonitorTypeOK, Inside, Awake, Goto, PCs, Statuses, Threads, Callers
<1>1. Wakes(t) /\ Guarded(t) /\ OthersUntold(t)
  BY DEF Wakes, Guarded, OthersUntold, InsideOwnsGuard, ReleaseGuard
<1>2. Accounted(t)' /\ Decided(t)' /\ Told(t)' = Told(t)
  BY DEF Accounted, Decided, Told, PendingDuringCall
<1>3. NoSignalWasted(t)
  BY DEF NoSignalWasted, DecisionsKept
<1> QED
  BY <1>1, <1>2, <1>3 DEF MonitorStep, QuietStep

(***************************************************************************)
(* A thread past the loop returns late, and has moved nothing.             *)
(***************************************************************************)
LEMMA ReturnLateIsMonitorStep ==
  ASSUME MonitorInv, NEW t \in Callers, pc[t] = "act", Wakes(t), pc'[t] = "out", ReleaseGuard(t),
         version \notin SignalVersions,
         UNCHANGED <<ringVars, closeVars, moved>>, status' = [status EXCEPT ![t] = "timeout"],
         OthersInTime(t)
  PROVE  MonitorStep
<1> USE ThreadsAssumption
    DEF MonitorInv, MonitorTypeOK, Inside, Awake, PCs, Statuses, Threads, Callers
<1>1. Guarded(t) /\ OthersUntold(t)
  BY DEF Guarded, OthersUntold, ReleaseGuard
<1>2. Accounted(t)' /\ Decided(t)' /\ Told(t) = "pending" /\ Told(t)' = "timeout"
  BY DEF Accounted, Decided, Told, PendingDuringCall
<1>3. NoSignalWasted(t)
  BY DEF NoSignalWasted
<1> QED
  BY <1>1, <1>2, <1>3 DEF MonitorStep, QuietStep

(***************************************************************************)
(* A thread past the loop moves its message and returns.                   *)
(***************************************************************************)
LEMMA MoveIsMonitorStep ==
  ASSUME MonitorInv, NEW t \in Callers, pc[t] = "act", ~destroyed, ~MustWait(t),
         Wakes(t), pc'[t] = "out", OtherTold(t), ReleaseGuard(t),
         UNCHANGED closeVars, UNCHANGED moved, OthersInTime(t),
         \/ status' = [status EXCEPT ![t] = "ok"]
         \/ status' = [status EXCEPT ![t] = "timeout"] /\ version = "QueueObjSig_noSOAW",
         IF t \in Consumers THEN QueueRemove(t) ELSE \E m \in Msg : QueueInsert(m)
  PROVE  MonitorStep
<1> USE ThreadsAssumption
    DEF MonitorInv, MonitorTypeOK, Inside, PCs, Statuses, Threads, Callers
<1>1. qGuard = t /\ qGuard' = NoThread
  BY DEF ReleaseGuard, InsideOwnsGuard
<1>2. /\ OthersUntold(t) /\ Accounted(t)'
      /\ Told(t)' \in IF version = "QueueObjSig_noSOAW" THEN {"ok", "timeout"} ELSE {"ok"}
  BY DEF OthersUntold, Accounted, Told, PendingDuringCall
<1> QED
  BY <1>1, <1>2 DEF MonitorStep, MoveStep

(***************************************************************************)
(* SetEvent wakes one of the threads that wait for it.                     *)
(***************************************************************************)
EventFor(t) == IF t \in Consumers THEN "qNf" ELSE "qNe"

(***************************************************************************)
(* SetEvent wakes one of the threads on the other side, if any waits, and  *)
(* sends its caller where it says.                                         *)
(***************************************************************************)
LEMMA SetEventTells ==
  ASSUME MonitorTypeOK, EventsTypeOK, NEW t \in Callers, NEW l \in PCs, pc[t] = "act",
         SetEvent(t, EventFor(t), l)
  PROVE  Wakes(t) /\ pc'[t] = l /\ OtherTold(t) /\ EventsTypeOK'
<1> USE ThreadsAssumption DEF MonitorTypeOK, EventsTypeOK, Events, Threads, Callers, PCs
<1>1. WaitersFor(EventFor(t)) = Waiting(Other(t))
  BY DEF WaitersFor, Waiting, EventOf, EventFor, Other
<1>2. CASE /\ WaitersFor(EventFor(t)) = {}
           /\ signalled' = [signalled EXCEPT ![EventFor(t)] = TRUE] /\ Goto(t, l)
  BY <1>1, <1>2 DEF Wakes, OtherTold, Goto, EventFor
<1>3. ASSUME NEW w \in WaitersFor(EventFor(t)),
             pc' = [pc EXCEPT ![w] = "again", ![t] = l], UNCHANGED signalled
      PROVE  Wakes(t) /\ pc'[t] = l /\ OtherTold(t) /\ EventsTypeOK'
  <2>1. w \in Threads /\ pc[w] = "wait" /\ w # t
    BY <1>1, <1>3 DEF Waiting, Other
  <2> QED BY <1>1, <1>3, <2>1 DEF Wakes, OtherTold
<1> QED BY <1>2, <1>3 DEF SetEvent

(***************************************************************************)
(* A thread that waits for its event sleeps, or is released at once.       *)
(***************************************************************************)
LEMMA WaitForEventSleeps ==
  ASSUME EventsTypeOK, NEW t \in Callers, WaitForEvent(t)
  PROVE  (\E l \in {"wait", "again"} : Goto(t, l)) /\ EventsTypeOK'
BY DEF WaitForEvent, EventsTypeOK, Events, EventOf

-----------------------------------------------------------------------------
(* QueueObj. *)

(***************************************************************************)
(* The module of this version says about the ring, the guard and the calls *)
(* what QueueMonitor says.                                                 *)
(***************************************************************************)
LEMMA BroadcastIsMonitor ==
  /\ Broadcast!QueueEmpty = QueueEmpty /\ Broadcast!QueueFull = QueueFull
  /\ Broadcast!QueueEmpty' = QueueEmpty' /\ Broadcast!QueueFull' = QueueFull'
  /\ \A t : /\ Broadcast!QueueRemove(t) <=> QueueRemove(t)
            /\ Broadcast!QueueInsert(t) <=> QueueInsert(t)
            /\ \A b : Broadcast!Test(t, b) <=> Test(t, b)
            /\ Broadcast!ReleaseGuard(t) <=> ReleaseGuard(t)
  /\ Broadcast!CommonStep <=> CommonStep
BY DEF Broadcast!QueueEmpty, Broadcast!QueueFull, Broadcast!DWordMinus,
       Broadcast!QueueRemove, Broadcast!QueueInsert, Broadcast!NextSlot, Broadcast!Test,
       Broadcast!Goto, Broadcast!ringVars, Broadcast!closeVars, Broadcast!ReleaseGuard,
       Broadcast!CommonStep, Broadcast!CallerStep, Broadcast!Destroyer, Broadcast!Call,
       Broadcast!Enter, Broadcast!Reacquire, Broadcast!ResumeDestroyed,
       Broadcast!CallDestroy, Broadcast!QueueDestroy, Broadcast!CloseGuard,
       Broadcast!AcquireGuard, Broadcast!Callers, Broadcast!Threads, QueueEmpty, QueueFull,
       DWordMinus, QueueRemove, QueueInsert, NextSlot, Test, Goto, ringVars, closeVars,
       ReleaseGuard, CommonStep, CallerStep, Destroyer, Call, Enter, Reacquire,
       ResumeDestroyed, CallDestroy, QueueDestroy, CloseGuard, AcquireGuard, Callers,
       Threads

(***************************************************************************)
(* A pulse wakes everyone on the other side, and what was slept for has    *)
(* come.                                                                   *)
(***************************************************************************)
LEMMA BroadcastStep ==
  ASSUME MonitorInv, OwnInv, version = "QueueObj", Broadcast!Next,
         UNCHANGED <<version, signalled, frame>>
  PROVE  MonitorStep /\ OwnInv'
<1> USE ThreadsAssumption, BroadcastIsMonitor
    DEF MonitorTypeOK, Inside, PCs, Statuses, Threads, Callers,
        Broadcast!Callers, Broadcast!Threads, Broadcast!Goto, Broadcast!ReleaseGuard,
        Broadcast!Waiting, Broadcast!Pulsed, Broadcast!ringVars, Broadcast!closeVars
<1>0. /\ MonitorTypeOK /\ InsideOwnsGuard /\ DecisionsKept /\ PendingDuringCall
      /\ OwnVariables /\ Broadcast!NoLostWakeup
  BY DEF MonitorInv, OwnInv, NoLostWakeup
<1>1. OutOfTime = {} /\ OutOfTime' = {} /\ moved = {} /\ moved' = {}
  BY <1>0, VersionsAssumption, OutOfTimeFramed
     DEF OwnVariables, OutOfTime, Poll!TimedOut, LateVersions, frame, cancelVars
<1>2. ASSUME Broadcast!NoLostWakeup'
      PROVE  OwnInv'
  <2>1. EventsTypeOK' /\ late' \subseteq Callers /\ late' = {}
    BY <1>0 DEF OwnInv, EventsTypeOK, frame, OwnVariables, LateVersions
  <2>2. version \in DestroyedVersions /\ NoLostWakeup'
    BY <1>2 DEF DestroyedVersions, NoLostWakeup
  <2> QED BY <2>1, <2>2, OwnInvFramed DEF frame
<1>3. CASE CommonStep
  <2>1. MonitorStep
    BY <1>3, CommonIsMonitorStep
  <2>2. Broadcast!NoLostWakeup'
    BY <1>0, <1>3, CommonStepFrame DEF Broadcast!NoLostWakeup, ringVars, QueueEmpty, QueueFull
  <2> QED BY <1>2, <2>1, <2>2
<1>4. ASSUME NEW t \in Callers, Test(t, MustWait(t)) PROVE MonitorStep /\ OwnInv'
  <2>1. MonitorStep
    BY <1>4, TestIsMonitorStep DEF MustWait, QueueEmpty, QueueFull
  <2>2. Broadcast!NoLostWakeup'
    BY <1>0, <1>4 DEF Test, Goto, Broadcast!NoLostWakeup, ringVars, QueueEmpty, QueueFull
  <2> QED BY <1>2, <2>1, <2>2
<1>5. ASSUME NEW t \in Callers, Broadcast!GetWait(t) \/ Broadcast!PutWait(t)
      PROVE  MonitorStep /\ OwnInv'
  <2>1. /\ pc[t] = "sleep" /\ MustWait(t) /\ Goto(t, "wait") /\ ReleaseGuard(t)
        /\ UNCHANGED <<ringVars, closeVars, status>>
    BY <1>0, <1>5 DEF Broadcast!GetWait, Broadcast!PutWait, DecisionsKept, Goto, ReleaseGuard,
       ringVars, closeVars
  <2>2. MonitorStep
    BY <1>1, <2>1, SleepIsMonitorStep DEF OthersInTime
  <2>3. Broadcast!NoLostWakeup'
    BY <1>0, <2>1 DEF Broadcast!NoLostWakeup, Goto, ringVars, QueueEmpty, QueueFull, MustWait
  <2> QED BY <1>2, <2>2, <2>3
<1>6. ASSUME NEW t \in Callers, pc[t] = "act", ~destroyed, pc' = Broadcast!Pulsed(t, Other(t)),
             ReleaseGuard(t), status' = [status EXCEPT ![t] = "ok"], UNCHANGED closeVars,
             IF t \in Consumers THEN QueueRemove(t) ELSE \E m \in Msg : QueueInsert(m)
      PROVE  MonitorStep /\ OwnInv'
  <2>1. ~MustWait(t)
    BY <1>0, <1>1, <1>6 DEF DecisionsKept
  <2>2. pc' = [u \in Threads |-> IF u = t THEN "out"
                 ELSE IF u \in Other(t) /\ pc[u] = "wait" THEN "again" ELSE pc[u]]
    BY <1>6
  <2>3. Wakes(t) /\ OtherTold(t) /\ pc'[t] = "out" /\ OthersInTime(t) /\ UNCHANGED moved
    BY <1>0, <1>1, <2>2 DEF Wakes, OtherTold, OthersInTime, SignalVersions
  <2>4. MonitorStep
    BY <1>6, <2>1, <2>3, MoveIsMonitorStep
  <2>5. Broadcast!NoLostWakeup'
    BY <1>0, <2>1, <2>2 DEF Broadcast!NoLostWakeup, MustWait, Other
  <2> QED BY <1>2, <2>4, <2>5
<1>7. ASSUME NEW c \in Consumers, Broadcast!QueueGet(c) PROVE MonitorStep /\ OwnInv'
  <2>1. MustWait(c) = QueueEmpty /\ Other(c) = Producers
    BY DEF MustWait, Other
  <2>2. CASE Broadcast!GetRemove(c)
    BY <1>6, <2>1, <2>2 DEF Broadcast!GetRemove, ReleaseGuard, closeVars
  <2> QED BY <1>4, <1>5, <1>7, <2>1, <2>2 DEF Broadcast!QueueGet, Broadcast!GetTest
<1>8. ASSUME NEW p \in Producers, Broadcast!QueuePut(p) PROVE MonitorStep /\ OwnInv'
  <2>1. MustWait(p) = QueueFull /\ Other(p) = Consumers
    BY DEF MustWait, Other
  <2>2. ASSUME NEW m \in Msg, Broadcast!PutInsert(p, m) PROVE MonitorStep /\ OwnInv'
    BY <1>6, <2>1, <2>2 DEF Broadcast!PutInsert, ReleaseGuard, closeVars
  <2> QED BY <1>4, <1>5, <1>8, <2>1, <2>2 DEF Broadcast!QueuePut, Broadcast!PutTest
<1> QED BY <1>3, <1>7, <1>8 DEF Broadcast!Next

-----------------------------------------------------------------------------
(* QueueObj_Sig. *)

(***************************************************************************)
(* The module of this version says about the ring, the guard and the calls *)
(* what QueueMonitor says.                                                 *)
(***************************************************************************)
LEMMA SigIsMonitor ==
  /\ Sig!QueueEmpty = QueueEmpty /\ Sig!QueueFull = QueueFull
  /\ \A t : /\ Sig!QueueRemove(t) <=> QueueRemove(t)
            /\ Sig!QueueInsert(t) <=> QueueInsert(t)
            /\ \A b : Sig!Test(t, b) <=> Test(t, b)
            /\ Sig!WaitForEvent(t) <=> WaitForEvent(t)
            /\ \A e, l : Sig!SetEvent(t, e, l) <=> SetEvent(t, e, l)
            /\ Sig!ReleaseGuard(t) <=> ReleaseGuard(t)
  /\ Sig!CommonStep <=> CommonStep
BY DEF Sig!QueueEmpty, Sig!QueueFull, Sig!DWordMinus, Sig!QueueRemove, Sig!QueueInsert,
       Sig!NextSlot, Sig!Test, Sig!Goto, Sig!ringVars, Sig!closeVars, Sig!WaitForEvent,
       Sig!SetEvent, Sig!EventOf, Sig!WaitersFor, Sig!Waiting, Sig!Callers,
       Sig!ReleaseGuard, Sig!CommonStep, Sig!CallerStep, Sig!Destroyer, Sig!Call, Sig!Enter,
       Sig!Reacquire, Sig!ResumeDestroyed, Sig!CallDestroy, Sig!QueueDestroy,
       Sig!CloseGuard, Sig!AcquireGuard, Sig!Threads, QueueEmpty, QueueFull, DWordMinus,
       QueueRemove, QueueInsert, NextSlot, Test, Goto, ringVars, closeVars, WaitForEvent,
       SetEvent, EventOf, WaitersFor, Waiting, Callers, ReleaseGuard, CommonStep,
       CallerStep, Destroyer, Call, Enter, Reacquire, ResumeDestroyed, CallDestroy,
       QueueDestroy, CloseGuard, AcquireGuard, Threads

(***************************************************************************)
(* SetEvent wakes one thread; the guard is given up and the wait begun in  *)
(* one step.                                                               *)
(***************************************************************************)
LEMMA SigStep ==
  ASSUME MonitorInv, OwnInv, version = "QueueObj_Sig", Sig!Next, UNCHANGED <<version, frame>>
  PROVE  MonitorStep /\ OwnInv'
<1> USE SigIsMonitor
<1>0. /\ MonitorTypeOK /\ DecisionsKept /\ EventsTypeOK /\ late = {} /\ late' = {}
      /\ OutOfTime = {} /\ OutOfTime' = {}
  BY VersionsAssumption, OutOfTimeFramed
     DEF MonitorInv, OwnInv, OwnVariables, OutOfTime, Poll!TimedOut, LateVersions, frame
<1>1. ASSUME EventsTypeOK' PROVE OwnInv'
  <2>1. version \in DestroyedVersions /\ NoLostWakeup' /\ late' \subseteq Callers
    BY <1>0 DEF DestroyedVersions, NoLostWakeup
  <2> QED BY <1>0, <1>1, <2>1, OwnInvFramed DEF frame
<1>2. CASE CommonStep /\ UNCHANGED signalled
  BY <1>0, <1>1, <1>2, CommonIsMonitorStep DEF EventsTypeOK
<1>3. ASSUME NEW t \in Callers, Test(t, MustWait(t)), UNCHANGED signalled
      PROVE  MonitorStep /\ OwnInv'
  BY <1>0, <1>1, <1>3, TestIsMonitorStep DEF MustWait, QueueEmpty, QueueFull, EventsTypeOK
<1>4. ASSUME NEW t \in Callers, Sig!GetWait(t) \/ Sig!PutWait(t)
      PROVE  MonitorStep /\ OwnInv'
  <2>1. /\ pc[t] = "sleep" /\ WaitForEvent(t) /\ ReleaseGuard(t)
        /\ UNCHANGED <<ringVars, closeVars, status>>
    BY <1>4 DEF Sig!GetWait, Sig!PutWait, Sig!ringVars, Sig!closeVars, ringVars, closeVars
  <2>2. UNCHANGED moved /\ OthersInTime(t)
    BY <1>0 DEF OthersInTime, frame, cancelVars
  <2>3. PICK l \in {"wait", "again"} : Goto(t, l)
    BY <1>0, <2>1, WaitForEventSleeps
  <2> QED BY <1>0, <1>1, <2>1, <2>2, <2>3, WaitForEventSleeps, SleepIsMonitorStep
<1>5. ASSUME NEW t \in Callers, pc[t] = "act", ~destroyed, SetEvent(t, EventFor(t), "out"),
             ReleaseGuard(t), status' = [status EXCEPT ![t] = "ok"], UNCHANGED closeVars,
             IF t \in Consumers THEN QueueRemove(t) ELSE \E m \in Msg : QueueInsert(m)
      PROVE  MonitorStep /\ OwnInv'
  <2>1. ~MustWait(t) /\ UNCHANGED moved /\ OthersInTime(t)
    BY <1>0, <1>5 DEF DecisionsKept, OthersInTime, frame, cancelVars
  <2>2. Wakes(t) /\ pc'[t] = "out" /\ OtherTold(t) /\ EventsTypeOK'
    BY <1>0, <1>5, SetEventTells DEF PCs
  <2> QED BY <1>1, <1>5, <2>1, <2>2, MoveIsMonitorStep
<1>6. ASSUME NEW c \in Consumers, Sig!QueueGet(c) PROVE MonitorStep /\ OwnInv'
  <2>1. c \in Callers /\ MustWait(c) = QueueEmpty /\ EventFor(c) = "qNf"
    BY DEF MustWait, EventFor, Callers
  <2>2. CASE Sig!GetRemove(c)
    BY <1>5, <2>1, <2>2 DEF Sig!GetRemove, Sig!closeVars, closeVars
  <2> QED BY <1>3, <1>4, <1>6, <2>1, <2>2 DEF Sig!QueueGet, Sig!GetTest
<1>7. ASSUME NEW p \in Producers, Sig!QueuePut(p) PROVE MonitorStep /\ OwnInv'
  <2>1. p \in Callers /\ p \notin Consumers /\ MustWait(p) = QueueFull /\ EventFor(p) = "qNe"
    BY ThreadsAssumption DEF MustWait, EventFor, Callers
  <2>2. ASSUME NEW m \in Msg, Sig!PutInsert(p, m) PROVE MonitorStep /\ OwnInv'
    BY <1>5, <2>1, <2>2 DEF Sig!PutInsert, Sig!closeVars, closeVars
  <2> QED BY <1>3, <1>4, <1>7, <2>1, <2>2 DEF Sig!QueuePut, Sig!PutTest
<1> QED BY <1>2, <1>6, <1>7 DEF Sig!Next

-----------------------------------------------------------------------------
(* QueueObjCS_Sig. *)

(***************************************************************************)
(* The module of this version says about the ring, the guard and the calls *)
(* what QueueMonitor says.                                                 *)
(***************************************************************************)
LEMMA CSSigIsMonitor ==
  /\ CSSig!QueueEmpty = QueueEmpty /\ CSSig!QueueFull = QueueFull
  /\ \A t : /\ CSSig!QueueRemove(t) <=> QueueRemove(t)
            /\ CSSig!QueueInsert(t) <=> QueueInsert(t)
            /\ \A b : CSSig!Test(t, b) <=> Test(t, b)
            /\ CSSig!CallerStep(t) <=> CallerStep(t)
            /\ CSSig!WaitForEvent(t) <=> WaitForEvent(t)
            /\ \A e, l : CSSig!SetEvent(t, e, l) <=> SetEvent(t, e, l)
            /\ CSSig!ReleaseGuard(t) <=> ReleaseGuard(t)
BY DEF CSSig!QueueEmpty, CSSig!QueueFull, CSSig!DWordMinus, CSSig!QueueRemove,
       CSSig!QueueInsert, CSSig!NextSlot, CSSig!Test, CSSig!Goto, CSSig!ringVars,
       CSSig!closeVars, CSSig!CallerStep, CSSig!Call, CSSig!Enter, CSSig!Reacquire,
       CSSig!AcquireGuard, CSSig!WaitForEvent, CSSig!SetEvent, CSSig!EventOf,
       CSSig!WaitersFor, CSSig!Waiting, CSSig!Callers, CSSig!ReleaseGuard, QueueEmpty,
       QueueFull, DWordMinus, QueueRemove, QueueInsert, NextSlot, Test, Goto, ringVars,
       closeVars, CallerStep, Call, Enter, Reacquire, AcquireGuard, WaitForEvent, SetEvent,
       EventOf, WaitersFor, Waiting, Callers, ReleaseGuard

(***************************************************************************)
(* In QueueObjCS_Sig the guard is given up before the wait begins, so that *)
(* the event may come in between, and a wait with a time limit may end     *)
(* late.                                                                   *)
(***************************************************************************)
LEMMA CSSigStep ==
  ASSUME MonitorInv, OwnInv, version = "QueueObjCS_Sig", CSSig!Next,
         UNCHANGED <<version, TotalWaitTime, cancelVars>>
  PROVE  MonitorStep /\ OwnInv'
<1> USE CSSigIsMonitor DEF CSSig!Callers
<1>0. /\ MonitorTypeOK /\ DecisionsKept /\ EventsTypeOK /\ late \subseteq Callers
      /\ ~destroyed /\ OutOfTime = late /\ OutOfTime' = late' /\ UNCHANGED moved
      /\ version \notin SignalVersions /\ version # "QueueObjCancel"
  BY OutOfTimeIsLate
     DEF MonitorInv, OwnInv, OwnVariables, DestroyedVersions, SignalVersions, cancelVars
<1>1. ASSUME EventsTypeOK', late' \subseteq Callers, destroyed' = destroyed PROVE OwnInv'
  <2>1. version \in LateVersions /\ NoLostWakeup'
    BY DEF LateVersions, NoLostWakeup
  <2> QED BY <1>0, <1>1, <2>1, OwnInvFramed
<1>2. ASSUME NEW t \in Callers, CallerStep(t), UNCHANGED <<signalled, late>>
      PROVE  MonitorStep /\ OwnInv'
  <2>1. CommonStep /\ UNCHANGED frame
    BY <1>2 DEF CommonStep, frame, cancelVars
  <2>2. EventsTypeOK' /\ late' \subseteq Callers /\ destroyed' = destroyed
    BY <1>0, <1>2 DEF EventsTypeOK, CallerStep, Call, Enter, Reacquire, closeVars
  <2> QED BY <1>0, <1>1, <2>1, <2>2, CommonIsMonitorStep
<1>3. ASSUME NEW t \in Callers, Test(t, MustWait(t) /\ t \notin late), UNCHANGED <<signalled, late>>
      PROVE  MonitorStep /\ OwnInv'
  <2>1. UNCHANGED frame /\ (MustWait(t) /\ t \notin late) \in BOOLEAN
    BY <1>3 DEF frame, cancelVars
  <2>2. EventsTypeOK' /\ late' \subseteq Callers /\ destroyed' = destroyed
    BY <1>0, <1>3 DEF EventsTypeOK, Test, closeVars
  <2> QED BY <1>0, <1>1, <1>3, <2>1, <2>2, TestIsMonitorStep
<1>4. ASSUME NEW t \in Callers, CSSig!Wait(t) PROVE MonitorStep /\ OwnInv'
  <2>1. /\ UNCHANGED <<ringVars, closeVars, status>> /\ late' \subseteq late \cup {t}
        /\ late \subseteq late' /\ pc[t] \in {"sleep", "gap", "wait"}
        /\ ReleaseGuard(t) \/ UNCHANGED qGuard
    BY <1>4 DEF CSSig!Wait, CSSig!LeaveGuard, CSSig!BeginWait, CSSig!TimeOut, CSSig!ringVars, CSSig!closeVars,
       ringVars, closeVars
  <2>2. (\E l \in {"gap", "wait", "again"} : Goto(t, l)) /\ EventsTypeOK'
    <3>1. CASE CSSig!LeaveGuard(t) \/ CSSig!TimeOut(t)
      BY <1>0, <3>1 DEF CSSig!LeaveGuard, CSSig!TimeOut, CSSig!Goto, Goto, EventsTypeOK
    <3>2. CASE CSSig!BeginWait(t)
      BY <1>0, <3>2, WaitForEventSleeps DEF CSSig!BeginWait
    <3> QED BY <1>4, <3>1, <3>2 DEF CSSig!Wait
  <2>3. OthersInTime(t) /\ late' \subseteq Callers /\ destroyed' = destroyed
    BY <1>0, <2>1 DEF OthersInTime, closeVars
  <2> QED BY <1>0, <1>1, <2>1, <2>2, <2>3, SleepIsMonitorStep
<1>5. ASSUME NEW t \in Callers, pc[t] = "act", CSSig!Return(t, EventFor(t)),
             IF t \in late
             THEN UNCHANGED ringVars
             ELSE IF t \in Consumers THEN QueueRemove(t) ELSE \E m \in Msg : QueueInsert(m)
      PROVE  MonitorStep /\ OwnInv'
  <2>1. /\ SetEvent(t, EventFor(t), "out") /\ ReleaseGuard(t) /\ UNCHANGED closeVars
        /\ late' = late \ {t}
        /\ status' = [status EXCEPT ![t] = IF t \in late THEN "timeout" ELSE "ok"]
    BY <1>5 DEF CSSig!Return, CSSig!closeVars, closeVars
  <2>2. Wakes(t) /\ pc'[t] = "out" /\ OtherTold(t) /\ EventsTypeOK'
    BY <1>0, <1>5, <2>1, SetEventTells DEF PCs
  <2>3. OthersInTime(t) /\ late' \subseteq Callers /\ destroyed' = destroyed
    BY <1>0, <2>1 DEF OthersInTime, closeVars
  <2>4. CASE t \in late
    BY <1>0, <1>5, <2>1, <2>2, <2>3, <2>4, ReturnLateIsMonitorStep, <1>1
  <2>5. CASE ~(t \in late)
    <3>1. ~MustWait(t)
      BY <1>0, <1>5, <2>5 DEF DecisionsKept
    <3>2. \/ status' = [status EXCEPT ![t] = "ok"]
          \/ status' = [status EXCEPT ![t] = "timeout"] /\ version = "QueueObjSig_noSOAW"
      BY <2>1, <2>5
    <3> QED BY <1>0, <1>1, <1>5, <2>1, <2>2, <2>3, <2>5, <3>1, <3>2, MoveIsMonitorStep
  <2> QED BY <2>4, <2>5
<1>6. ASSUME NEW c \in Consumers, CSSig!GetTest(c) \/ CSSig!GetReturn(c) PROVE MonitorStep /\ OwnInv'
  <2>1. c \in Callers /\ MustWait(c) = QueueEmpty /\ EventFor(c) = "qNf"
    BY DEF MustWait, EventFor, Callers
  <2>2. CASE CSSig!GetReturn(c)
    BY <1>5, <2>1, <2>2 DEF CSSig!GetReturn, CSSig!ringVars, ringVars
  <2> QED BY <1>3, <1>6, <2>1, <2>2 DEF CSSig!GetTest
<1>7. ASSUME NEW p \in Producers, CSSig!PutTest(p) \/ \E m \in Msg : CSSig!PutReturn(p, m)
      PROVE  MonitorStep /\ OwnInv'
  <2>1. p \in Callers /\ p \notin Consumers /\ MustWait(p) = QueueFull /\ EventFor(p) = "qNe"
    BY ThreadsAssumption DEF MustWait, EventFor, Callers
  <2>2. ASSUME NEW m \in Msg, CSSig!PutReturn(p, m) PROVE MonitorStep /\ OwnInv'
    BY <1>5, <2>1, <2>2 DEF CSSig!PutReturn, CSSig!ringVars, ringVars
  <2> QED BY <1>3, <1>7, <2>1, <2>2 DEF CSSig!PutTest
<1>8. CSSig!Callers = Callers
  BY DEF Callers
<1> QED BY <1>2, <1>4, <1>6, <1>7, <1>8 DEF CSSig!Next, CSSig!QueueGet, CSSig!QueuePut

-----------------------------------------------------------------------------
(* QueueObjSig_noSOAW. *)

(***************************************************************************)
(* The module of this version says about the ring, the guard and the calls *)
(* what QueueMonitor says.                                                 *)
(***************************************************************************)
LEMMA ShortWaitsIsMonitor ==
  /\ ShortWaits!QueueEmpty = QueueEmpty /\ ShortWaits!QueueFull = QueueFull
  /\ \A t : /\ ShortWaits!QueueRemove(t) <=> QueueRemove(t)
            /\ ShortWaits!QueueInsert(t) <=> QueueInsert(t)
            /\ \A b : ShortWaits!Test(t, b) <=> Test(t, b)
            /\ ShortWaits!CallerStep(t) <=> CallerStep(t)
            /\ ShortWaits!WaitForEvent(t) <=> WaitForEvent(t)
            /\ \A e, l : ShortWaits!SetEvent(t, e, l) <=> SetEvent(t, e, l)
            /\ ShortWaits!ReleaseGuard(t) <=> ReleaseGuard(t)
BY DEF ShortWaits!QueueEmpty, ShortWaits!QueueFull, ShortWaits!DWordMinus,
       ShortWaits!QueueRemove, ShortWaits!QueueInsert, ShortWaits!NextSlot, ShortWaits!Test,
       ShortWaits!Goto, ShortWaits!ringVars, ShortWaits!closeVars, ShortWaits!CallerStep,
       ShortWaits!Call, ShortWaits!Enter, ShortWaits!Reacquire, ShortWaits!AcquireGuard,
       ShortWaits!WaitForEvent, ShortWaits!SetEvent, ShortWaits!EventOf,
       ShortWaits!WaitersFor, ShortWaits!Waiting, ShortWaits!Callers,
       ShortWaits!ReleaseGuard, QueueEmpty, QueueFull, DWordMinus, QueueRemove, QueueInsert,
       NextSlot, Test, Goto, ringVars, closeVars, CallerStep, Call, Enter, Reacquire,
       AcquireGuard, WaitForEvent, SetEvent, EventOf, WaitersFor, Waiting, Callers,
       ReleaseGuard

(***************************************************************************)
(* QueueObjSig_noSOAW cuts all its waits short; a call that is late may    *)
(* nevertheless move its message, and reports a time-out then.             *)
(***************************************************************************)
LEMMA ShortWaitsStep ==
  ASSUME MonitorInv, OwnInv, version = "QueueObjSig_noSOAW", ShortWaits!TimedNext,
         UNCHANGED <<version, TotalWaitTime, cancelVars>>
  PROVE  MonitorStep /\ OwnInv'
<1> USE ShortWaitsIsMonitor DEF ShortWaits!Callers
<1>0. /\ MonitorTypeOK /\ DecisionsKept /\ EventsTypeOK /\ late \subseteq Callers
      /\ ~destroyed /\ OutOfTime = late /\ OutOfTime' = late' /\ UNCHANGED moved
      /\ version \notin SignalVersions /\ version # "QueueObjCancel"
  BY OutOfTimeIsLate
     DEF MonitorInv, OwnInv, OwnVariables, DestroyedVersions, SignalVersions, cancelVars
<1>1. ASSUME EventsTypeOK', late' \subseteq Callers, destroyed' = destroyed PROVE OwnInv'
  <2>1. version \in LateVersions /\ NoLostWakeup'
    BY DEF LateVersions, NoLostWakeup
  <2> QED BY <1>0, <1>1, <2>1, OwnInvFramed
<1>2. ASSUME NEW t \in Callers, CallerStep(t), UNCHANGED <<signalled, late>>
      PROVE  MonitorStep /\ OwnInv'
  <2>1. CommonStep /\ UNCHANGED frame
    BY <1>2 DEF CommonStep, frame, cancelVars
  <2>2. EventsTypeOK' /\ late' \subseteq Callers /\ destroyed' = destroyed
    BY <1>0, <1>2 DEF EventsTypeOK, CallerStep, Call, Enter, Reacquire, closeVars
  <2> QED BY <1>0, <1>1, <2>1, <2>2, CommonIsMonitorStep
<1>3. ASSUME NEW t \in Callers, Test(t, MustWait(t) /\ t \notin late), UNCHANGED <<signalled, late>>
      PROVE  MonitorStep /\ OwnInv'
  <2>1. UNCHANGED frame /\ (MustWait(t) /\ t \notin late) \in BOOLEAN
    BY <1>3 DEF frame, cancelVars
  <2>2. EventsTypeOK' /\ late' \subseteq Callers /\ destroyed' = destroyed
    BY <1>0, <1>3 DEF EventsTypeOK, Test, closeVars
  <2> QED BY <1>0, <1>1, <1>3, <2>1, <2>2, TestIsMonitorStep
<1>4. ASSUME NEW t \in Callers, ShortWaits!Wait(t) PROVE MonitorStep /\ OwnInv'
  <2>1. /\ UNCHANGED <<ringVars, closeVars, status>> /\ late' \subseteq late \cup {t}
        /\ late \subseteq late' /\ pc[t] \in {"sleep", "gap", "wait"}
        /\ ReleaseGuard(t) \/ UNCHANGED qGuard
    BY <1>4 DEF ShortWaits!Wait, ShortWaits!LeaveGuard, ShortWaits!BeginWait, ShortWaits!TimeOut, ShortWaits!ringVars, ShortWaits!closeVars,
       ringVars, closeVars
  <2>2. (\E l \in {"gap", "wait", "again"} : Goto(t, l)) /\ EventsTypeOK'
    <3>1. CASE ShortWaits!LeaveGuard(t) \/ ShortWaits!TimeOut(t)
      BY <1>0, <3>1 DEF ShortWaits!LeaveGuard, ShortWaits!TimeOut, ShortWaits!Goto, Goto, EventsTypeOK
    <3>2. CASE ShortWaits!BeginWait(t)
      BY <1>0, <3>2, WaitForEventSleeps DEF ShortWaits!BeginWait
    <3> QED BY <1>4, <3>1, <3>2 DEF ShortWaits!Wait
  <2>3. OthersInTime(t) /\ late' \subseteq Callers /\ destroyed' = destroyed
    BY <1>0, <2>1 DEF OthersInTime, closeVars
  <2> QED BY <1>0, <1>1, <2>1, <2>2, <2>3, SleepIsMonitorStep
<1>5. ASSUME NEW t \in Callers, pc[t] = "act", ShortWaits!Return(t, EventFor(t)),
             IF t \in late /\ MustWait(t)
             THEN UNCHANGED ringVars
             ELSE IF t \in Consumers THEN QueueRemove(t) ELSE \E m \in Msg : QueueInsert(m)
      PROVE  MonitorStep /\ OwnInv'
  <2>1. /\ SetEvent(t, EventFor(t), "out") /\ ReleaseGuard(t) /\ UNCHANGED closeVars
        /\ late' = late \ {t}
        /\ status' = [status EXCEPT ![t] = IF t \in late THEN "timeout" ELSE "ok"]
    BY <1>5 DEF ShortWaits!Return, ShortWaits!closeVars, closeVars
  <2>2. Wakes(t) /\ pc'[t] = "out" /\ OtherTold(t) /\ EventsTypeOK'
    BY <1>0, <1>5, <2>1, SetEventTells DEF PCs
  <2>3. OthersInTime(t) /\ late' \subseteq Callers /\ destroyed' = destroyed
    BY <1>0, <2>1 DEF OthersInTime, closeVars
  <2>4. CASE t \in late /\ MustWait(t)
    BY <1>0, <1>5, <2>1, <2>2, <2>3, <2>4, ReturnLateIsMonitorStep, <1>1
  <2>5. CASE ~(t \in late /\ MustWait(t))
    <3>1. ~MustWait(t)
      BY <1>0, <1>5, <2>5 DEF DecisionsKept
    <3>2. \/ status' = [status EXCEPT ![t] = "ok"]
          \/ status' = [status EXCEPT ![t] = "timeout"] /\ version = "QueueObjSig_noSOAW"
      BY <2>1, <2>5
    <3> QED BY <1>0, <1>1, <1>5, <2>1, <2>2, <2>3, <2>5, <3>1, <3>2, MoveIsMonitorStep
  <2> QED BY <2>4, <2>5
<1>6. ASSUME NEW c \in Consumers, ShortWaits!GetTest(c) \/ ShortWaits!GetFinish(c) PROVE MonitorStep /\ OwnInv'
  <2>1. c \in Callers /\ MustWait(c) = QueueEmpty /\ EventFor(c) = "qNf"
    BY DEF MustWait, EventFor, Callers
  <2>2. CASE ShortWaits!GetFinish(c)
    BY <1>5, <2>1, <2>2 DEF ShortWaits!GetFinish, ShortWaits!ringVars, ringVars
  <2> QED BY <1>3, <1>6, <2>1, <2>2 DEF ShortWaits!GetTest
<1>7. ASSUME NEW p \in Producers, ShortWaits!PutTest(p) \/ \E m \in Msg : ShortWaits!PutFinish(p, m)
      PROVE  MonitorStep /\ OwnInv'
  <2>1. p \in Callers /\ p \notin Consumers /\ MustWait(p) = QueueFull /\ EventFor(p) = "qNe"
    BY ThreadsAssumption DEF MustWait, EventFor, Callers
  <2>2. ASSUME NEW m \in Msg, ShortWaits!PutFinish(p, m) PROVE MonitorStep /\ OwnInv'
    BY <1>5, <2>1, <2>2 DEF ShortWaits!PutFinish, ShortWaits!ringVars, ringVars
  <2> QED BY <1>3, <1>7, <2>1, <2>2 DEF ShortWaits!PutTest
<1>8. ShortWaits!Callers = Callers
  BY DEF Callers
<1> QED BY <1>2, <1>4, <1>6, <1>7, <1>8 DEF ShortWaits!TimedNext

-----------------------------------------------------------------------------
(* QueueObjPoll. *)

(***************************************************************************)
(* The module of this version says about the ring, the guard and the calls *)
(* what QueueMonitor says.                                                 *)
(***************************************************************************)
LEMMA PollIsMonitor ==
  /\ Poll!QueueEmpty = QueueEmpty /\ Poll!QueueFull = QueueFull
  /\ \A t : /\ Poll!QueueRemove(t) <=> QueueRemove(t)
            /\ Poll!QueueInsert(t) <=> QueueInsert(t)
            /\ \A b : Poll!Test(t, b) <=> Test(t, b)
            /\ Poll!CallerStep(t) <=> CallerStep(t)
            /\ Poll!ReleaseGuard(t) <=> ReleaseGuard(t)
BY DEF Poll!QueueEmpty, Poll!QueueFull, Poll!DWordMinus, Poll!QueueRemove, Poll!QueueInsert,
       Poll!NextSlot, Poll!Test, Poll!Goto, Poll!ringVars, Poll!closeVars, Poll!CallerStep,
       Poll!Call, Poll!Enter, Poll!Reacquire, Poll!AcquireGuard, Poll!ReleaseGuard,
       QueueEmpty, QueueFull, DWordMinus, QueueRemove, QueueInsert, NextSlot, Test, Goto,
       ringVars, closeVars, CallerStep, Call, Enter, Reacquire, AcquireGuard, ReleaseGuard

(***************************************************************************)
(* In QueueObjPoll nobody is woken; the time waited is added up and ends   *)
(* the call when it exceeds MaxWait.                                       *)
(***************************************************************************)
LEMMA PollStep ==
  ASSUME MonitorInv, OwnInv, version = "QueueObjPoll", Poll!Next,
         UNCHANGED <<version, signalled, late, cancelVars>>
  PROVE  MonitorStep /\ OwnInv'
<1> USE PollIsMonitor
<1>0. /\ MonitorTypeOK /\ DecisionsKept /\ EventsTypeOK /\ late = {} /\ UNCHANGED moved
      /\ ~destroyed /\ version \notin SignalVersions /\ version # "QueueObjCancel"
      /\ Poll!WaitTimeOK /\ WaitsInTime
  BY DEF MonitorInv, OwnInv, OwnVariables, DestroyedVersions, LateVersions, SignalVersions,
         cancelVars
<1>1. /\ TotalWaitTime \in [Callers -> 0 .. MaxWait + CV_TIMEOUT]
      /\ \A t \in Callers \ Finite : TotalWaitTime[t] = 0
      /\ \A t : Poll!TimedOut(t) <=> TotalWaitTime[t] > MaxWait
      /\ \A t \in Callers : t \in OutOfTime <=> TotalWaitTime[t] > MaxWait
      /\ \A t \in Callers : t \in OutOfTime' <=> TotalWaitTime'[t] > MaxWait
      /\ \A t \in Callers : pc[t] \in {"sleep", "gap", "wait"} => TotalWaitTime[t] <= MaxWait
  BY <1>0, VersionsAssumption
     DEF Poll!WaitTimeOK, Poll!TimedOut, Poll!Callers, Callers, OutOfTime, WaitsInTime
<1>2. ASSUME TotalWaitTime' \in [Callers -> 0 .. MaxWait + CV_TIMEOUT],
             \A t \in Callers \ Finite : TotalWaitTime'[t] = 0,
             \A t \in Callers : pc'[t] \in {"sleep", "gap", "wait"} => TotalWaitTime'[t] <= MaxWait,
             destroyed' = destroyed
      PROVE  OwnInv'
  <2>1. Poll!WaitTimeOK'
    BY <1>2 DEF Poll!WaitTimeOK, Poll!Callers, Callers
  <2>2. WaitsInTime'
    BY <1>2, VersionsAssumption DEF WaitsInTime, Poll!TimedOut
  <2>3. OwnVariables' /\ NoLostWakeup' /\ Cancel!CancelTypeOK' /\ EventsTypeOK'
    BY <1>0, <1>2 DEF OwnInv, OwnVariables, NoLostWakeup, Cancel!CancelTypeOK, cancelVars,
       EventsTypeOK
  <2>4. (version \in Versions)' /\ (late \subseteq Callers)'
    BY DEF OwnInv
  <2> QED BY <2>1, <2>2, <2>3, <2>4 DEF OwnInv
<1>3. ASSUME UNCHANGED TotalWaitTime, destroyed' = destroyed,
             \A t \in Callers : pc'[t] \in {"sleep", "gap", "wait"} =>
               pc[t] \in {"sleep", "gap", "wait"} \/ TotalWaitTime[t] <= MaxWait
      PROVE  OwnInv'
  BY <1>1, <1>2, <1>3
<1>4. ASSUME NEW t \in Callers, CallerStep(t), UNCHANGED TotalWaitTime
      PROVE  MonitorStep /\ OwnInv'
  <2>1. CommonStep /\ UNCHANGED frame
    BY <1>4 DEF CommonStep, frame
  <2>2. OwnInv'
    BY <1>0, <1>3, <1>4
       DEF MonitorTypeOK, Threads, CallerStep, Call, Enter, Reacquire, closeVars, Goto
  <2> QED BY <1>0, <2>1, <2>2, CommonIsMonitorStep
<1>5. ASSUME NEW t \in Callers, Test(t, MustWait(t) /\ ~Poll!TimedOut(t)), UNCHANGED TotalWaitTime
      PROVE  MonitorStep /\ OwnInv'
  <2>1. UNCHANGED frame /\ (MustWait(t) /\ ~Poll!TimedOut(t)) \in BOOLEAN
    BY <1>5 DEF frame
  <2>2. MonitorStep
    BY <1>1, <1>5, <2>1, TestIsMonitorStep
  <2>3. \A u \in Callers : pc'[u] \in {"sleep", "gap", "wait"} =>
               pc[u] \in {"sleep", "gap", "wait"} \/ TotalWaitTime[u] <= MaxWait
    BY <1>0, <1>1, <1>5, VersionsAssumption DEF Test, Goto, MonitorTypeOK, Threads
  <2> QED BY <1>3, <1>5, <2>2, <2>3 DEF Test, closeVars
<1>6. ASSUME NEW t \in Callers, Poll!LeaveGuard(t) \/ Poll!BeginWait(t)
      PROVE  MonitorStep /\ OwnInv'
  <2>1. /\ UNCHANGED <<ringVars, closeVars, status, TotalWaitTime>>
        /\ pc[t] \in {"sleep", "gap"} /\ (Goto(t, "gap") \/ Goto(t, "wait"))
        /\ ReleaseGuard(t) \/ UNCHANGED qGuard
    BY <1>6 DEF Poll!LeaveGuard, Poll!BeginWait, Poll!ringVars, Poll!closeVars, Poll!Goto,
       ringVars, closeVars, Goto
  <2>2. OthersInTime(t)
    BY <1>1, <2>1 DEF OthersInTime
  <2>3. OwnInv'
    BY <1>0, <1>3, <2>1 DEF MonitorTypeOK, Threads, closeVars, Goto
  <2> QED BY <1>0, <2>1, <2>2, <2>3, SleepIsMonitorStep
<1>7. ASSUME NEW t \in Callers, Poll!WaitElapses(t) PROVE MonitorStep /\ OwnInv'
  <2>1. /\ pc[t] = "wait" /\ Goto(t, "again") /\ pc' = [pc EXCEPT ![t] = "again"]
        /\ UNCHANGED <<ringVars, closeVars, status, qGuard>>
        /\ TotalWaitTime' = [u \in Callers |-> IF u \in {t} \cap Finite
                               THEN TotalWaitTime[u] + CV_TIMEOUT ELSE TotalWaitTime[u]]
    BY <1>7 DEF Poll!WaitElapses, Poll!ringVars, Poll!closeVars, Poll!Goto, Poll!Charged,
       Poll!Callers, Callers, ringVars, closeVars, Goto
  <2>2. OthersInTime(t)
    BY <1>1, <2>1 DEF OthersInTime
  <2>3. MonitorStep
    BY <1>0, <2>1, <2>2, SleepIsMonitorStep
  <2>4. \A u \in Callers : pc'[u] \in {"sleep", "gap", "wait"} => TotalWaitTime'[u] <= MaxWait
    BY <1>0, <1>1, <2>1 DEF MonitorTypeOK, Threads
  <2>5. /\ TotalWaitTime' \in [Callers -> 0 .. MaxWait + CV_TIMEOUT]
        /\ \A u \in Callers \ Finite : TotalWaitTime'[u] = 0
    BY <1>1, <2>1, VersionsAssumption
  <2> QED BY <1>2, <2>1, <2>3, <2>4, <2>5 DEF closeVars
<1>8. ASSUME NEW t \in Callers, pc[t] = "act", Poll!Return(t, Other(t)),
             IF Poll!TimedOut(t)
             THEN UNCHANGED ringVars
             ELSE IF t \in Consumers THEN QueueRemove(t) ELSE \E m \in Msg : QueueInsert(m)
      PROVE  MonitorStep /\ OwnInv'
  <2>1. /\ pc' = [u \in Threads |-> IF u = t THEN "out"
                   ELSE IF u \in Other(t) /\ pc[u] = "wait" THEN "again" ELSE pc[u]]
        /\ ReleaseGuard(t) /\ UNCHANGED closeVars
        /\ status' = [status EXCEPT ![t] = IF Poll!TimedOut(t) THEN "timeout" ELSE "ok"]
    BY <1>8 DEF Poll!Return, Poll!Waiting, Poll!Threads, Poll!Callers, Threads, Callers,
       Poll!closeVars, closeVars
  <2>2. TotalWaitTime' = [u \in Callers |-> IF u = t THEN 0
           ELSE IF u \in Other(t) /\ pc[u] = "wait" /\ u \in Finite
                THEN TotalWaitTime[u] + CV_TIMEOUT ELSE TotalWaitTime[u]]
    BY <1>8 DEF Poll!Return, Poll!Waiting, Poll!Charged, Poll!Callers, Callers
  <2>3. Wakes(t) /\ OtherTold(t) /\ pc'[t] = "out" /\ OthersInTime(t)
    <3>1. OthersInTime(t)
      BY <1>1, <2>2, VersionsAssumption DEF OthersInTime
    <3> QED BY <1>0, <2>1, <3>1 DEF Wakes, OtherTold, MonitorTypeOK, PCs, Threads
  <2>4. MonitorStep
    <3>1. CASE Poll!TimedOut(t)
      BY <1>0, <1>8, <2>1, <2>3, <3>1, ReturnLateIsMonitorStep
    <3>2. CASE ~Poll!TimedOut(t)
      <4>1. ~MustWait(t)
        BY <1>0, <1>1, <1>8, <3>2 DEF DecisionsKept
      <4>2. status' = [status EXCEPT ![t] = "ok"]
        BY <2>1, <3>2
      <4> QED BY <1>0, <1>8, <2>1, <2>3, <3>2, <4>1, <4>2, MoveIsMonitorStep
    <3> QED BY <3>1, <3>2
  <2>5. \A u \in Callers : pc'[u] \in {"sleep", "gap", "wait"} => TotalWaitTime'[u] <= MaxWait
    BY <1>1, <2>1, <2>2, VersionsAssumption DEF Threads
  <2>6. /\ TotalWaitTime' \in [Callers -> 0 .. MaxWait + CV_TIMEOUT]
        /\ \A u \in Callers \ Finite : TotalWaitTime'[u] = 0
    BY <1>1, <2>2, VersionsAssumption
  <2> QED BY <1>2, <2>1, <2>4, <2>5, <2>6 DEF closeVars
<1>9. ASSUME NEW c \in Consumers, Poll!QueueGet(c) PROVE MonitorStep /\ OwnInv'
  <2>1. c \in Callers /\ MustWait(c) = QueueEmpty /\ Other(c) = Producers
    BY DEF MustWait, Other, Callers
  <2>2. CASE Poll!GetReturn(c)
    BY <1>8, <2>1, <2>2 DEF Poll!GetReturn, Poll!ringVars, ringVars
  <2> QED BY <1>5, <1>9, <2>1, <2>2 DEF Poll!QueueGet, Poll!GetTest
<1>10. ASSUME NEW p \in Producers, Poll!QueuePut(p) PROVE MonitorStep /\ OwnInv'
  <2>1. p \in Callers /\ p \notin Consumers /\ MustWait(p) = QueueFull /\ Other(p) = Consumers
    BY ThreadsAssumption DEF MustWait, Other, Callers
  <2>2. ASSUME NEW m \in Msg, Poll!PutReturn(p, m) PROVE MonitorStep /\ OwnInv'
    BY <1>8, <2>1, <2>2 DEF Poll!PutReturn, Poll!ringVars, ringVars
  <2> QED BY <1>5, <1>10, <2>1, <2>2 DEF Poll!QueuePut, Poll!PutTest
<1>11. Poll!Callers = Callers
  BY DEF Poll!Callers, Callers
<1> QED BY <1>4, <1>6, <1>7, <1>9, <1>10, <1>11 DEF Poll!Next, Poll!Wait

-----------------------------------------------------------------------------
(* QueueObjCV. *)

(***************************************************************************)
(* The module of this version says about the ring, the guard and the calls *)
(* what QueueMonitor says.                                                 *)
(***************************************************************************)
LEMMA CVIsMonitor ==
  /\ CV!QueueEmpty = QueueEmpty /\ CV!QueueFull = QueueFull
  /\ \A t : /\ CV!QueueRemove(t) <=> QueueRemove(t)
            /\ CV!QueueInsert(t) <=> QueueInsert(t)
            /\ \A b : CV!Test(t, b) <=> Test(t, b)
            /\ CV!ReleaseGuard(t) <=> ReleaseGuard(t)
BY DEF CV!QueueEmpty, CV!QueueFull, CV!DWordMinus, CV!QueueRemove, CV!QueueInsert,
       CV!NextSlot, CV!Test, CV!Goto, CV!ringVars, CV!closeVars, CV!ReleaseGuard,
       QueueEmpty, QueueFull, DWordMinus, QueueRemove, QueueInsert, NextSlot, Test, Goto,
       ringVars, closeVars, ReleaseGuard

(***************************************************************************)
(* The SRW lock is a guard that is never closed: a step that takes it is   *)
(* one of the common steps.                                                *)
(***************************************************************************)
LEMMA CVIsCommon ==
  \A t : /\ CV!Call(t) <=> Call(t)
         /\ CV!EnterCV(t) => Enter(t)
         /\ CV!ReacquireCV(t) => Reacquire(t)
         /\ CV!UseDestroyed(t) => ResumeDestroyed(t)
         /\ CV!CallDestroy(t) <=> CallDestroy(t)
BY DEF CV!Call, CV!EnterCV, CV!AcquireSRWLock, CV!ReacquireCV, CV!UseDestroyed,
       CV!CallDestroy, CV!Goto, CV!ringVars, CV!closeVars, CV!Threads, CV!Callers, Call,
       Enter, AcquireGuard, Reacquire, ResumeDestroyed, CallDestroy, Goto, ringVars,
       closeVars, Threads, Callers

(***************************************************************************)
(* A condition variable wakes one thread; a wait may also end without a    *)
(* reason.                                                                 *)
(***************************************************************************)
LEMMA CVStep ==
  ASSUME MonitorInv, OwnInv, version = "QueueObjCV", CV!Next,
         UNCHANGED <<version, signalled, frame>>
  PROVE  MonitorStep /\ OwnInv'
<1> USE CVIsMonitor
<1>0. /\ MonitorTypeOK /\ DecisionsKept /\ EventsTypeOK' /\ late' = {} /\ UNCHANGED moved
      /\ OutOfTime = {} /\ OutOfTime' = {} /\ version # "QueueObjCancel" /\ UNCHANGED frame
  BY OutOfTimeIsLate
     DEF MonitorInv, OwnInv, OwnVariables, LateVersions, frame, cancelVars, EventsTypeOK
<1>1. OwnInv'
  <2>1. version \in DestroyedVersions /\ NoLostWakeup' /\ late' \subseteq Callers
    BY <1>0 DEF DestroyedVersions, NoLostWakeup
  <2> QED BY <1>0, <2>1, OwnInvFramed DEF frame
<1>2. ASSUME NEW t \in Callers,
             CV!Call(t) \/ CV!EnterCV(t) \/ CV!ReacquireCV(t) \/ CV!UseDestroyed(t)
      PROVE  MonitorStep
  <2>1. CommonStep
    BY <1>2, CVIsCommon DEF CommonStep, CallerStep
  <2> QED BY <1>0, <2>1, CommonIsMonitorStep
<1>3. ASSUME NEW t \in Callers, CV!Sleep(t) PROVE MonitorStep
  <2>1. /\ UNCHANGED <<ringVars, closeVars, status>> /\ pc[t] \in {"sleep", "wait"}
    BY <1>3 DEF CV!Sleep, CV!SleepConditionVariable, CV!WakeSpuriously, CV!Goto, CV!ringVars,
       CV!closeVars, Goto, ringVars, closeVars
  <2>2. (Goto(t, "wait") \/ Goto(t, "again")) /\ (ReleaseGuard(t) \/ UNCHANGED qGuard)
    BY <1>3 DEF CV!Sleep, CV!SleepConditionVariable, CV!WakeSpuriously, CV!Goto, Goto
  <2> QED BY <1>0, <2>1, <2>2, SleepIsMonitorStep DEF OthersInTime
<1>4. ASSUME NEW t \in Callers, Test(t, MustWait(t)) PROVE MonitorStep
  BY <1>0, <1>4, TestIsMonitorStep DEF MustWait, QueueEmpty, QueueFull
<1>5. ASSUME NEW t \in Callers, pc[t] = "act", ~destroyed, ReleaseGuard(t),
             CV!WakeConditionVariable(t, Other(t)),
             status' = [status EXCEPT ![t] = "ok"], UNCHANGED closeVars,
             IF t \in Consumers THEN QueueRemove(t) ELSE \E m \in Msg : QueueInsert(m)
      PROVE  MonitorStep
  <2>1. ~MustWait(t) /\ OthersInTime(t)
    BY <1>0, <1>5 DEF DecisionsKept, OthersInTime
  <2>2. Wakes(t) /\ pc'[t] = "out" /\ OtherTold(t)
    <3>1. CASE Waiting(Other(t)) = {} /\ pc' = [pc EXCEPT ![t] = "out"]
      BY <1>0, <3>1 DEF Wakes, OtherTold, MonitorTypeOK, Threads, PCs
    <3>2. ASSUME NEW w \in Waiting(Other(t)), pc' = [pc EXCEPT ![w] = "again", ![t] = "out"]
          PROVE  Wakes(t) /\ pc'[t] = "out" /\ OtherTold(t)
      BY <1>0, <1>5, <3>2 DEF Wakes, OtherTold, MonitorTypeOK, Threads, Callers, PCs, Waiting, Other
    <3> QED BY <1>5, <3>1, <3>2 DEF CV!WakeConditionVariable, CV!Waiting, CV!Goto, Waiting
  <2> QED BY <1>0, <1>5, <2>1, <2>2, MoveIsMonitorStep
<1>6. ASSUME NEW c \in Consumers, CV!QueueGet(c) PROVE MonitorStep
  <2>1. c \in Callers /\ MustWait(c) = QueueEmpty /\ Other(c) = Producers
    BY DEF MustWait, Other, Callers
  <2>2. CASE CV!GetRemove(c)
    BY <1>5, <2>1, <2>2 DEF CV!GetRemove, CV!closeVars, closeVars
  <2> QED BY <1>4, <1>6, <2>1, <2>2 DEF CV!QueueGet
<1>7. ASSUME NEW p \in Producers, CV!QueuePut(p) PROVE MonitorStep
  <2>1. p \in Callers /\ p \notin Consumers /\ MustWait(p) = QueueFull /\ Other(p) = Consumers
    BY ThreadsAssumption DEF MustWait, Other, Callers
  <2>2. ASSUME NEW m \in Msg, CV!PutInsert(p, m) PROVE MonitorStep
    BY <1>5, <2>1, <2>2 DEF CV!PutInsert, CV!closeVars, closeVars
  <2> QED BY <1>4, <1>7, <2>1, <2>2 DEF CV!QueuePut
<1>8. ASSUME NEW d \in Destroyers, CV!CallDestroy(d) \/ CV!DestroyCV(d) PROVE MonitorStep
  <2>1. CASE CV!CallDestroy(d)
    <3>1. CommonStep
      BY <2>1, CVIsCommon DEF CommonStep, Destroyer
    <3> QED BY <1>0, <3>1, CommonIsMonitorStep
  <2>2. CASE CV!DestroyCV(d)
    BY <1>0, <2>2 DEF CV!DestroyCV, CV!Goto, CV!ringVars, ringVars, MonitorStep, EndStep, Wakes,
       MonitorTypeOK, Threads, PCs, frame
  <2> QED BY <1>8, <2>1, <2>2
<1>9. CV!Callers = Callers
  BY DEF CV!Callers, Callers
<1> QED BY <1>1, <1>2, <1>3, <1>6, <1>7, <1>8, <1>9 DEF CV!Next

-----------------------------------------------------------------------------
(* QueueObjPthreads. *)

(***************************************************************************)
(* The module of this version says about the ring, the guard and the calls *)
(* what QueueMonitor says.                                                 *)
(***************************************************************************)
LEMMA PthreadsIsMonitor ==
  /\ Pthreads!QueueEmpty = QueueEmpty /\ Pthreads!QueueFull = QueueFull
  /\ Pthreads!QueueEmpty' = QueueEmpty' /\ Pthreads!QueueFull' = QueueFull'
  /\ \A t : /\ Pthreads!QueueRemove(t) <=> QueueRemove(t)
            /\ Pthreads!QueueInsert(t) <=> QueueInsert(t)
            /\ \A b : Pthreads!Test(t, b) <=> Test(t, b)
            /\ Pthreads!Call(t) \/ Pthreads!Reacquire(t) <=> Call(t) \/ Reacquire(t)
            /\ Pthreads!Destroyer(t) <=> Destroyer(t)
            /\ Pthreads!ReleaseGuard(t) <=> ReleaseGuard(t)
BY DEF Pthreads!QueueEmpty, Pthreads!QueueFull, Pthreads!DWordMinus, Pthreads!QueueRemove,
       Pthreads!QueueInsert, Pthreads!NextSlot, Pthreads!Test, Pthreads!Goto,
       Pthreads!ringVars, Pthreads!closeVars, Pthreads!Call, Pthreads!Reacquire,
       Pthreads!AcquireGuard, Pthreads!Destroyer, Pthreads!CallDestroy,
       Pthreads!QueueDestroy, Pthreads!CloseGuard, Pthreads!ReleaseGuard, QueueEmpty,
       QueueFull, DWordMinus, QueueRemove, QueueInsert, NextSlot, Test, Goto, ringVars,
       closeVars, Call, Reacquire, AcquireGuard, Destroyer, CallDestroy, QueueDestroy,
       CloseGuard, ReleaseGuard

(***************************************************************************)
(* In QueueObjPthreads a change wakes everyone on the other side, and a    *)
(* call that is late moves nothing.                                        *)
(***************************************************************************)
LEMMA PthreadsStep ==
  ASSUME MonitorInv, OwnInv, version = "QueueObjPthreads", Pthreads!Next,
         UNCHANGED <<version, signalled, TotalWaitTime, cancelVars>>
  PROVE  MonitorStep /\ OwnInv'
<1> USE ThreadsAssumption, PthreadsIsMonitor
<1>0. /\ MonitorTypeOK /\ InsideOwnsGuard /\ DecisionsKept /\ PendingDuringCall /\ EventsTypeOK'
      /\ Broadcast!NoLostWakeup /\ moved = {} /\ moved' = {} /\ late \subseteq Callers
      /\ OutOfTime = late /\ OutOfTime' = late'
      /\ version # "QueueObjCancel" /\ version \notin SignalVersions
  BY OutOfTimeIsLate
     DEF MonitorInv, OwnInv, OwnVariables, NoLostWakeup, EventsTypeOK, cancelVars, SignalVersions
<1>1. ASSUME late' \subseteq Callers, Broadcast!NoLostWakeup'
      PROVE  OwnInv'
  <2>1. version \in DestroyedVersions /\ version \in LateVersions /\ NoLostWakeup'
    BY <1>1 DEF DestroyedVersions, LateVersions, NoLostWakeup
  <2> QED BY <1>0, <1>1, <2>1, OwnInvFramed
<1>2. ASSUME late' \subseteq Callers, UNCHANGED ringVars,
             \A t \in Callers : pc'[t] = "wait" => pc[t] = "wait" \/ MustWait(t)
      PROVE  OwnInv'
  BY <1>0, <1>1, <1>2, BroadcastIsMonitor
     DEF Broadcast!NoLostWakeup, ringVars, QueueEmpty, QueueFull, MustWait, Callers
<1>3. ASSUME CommonStep, UNCHANGED late PROVE MonitorStep /\ OwnInv'
  BY <1>0, <1>2, <1>3, CommonIsMonitorStep, CommonStepFrame DEF frame
<1>4. ASSUME NEW t \in Callers, (Call(t) \/ Reacquire(t)) /\ UNCHANGED late
      PROVE  MonitorStep /\ OwnInv'
  BY <1>3, <1>4 DEF CommonStep, CallerStep
<1>5. ASSUME NEW t \in Callers, Pthreads!EnterUnlocked(t) PROVE MonitorStep /\ OwnInv'
  <2>1. /\ pc[t] = "enter" /\ UNCHANGED <<ringVars, closeVars, qGuard, late>>
        /\ \/ Goto(t, "out") /\ status' = [status EXCEPT ![t] = "destroyed"]
           \/ Goto(t, "again") /\ status' = status
    BY <1>5 DEF Pthreads!EnterUnlocked, Pthreads!Goto, Pthreads!ringVars, Pthreads!closeVars,
       Goto, ringVars, closeVars
  <2>2. QuietStep(t)
    BY <1>0, <2>1 DEF QuietStep, Wakes, Guarded, OthersUntold, OthersInTime, NoSignalWasted,
       Accounted, Decided, Told, PendingDuringCall, MonitorTypeOK, Inside, Goto, PCs, Statuses,
       Threads, Callers
  <2>3. OwnInv'
    BY <1>0, <1>2, <2>1 DEF MonitorTypeOK, Goto, Threads
  <2> QED BY <2>2, <2>3 DEF MonitorStep, Threads
<1>6. ASSUME NEW t \in Callers,
             Pthreads!CondWait(t) \/ Pthreads!WakeSpuriously(t) \/ Pthreads!TimeOut(t)
      PROVE  MonitorStep /\ OwnInv'
  <2>1. /\ pc[t] \in {"sleep", "wait"} /\ (ReleaseGuard(t) \/ UNCHANGED qGuard)
        /\ (pc[t] = "sleep" /\ Goto(t, "wait")) \/ Goto(t, "again")
        /\ UNCHANGED <<ringVars, closeVars, status>>
        /\ late' = late \/ late' = late \cup {t}
    BY <1>6 DEF Pthreads!CondWait, Pthreads!WakeSpuriously, Pthreads!TimeOut, Pthreads!Goto,
       Pthreads!ringVars, Pthreads!closeVars, Goto, ringVars, closeVars
  <2>2. MonitorStep
    BY <1>0, <2>1, SleepIsMonitorStep DEF OthersInTime
  <2>3. OwnInv'
    BY <1>0, <1>2, <2>1 DEF DecisionsKept, MonitorTypeOK, Goto, Threads
  <2> QED BY <2>2, <2>3
<1>7. ASSUME NEW t \in Callers, Pthreads!ReturnLate(t) PROVE MonitorStep /\ OwnInv'
  <2>1. /\ pc[t] = "act" /\ Goto(t, "out") /\ ReleaseGuard(t) /\ late' = late \ {t}
        /\ status' = [status EXCEPT ![t] = "timeout"] /\ UNCHANGED <<ringVars, closeVars>>
    BY <1>7 DEF Pthreads!ReturnLate, Pthreads!Goto, Pthreads!ringVars, Pthreads!closeVars, Goto,
       ringVars, closeVars
  <2>2. Wakes(t) /\ pc'[t] = "out" /\ OthersInTime(t)
    BY <1>0, <2>1 DEF Wakes, OthersInTime, MonitorTypeOK, Goto, PCs, Threads
  <2>3. MonitorStep
    BY <1>0, <2>1, <2>2, ReturnLateIsMonitorStep
  <2>4. OwnInv'
    BY <1>0, <1>2, <2>1 DEF MonitorTypeOK, Goto, Threads
  <2> QED BY <2>3, <2>4
<1>8. ASSUME NEW t \in Callers, Pthreads!UseFreed(t) PROVE MonitorStep /\ OwnInv'
  <2>1. /\ destroyed /\ pc' = [u \in Threads |-> "crashed"]
        /\ UNCHANGED <<ringVars, closeVars, qGuard, status, late>>
    BY <1>8 DEF Pthreads!UseFreed, Pthreads!Threads, Pthreads!Callers, Pthreads!ringVars,
       Pthreads!closeVars, Threads, Callers, ringVars, closeVars
  <2>2. EndStep
    BY <1>0, <2>1 DEF EndStep, closeVars, MonitorTypeOK
  <2>3. OwnInv'
    BY <1>0, <1>2, <2>1 DEF Threads
  <2> QED BY <2>2, <2>3 DEF MonitorStep
<1>9. ASSUME NEW t \in Callers, Test(t, MustWait(t) /\ t \notin late), UNCHANGED late
      PROVE  MonitorStep /\ OwnInv'
  <2>1. UNCHANGED frame /\ (MustWait(t) /\ t \notin late) \in BOOLEAN
    BY <1>9 DEF frame
  <2>2. MonitorStep
    BY <1>0, <1>9, <2>1, TestIsMonitorStep
  <2>3. OwnInv'
    BY <1>0, <1>2, <1>9 DEF Test, Goto, MonitorTypeOK, Threads
  <2> QED BY <2>2, <2>3
<1>10. ASSUME NEW t \in Callers, pc[t] = "act", t \notin late, ~destroyed,
             Pthreads!BroadcastAndReturn(t, Other(t)),
             IF t \in Consumers THEN QueueRemove(t) ELSE \E m \in Msg : QueueInsert(m)
      PROVE  MonitorStep /\ OwnInv'
  <2>1. ~MustWait(t)
    BY <1>0, <1>10 DEF DecisionsKept
  <2>2. /\ pc' = [u \in Threads |-> IF u = t THEN "out"
                    ELSE IF u \in Other(t) /\ pc[u] = "wait" THEN "again" ELSE pc[u]]
        /\ ReleaseGuard(t) /\ status' = [status EXCEPT ![t] = "ok"]
        /\ UNCHANGED closeVars /\ UNCHANGED late
    BY <1>10 DEF Pthreads!BroadcastAndReturn, Pthreads!Waiting, Pthreads!Threads,
       Pthreads!Callers, Pthreads!closeVars, Threads, Callers, closeVars
  <2>3. Wakes(t) /\ OtherTold(t) /\ pc'[t] = "out" /\ OthersInTime(t) /\ UNCHANGED moved
    BY <1>0, <2>2 DEF Wakes, OtherTold, OthersInTime, MonitorTypeOK, PCs, Threads, Callers, Other
  <2>4. MonitorStep
    BY <1>0, <1>10, <2>1, <2>2, <2>3, MoveIsMonitorStep
  <2>5. Broadcast!NoLostWakeup'
    BY <1>0, <1>10, <2>1, <2>2, BroadcastIsMonitor
       DEF Broadcast!NoLostWakeup, MustWait, Other, Threads, Callers
  <2> QED BY <1>0, <1>1, <2>2, <2>4, <2>5
<1>11. ASSUME NEW c \in Consumers, Pthreads!QueueGet(c) PROVE MonitorStep /\ OwnInv'
  <2>1. c \in Callers /\ MustWait(c) = QueueEmpty /\ Other(c) = Producers
    BY DEF MustWait, Other, Callers
  <2> QED BY <1>9, <1>10, <1>11, <2>1
         DEF Pthreads!QueueGet, Pthreads!GetTest, Pthreads!GetRemove
<1>12. ASSUME NEW p \in Producers, Pthreads!QueuePut(p) PROVE MonitorStep /\ OwnInv'
  <2>1. p \in Callers /\ p \notin Consumers /\ MustWait(p) = QueueFull /\ Other(p) = Consumers
    BY DEF MustWait, Other, Callers
  <2>2. ASSUME NEW m \in Msg, Pthreads!PutInsert(p, m) PROVE MonitorStep /\ OwnInv'
    BY <1>10, <2>1, <2>2 DEF Pthreads!PutInsert
  <2> QED BY <1>9, <1>12, <2>1, <2>2 DEF Pthreads!QueuePut, Pthreads!PutTest
<1>13. ASSUME NEW d \in Destroyers, Destroyer(d), UNCHANGED late PROVE MonitorStep /\ OwnInv'
  BY <1>3, <1>13 DEF CommonStep
<1> QED BY <1>4, <1>5, <1>6, <1>7, <1>8, <1>11, <1>12, <1>13 DEF Pthreads!Next, Pthreads!Callers, Callers

-----------------------------------------------------------------------------
(* QueueObjCancel. *)

(***************************************************************************)
(* The module of this version says about the ring, the guard and the calls *)
(* what QueueMonitor says.                                                 *)
(***************************************************************************)
LEMMA CancelIsMonitor ==
  /\ Cancel!QueueEmpty = QueueEmpty /\ Cancel!QueueFull = QueueFull
  /\ \A t : /\ Cancel!QueueRemove(t) <=> QueueRemove(t)
            /\ Cancel!QueueInsert(t) <=> QueueInsert(t)
            /\ Cancel!Call(t) <=> Call(t)
            /\ Cancel!Reacquire(t) <=> Reacquire(t)
            /\ Cancel!WaitForEvent(t) <=> WaitForEvent(t)
            /\ \A e, l : Cancel!SetEvent(t, e, l) <=> SetEvent(t, e, l)
            /\ Cancel!ReleaseGuard(t) <=> ReleaseGuard(t)
BY DEF Cancel!QueueEmpty, Cancel!QueueFull, Cancel!DWordMinus, Cancel!QueueRemove,
       Cancel!QueueInsert, Cancel!NextSlot, Cancel!Goto, Cancel!ringVars, Cancel!closeVars,
       Cancel!Call, Cancel!Reacquire, Cancel!AcquireGuard, Cancel!WaitForEvent,
       Cancel!SetEvent, Cancel!EventOf, Cancel!WaitersFor, Cancel!Waiting, Cancel!Callers,
       Cancel!ReleaseGuard, QueueEmpty, QueueFull, DWordMinus, QueueRemove, QueueInsert,
       NextSlot, Goto, ringVars, closeVars, Call, Reacquire, AcquireGuard, WaitForEvent,
       SetEvent, EventOf, WaitersFor, Waiting, Callers, ReleaseGuard

(***************************************************************************)
(* In QueueObjCancel a call may end at each of its looks at the flag, once *)
(* with the guard still owned; a message is moved before the status is     *)
(* chosen.                                                                 *)
(***************************************************************************)
LEMMA CancelStep ==
  ASSUME MonitorInv, OwnInv, version = "QueueObjCancel", Cancel!Next,
         UNCHANGED <<version, late, TotalWaitTime>>
  PROVE  MonitorStep /\ OwnInv'
<1> USE ThreadsAssumption, CancelIsMonitor
    DEF Cancel!cancelVars, Cancel!Goto, Cancel!ringVars, Cancel!closeVars, Cancel!Cancelled
<1>0. /\ MonitorTypeOK /\ InsideOwnsGuard /\ DecisionsKept /\ PendingDuringCall
      /\ EventsTypeOK /\ moved \subseteq Callers /\ Cancel!CancelTypeOK
      /\ OutOfTime = {} /\ OutOfTime' = {} /\ ~destroyed /\ guardOpen
  BY OutOfTimeIsLate
     DEF MonitorInv, OwnInv, OwnVariables, DestroyedVersions, LateVersions, InsideOwnsGuard
<1>1. ASSUME EventsTypeOK', UNCHANGED closeVars,
             {shutDownGet', ShutDownPut'} \subseteq BOOLEAN, apc' \in [Callers -> 0 .. 3],
             moved' \subseteq Callers
      PROVE  OwnInv'
  <2>1. Poll!WaitTimeOK' /\ Cancel!CancelTypeOK'
    BY <1>1 DEF OwnInv, Poll!WaitTimeOK, Cancel!CancelTypeOK, Cancel!Callers, Callers
  <2>2. OwnVariables' /\ NoLostWakeup'
    BY <1>1 DEF OwnInv, OwnVariables, NoLostWakeup, closeVars
  <2>3. WaitsInTime'
    BY VersionsAssumption DEF WaitsInTime, OwnInv, OwnVariables, Poll!TimedOut
  <2>4. (version \in Versions)' /\ (late \subseteq Callers)'
    BY DEF OwnInv
  <2> QED BY <1>1, <2>1, <2>2, <2>3, <2>4 DEF OwnInv
<1>2. ASSUME UNCHANGED <<closeVars, signalled, shutDownGet, ShutDownPut, apc, moved>>
      PROVE  OwnInv'
  BY <1>0, <1>1, <1>2 DEF EventsTypeOK, Cancel!CancelTypeOK, Cancel!Callers, Callers
<1>3. ASSUME NEW t \in Callers, NEW l \in PCs,
             UNCHANGED <<ringVars, closeVars>>, Goto(t, l), moved' = moved \/ moved' = moved \ {t},
             qGuard' \in {qGuard, t, NoThread}, qGuard' # qGuard => qGuard \in {t, NoThread},
             l \in Inside => qGuard' = t, l # "closing", NoSignalWasted(t),
             status' = status \/ \E s \in Statuses : status' = [status EXCEPT ![t] = s],
             Accounted(t)', Decided(t)',
             \/ Told(t)' = Told(t)
             \/ Told(t) # "pending" /\ Told(t)' = "pending"
             \/ Told(t) = "pending" /\ Told(t)' = "timeout"
      PROVE  MonitorStep
  <2>1. Wakes(t) /\ Guarded(t) /\ OthersInTime(t)
    BY <1>0, <1>3 DEF Wakes, Guarded, OthersInTime, MonitorTypeOK, Goto, Threads
  <2>2. OthersUntold(t)
    BY <1>0, <1>3 DEF OthersUntold, MonitorTypeOK
  <2> QED BY <1>3, <2>1, <2>2 DEF MonitorStep, QuietStep, Threads
<1>4. ASSUME NEW t \in Callers, Cancel!CallCancel(t) PROVE MonitorStep /\ OwnInv'
  <2>1. /\ pc[t] = "out" /\ Goto(t, "enter") /\ status' = [status EXCEPT ![t] = "pending"]
        /\ moved' = moved \ {t}
        /\ UNCHANGED <<ringVars, closeVars, qGuard, signalled, shutDownGet, ShutDownPut, apc>>
    BY <1>4 DEF Cancel!CallCancel, Call
  <2>2. MonitorStep
    BY <1>0, <1>3, <2>1 DEF NoSignalWasted, Accounted, Decided, Told, PendingDuringCall,
       MonitorTypeOK, Goto, Threads, PCs, Statuses, Inside, Awake
  <2>3. OwnInv'
    BY <1>0, <1>1, <2>1 DEF EventsTypeOK, Cancel!CancelTypeOK, Cancel!Callers, Callers
  <2> QED BY <2>2, <2>3
<1>5. ASSUME NEW t \in Callers, Cancel!EnterCancel(t) \/ Cancel!ReacquireCancel(t)
      PROVE  MonitorStep /\ OwnInv'
  <2>1. /\ pc[t] \in {"enter", "again"} /\ Goto(t, "in") /\ qGuard \in {NoThread, t} /\ qGuard' = t
        /\ UNCHANGED <<ringVars, closeVars, status, signalled, shutDownGet, ShutDownPut, apc, moved>>
    BY <1>0, <1>5 DEF Cancel!EnterCancel, Cancel!ReacquireCancel, Cancel!AcquireGuard, Reacquire,
       AcquireGuard, Goto, ringVars, closeVars
  <2>2. MonitorStep
    BY <1>0, <1>3, <2>1 DEF NoSignalWasted, Accounted, Decided, Told, PendingDuringCall,
       MonitorTypeOK, Goto, Threads, PCs, Statuses, Inside, Awake
  <2> QED BY <1>2, <2>1, <2>2
<1>6. ASSUME NEW t \in Callers, Cancel!LoopTest(t, MustWait(t)) PROVE MonitorStep /\ OwnInv'
  <2>1. /\ pc[t] = "in"
        /\ UNCHANGED <<ringVars, closeVars, qGuard, signalled, shutDownGet, ShutDownPut, apc, moved>>
    BY <1>6 DEF Cancel!LoopTest, ringVars, closeVars
  <2>2. qGuard = t
    BY <1>0, <2>1 DEF InsideOwnsGuard, Inside, Threads
  <2>3. MustWait(t)' = MustWait(t)
    BY <2>1, MustWaitFramed
  <2>4. CASE /\ shutDownGet \/ ShutDownPut
             /\ Goto(t, "out") /\ status' = [status EXCEPT ![t] = "timeout"]
    BY <1>0, <1>2, <1>3, <2>1, <2>2, <2>4 DEF NoSignalWasted, Accounted, Decided, Told, PendingDuringCall,
       MonitorTypeOK, Goto, Threads, PCs, Statuses, Inside, Awake
  <2>5. CASE /\ UNCHANGED status
             /\ (Goto(t, "sleep") /\ MustWait(t)) \/ (Goto(t, "act") /\ ~MustWait(t))
    BY <1>0, <1>2, <1>3, <2>1, <2>2, <2>3, <2>5 DEF NoSignalWasted, Accounted, Decided, Told,
       PendingDuringCall, MonitorTypeOK, Goto, Threads, PCs, Statuses, Inside, Awake
  <2>6. \/ /\ shutDownGet \/ ShutDownPut
           /\ Goto(t, "out") /\ status' = [status EXCEPT ![t] = "timeout"]
        \/ /\ UNCHANGED status
           /\ (Goto(t, "sleep") /\ MustWait(t)) \/ (Goto(t, "act") /\ ~MustWait(t))
    BY <1>6 DEF Cancel!LoopTest, Cancel!SeesShutDown, Goto
  <2> QED BY <1>2, <2>1, <2>4, <2>5, <2>6
<1>7. ASSUME NEW t \in Callers, Cancel!AlertableWait(t) PROVE MonitorStep /\ OwnInv'
  <2>1. /\ pc[t] = "sleep" /\ WaitForEvent(t) /\ ReleaseGuard(t)
        /\ UNCHANGED <<ringVars, closeVars, status, shutDownGet, ShutDownPut, apc, moved>>
    BY <1>7 DEF Cancel!AlertableWait, ringVars, closeVars
  <2>2. (\E l \in {"wait", "again"} : Goto(t, l)) /\ EventsTypeOK'
    BY <1>0, <2>1, WaitForEventSleeps
  <2>3. MonitorStep
    BY <1>0, <2>1, <2>2, SleepIsMonitorStep DEF OthersInTime
  <2>4. OwnInv'
    BY <1>0, <1>1, <2>1, <2>2 DEF Cancel!CancelTypeOK, Cancel!Callers, Callers
  <2> QED BY <2>3, <2>4
<1>8. ASSUME NEW t \in Callers, Cancel!QueueShutDown(t) PROVE MonitorStep /\ OwnInv'
  <2>1. /\ pc[t] = "wait" /\ apc[t] \in 1 .. 3
        /\ shutDownGet' = (shutDownGet \/ apc[t] % 2 # 0)
        /\ ShutDownPut' = (ShutDownPut \/ (apc[t] \div 2) % 2 # 0)
        /\ apc' = [apc EXCEPT ![t] = 0]
        /\ UNCHANGED <<ringVars, closeVars, qGuard, signalled, moved>>
        /\ \/ Goto(t, "out") /\ status' = [status EXCEPT ![t] = "timeout"]
           \/ Goto(t, "again") /\ UNCHANGED status
    BY <1>0, <1>8 DEF Cancel!QueueShutDown, Cancel!CancelTypeOK, Cancel!Callers, Callers, Goto,
       ringVars, closeVars
  <2>2. NoSignalWasted(t)
    BY <1>0, <2>1 DEF NoSignalWasted, Awake, Goto, MonitorTypeOK, Threads
  <2>3. MonitorStep
    BY <1>0, <1>3, <2>1, <2>2 DEF Accounted, Decided, Told,
       PendingDuringCall, MonitorTypeOK, Goto, Threads, PCs, Statuses, Inside
  <2>4. OwnInv'
    BY <1>0, <1>1, <2>1 DEF EventsTypeOK, Cancel!CancelTypeOK, Cancel!Callers, Callers
  <2> QED BY <2>3, <2>4
<1>9. ASSUME NEW t \in Callers, Cancel!GiveUp(t) PROVE MonitorStep /\ OwnInv'
  <2>1. /\ pc[t] = "act" /\ (shutDownGet \/ ShutDownPut)
        /\ Goto(t, "out") /\ status' = [status EXCEPT ![t] = "timeout"]
        /\ UNCHANGED <<ringVars, closeVars, qGuard, signalled, shutDownGet, ShutDownPut, apc, moved>>
    BY <1>9 DEF Cancel!GiveUp, Cancel!SeesShutDown, Goto, ringVars, closeVars
  <2>2. MonitorStep
    BY <1>0, <1>3, <2>1 DEF NoSignalWasted, Accounted, Decided, Told, PendingDuringCall,
       MonitorTypeOK, Goto, Threads, PCs, Statuses, Inside, Awake
  <2> QED BY <1>2, <2>1, <2>2
<1>10. ASSUME NEW t \in Callers, Cancel!Report(t) PROVE MonitorStep /\ OwnInv'
  <2>1. /\ pc[t] = "ret" /\ Goto(t, "out")
        /\ \E s \in {"timeout", "ok"} : status' = [status EXCEPT ![t] = s]
        /\ UNCHANGED <<ringVars, closeVars, qGuard, signalled, shutDownGet, ShutDownPut, apc, moved>>
    BY <1>10 DEF Cancel!Report, Goto, ringVars, closeVars
  <2>2. MonitorStep
    BY <1>0, <1>3, <2>1 DEF NoSignalWasted, Accounted, Decided, Told, PendingDuringCall,
       MonitorTypeOK, Goto, Threads, PCs, Statuses, Inside, Awake
  <2> QED BY <1>2, <2>1, <2>2
<1>11. ASSUME NEW t \in Callers, NEW n \in 1 .. 3, Cancel!QueueUserAPC(t, n)
       PROVE  MonitorStep /\ OwnInv'
  <2>1. /\ apc' = [apc EXCEPT ![t] = n] /\ UNCHANGED queueVars
        /\ UNCHANGED <<signalled, shutDownGet, ShutDownPut, moved>>
    BY <1>11 DEF Cancel!QueueUserAPC, Cancel!queueVars, queueVars
  <2>2. Goto(t, pc[t]) /\ pc[t] \in PCs
    BY <1>0, <2>1 DEF Goto, queueVars, MonitorTypeOK, Threads
  <2>3. UNCHANGED <<ringVars, closeVars, qGuard, status>> /\ pc' = pc
    BY <2>1 DEF queueVars, ringVars, closeVars
  <2>4. MustWait(t)' = MustWait(t)
    BY <2>3, MustWaitFramed
  <2>5. Accounted(t)' /\ Decided(t)' /\ Told(t)' = Told(t) /\ NoSignalWasted(t)
    BY <1>0, <2>1, <2>3, <2>4 DEF Accounted, Decided, Told, NoSignalWasted, PendingDuringCall,
       DecisionsKept, Awake
  <2>6. (pc[t] \in Inside => qGuard' = t) /\ pc[t] # "closing"
    BY <1>0, <2>3 DEF InsideOwnsGuard, Threads
  <2>7. MonitorStep
    BY <1>3, <2>1, <2>2, <2>3, <2>5, <2>6
  <2>8. OwnInv'
    BY <1>0, <1>1, <2>1, <2>3 DEF EventsTypeOK, Cancel!CancelTypeOK, Cancel!Callers, Callers
  <2> QED BY <2>7, <2>8
<1>12. ASSUME NEW t \in Callers, pc[t] = "act", SetEvent(t, EventFor(t), "ret"), ReleaseGuard(t),
              moved' = moved \cup {t}, UNCHANGED <<closeVars, status, shutDownGet, ShutDownPut, apc>>,
              IF t \in Consumers THEN QueueRemove(t) ELSE \E m \in Msg : QueueInsert(m)
       PROVE  MonitorStep /\ OwnInv'
  <2>1. ~MustWait(t) /\ qGuard = t /\ qGuard' = NoThread
    BY <1>0, <1>12 DEF DecisionsKept, InsideOwnsGuard, Inside, ReleaseGuard, Threads
  <2>2. Wakes(t) /\ pc'[t] = "ret" /\ OtherTold(t) /\ EventsTypeOK'
    BY <1>0, <1>12, SetEventTells DEF PCs
  <2>3. OthersUntold(t) /\ Accounted(t)' /\ Told(t)' = "ok"
    BY <1>0, <1>12, <2>2 DEF OthersUntold, Accounted, Told, PendingDuringCall, MonitorTypeOK
  <2>4. MonitorStep
    BY <1>0, <1>12, <2>1, <2>2, <2>3 DEF MonitorStep, MoveStep
  <2>5. OwnInv'
    BY <1>0, <1>1, <1>12, <2>2 DEF Cancel!CancelTypeOK, Cancel!Callers, Callers
  <2> QED BY <2>4, <2>5
<1>13. ASSUME NEW c \in Consumers, Cancel!QueueGet(c) PROVE MonitorStep /\ OwnInv'
  <2>1. c \in Callers /\ MustWait(c) = QueueEmpty /\ EventFor(c) = "qNf"
    BY DEF MustWait, EventFor, Callers
  <2>2. CASE Cancel!GetRemove(c)
    BY <1>12, <2>1, <2>2 DEF Cancel!GetRemove, closeVars
  <2> QED BY <1>6, <1>13, <2>1, <2>2 DEF Cancel!QueueGet
<1>14. ASSUME NEW p \in Producers, Cancel!QueuePut(p) PROVE MonitorStep /\ OwnInv'
  <2>1. p \in Callers /\ p \notin Consumers /\ MustWait(p) = QueueFull /\ EventFor(p) = "qNe"
    BY DEF MustWait, EventFor, Callers
  <2>2. ASSUME NEW m \in Msg, Cancel!PutInsert(p, m) PROVE MonitorStep /\ OwnInv'
    BY <1>12, <2>1, <2>2 DEF Cancel!PutInsert, closeVars
  <2> QED BY <1>6, <1>14, <2>1, <2>2 DEF Cancel!QueuePut
<1> QED BY <1>4, <1>5, <1>7, <1>8, <1>9, <1>10, <1>11, <1>13, <1>14
       DEF Cancel!Next, Cancel!Wait, Cancel!Callers, Callers

-----------------------------------------------------------------------------
(* All the versions. *)

(***************************************************************************)
(* In the initial state nobody is inside and nothing belongs to a version. *)
(***************************************************************************)
LEMMA InitIInv == Init => IInv
<1> SUFFICES ASSUME Init PROVE MonitorInv /\ OwnInv
  BY PartsOfIInv
<1> USE ThreadsAssumption, SizeAssumption, VersionsAssumption DEF Init, QueueInitialize
<1>1. MonitorTypeOK
  <2>1. 0 \in Slots /\ msgArray \in [Slots -> Msg \cup {NoMsg}]
    BY DEF Slots
  <2>2. pc \in [Threads -> PCs] /\ status \in [Callers -> Statuses]
    BY DEF PCs, Statuses
  <2>3. rcvd \in [Consumers -> Msg \cup {NoMsg}]
    OBVIOUS
  <2> QED BY <2>1, <2>2, <2>3 DEF MonitorTypeOK
<1>2. moved \subseteq Callers /\ InsideOwnsGuard /\ DecisionsKept /\ PendingDuringCall
  BY DEF InsideOwnsGuard, DecisionsKept, PendingDuringCall, Inside, Threads, Callers
<1>3. EventsTypeOK /\ late \subseteq Callers /\ OwnVariables /\ WaitsInTime /\ NoLostWakeup
  BY DEF EventsTypeOK, OwnVariables, WaitsInTime, NoLostWakeup, Broadcast!NoLostWakeup, Threads,
     Callers
<1>4. Poll!WaitTimeOK
  BY DEF Poll!WaitTimeOK, Poll!Callers, Callers
<1>5. Cancel!CancelTypeOK
  <2>1. apc \in [Callers -> 0 .. 3]
    OBVIOUS
  <2> QED BY <2>1 DEF Cancel!CancelTypeOK, Cancel!Callers, Callers
<1> QED BY <1>1, <1>2, <1>3, <1>4, <1>5 DEF MonitorInv, OwnInv

(***************************************************************************)
(* A step of any version is a step of the monitor.                         *)
(***************************************************************************)
LEMMA NextIsMonitorStep ==
  ASSUME IInv, Next PROVE MonitorStep /\ MonitorInv' /\ OwnInv'
<1>1. MonitorInv /\ OwnInv /\ version' = version
  BY PartsOfIInv DEF Next
<1>2. MonitorStep /\ OwnInv'
  BY <1>1, BroadcastStep, SigStep, CSSigStep, ShortWaitsStep, PollStep, CVStep, PthreadsStep,
     CancelStep DEF Next, VersionNext, frame
<1> QED BY <1>1, <1>2, MonitorStepInv

(***************************************************************************)
(* The invariant is inductive.                                             *)
(***************************************************************************)
LEMMA NextIInv == IInv /\ [Next]_vars => IInv'
<1>1. ASSUME IInv, Next PROVE IInv'
  BY <1>1, NextIsMonitorStep DEF MonitorInv, OwnInv, IInv, TypeOK
<1>2. ASSUME IInv, UNCHANGED vars PROVE IInv'
  BY <1>2 DEF vars, queueVars, cancelVars, IInv, TypeOK, MonitorTypeOK, EventsTypeOK,
     Poll!WaitTimeOK, Cancel!CancelTypeOK, InsideOwnsGuard, DecisionsKept, PendingDuringCall,
     OwnVariables, WaitsInTime, NoLostWakeup, Broadcast!NoLostWakeup, Broadcast!QueueEmpty,
     Broadcast!QueueFull, Broadcast!DWordMinus, MustWait, QueueEmpty, QueueFull, OutOfTime,
     Poll!TimedOut
<1> QED BY <1>1, <1>2

(***************************************************************************)
(* The inductive invariant holds in every version.                         *)
(***************************************************************************)
THEOREM Invariance == Spec => []IInv
BY InitIInv, NextIInv, PTL DEF Spec

(***************************************************************************)
(* The variables of every version keep their types.                        *)
(***************************************************************************)
THEOREM TypesKept == Spec => []TypeOK
<1>1. IInv => TypeOK
  BY DEF IInv
<1> QED BY <1>1, Invariance, PTL

(***************************************************************************)
(* What a loop of QueueGet or QueuePut found out about the ring still      *)
(* holds when the thread acts on it, in all eight versions, for every      *)
(* number of threads and every size of the queue.                          *)
(***************************************************************************)
THEOREM DecisionsAreTimely == Spec => []TimelyDecisionsHold
<1>1. IInv => TimelyDecisionsHold
  BY ThreadsAssumption
     DEF IInv, DecisionsKept, TimelyDecisionsHold, DecisionsHoldFor, MustWait, Callers
<1> QED BY <1>1, Invariance, PTL

(***************************************************************************)
(* PulseEvent and pthread_cond_broadcast leave nobody asleep for whom      *)
(* something has come.                                                     *)
(***************************************************************************)
THEOREM NoWakeupIsLost == Spec => []NoLostWakeup
<1>1. IInv => NoLostWakeup
  BY DEF IInv
<1> QED BY <1>1, Invariance, PTL

-----------------------------------------------------------------------------
(* One thread woken per change. *)

\* What there is for the threads of S to take.
Work(S) == IF S = Consumers THEN Count ELSE QSize - 1 - Count

\* As long as one thread of S sleeps, there is one awake for each piece of it.
Covered(S) == Waiting(S) # {} => Work(S) <= Cardinality(Arriving(S))

\* The versions that wake one thread, until the queue is destroyed or a
\* cancellation takes effect.
OneWoken == version \in SignalVersions /\ ~destroyed /\ ~shutDownGet /\ ~ShutDownPut

SignalsKept == OneWoken => Covered(Consumers) /\ Covered(Producers)

(***************************************************************************)
(* If R is a part of the threads of S that will be awake, these are not    *)
(* fewer.                                                                  *)
(***************************************************************************)
LEMMA MoreArriving ==
  ASSUME NEW S, IsFiniteSet(S), NEW R \in SUBSET S, R \subseteq Arriving(S)'
  PROVE  Cardinality(R) <= Cardinality(Arriving(S)') /\ Cardinality(R) \in Nat
         /\ Cardinality(Arriving(S)') \in Nat
<1>1. Arriving(S)' \in SUBSET S
  BY DEF Arriving
<1>2. IsFiniteSet(Arriving(S)')
  BY <1>1, FS_Subset
<1> QED BY <1>2, FS_Subset, FS_CardinalityType

(***************************************************************************)
(* Each step keeps the balance between the work and the threads awake.     *)
(***************************************************************************)
LEMMA QuietStepCovers ==
  ASSUME IsFiniteSet(Callers), MonitorInv, MonitorInv', NEW t \in Threads, QuietStep(t),
         OneWoken, OneWoken', NEW S \in {Consumers, Producers}, Covered(S)
  PROVE  Covered(S)'
<1> USE ThreadsAssumption DEF MonitorInv, MonitorTypeOK, QuietStep, Wakes
<1>1. S \subseteq Callers /\ IsFiniteSet(S) /\ S \subseteq Threads
  BY FS_Subset DEF Callers, Threads
<1>2. Count' = Count /\ Work(S)' = Work(S) /\ Count \in 0 .. QSize - 1 /\ QSize \in Nat \ {0}
  BY CountBounds, SizeAssumption DEF Count, Work, ringVars
<1>3. CASE t \in S /\ MustWait(t)
  <2>1. Work(S)' = 0
    BY <1>2, <1>3, CountBounds DEF MustWait, Work
  <2>2. Cardinality(Arriving(S)') >= 0
    BY <1>1, FS_EmptySet, MoreArriving
  <2> QED BY <2>1, <2>2 DEF Covered
<1>4. CASE t \notin S \/ ~MustWait(t)
  <2>1. Arriving(S) \subseteq Arriving(S)' /\ Waiting(S)' \subseteq Waiting(S)
    BY <1>1, <1>4 DEF Arriving, Waiting, Awake, NoSignalWasted, OneWoken
  <2>2. Arriving(S) \in SUBSET S
    BY DEF Arriving
  <2>3. Cardinality(Arriving(S)) <= Cardinality(Arriving(S)')
        /\ Cardinality(Arriving(S)) \in Nat /\ Cardinality(Arriving(S)') \in Nat
    BY <1>1, <2>1, <2>2, MoreArriving
  <2>4. Work(S) \in Int
    BY <1>2 DEF Work
  <2> QED BY <1>2, <2>1, <2>3, <2>4 DEF Covered
<1> QED BY <1>3, <1>4

(***************************************************************************)
(* A message moved takes one thread and one piece of work off its own      *)
(* side, and gives the other side one piece of work and wakes one thread   *)
(* for it.                                                                 *)
(***************************************************************************)
LEMMA MoveStepCovers ==
  ASSUME IsFiniteSet(Callers), MonitorInv, MonitorInv', NEW t \in Callers, MoveStep(t),
         OneWoken, NEW S \in {Consumers, Producers}, Covered(S)
  PROVE  Covered(S)'
<1> USE ThreadsAssumption DEF MonitorInv, MonitorTypeOK, MoveStep, Wakes
<1>1. S \subseteq Callers /\ IsFiniteSet(S) /\ S \subseteq Threads
  BY FS_Subset DEF Callers, Threads
<1>2. Count \in 0 .. QSize - 1 /\ QSize \in Nat \ {0}
  BY CountBounds, SizeAssumption
<1>3. Consumers # Producers
  BY DEF Callers
<1>4. Work(S) \in Int /\ Work(S)' = IF t \in S THEN Work(S) - 1 ELSE Work(S) + 1
  <2>1. CASE t \in Consumers
    <3>1. Count' = Count - 1
      BY <2>1, RemoveCounts DEF MustWait
    <3> QED BY <1>2, <1>3, <2>1, <3>1 DEF Work, Callers
  <2>2. CASE t \in Producers
    <3>1. Count' = Count + 1
      BY <2>2, InsertCounts DEF MustWait
    <3> QED BY <1>2, <1>3, <2>2, <3>1 DEF Work, Callers
  <2> QED BY <2>1, <2>2 DEF Callers
<1>5. Arriving(S) \in SUBSET S /\ IsFiniteSet(Arriving(S))
  BY <1>1, FS_Subset DEF Arriving
<1>6. CASE t \in S
  <2>1. Arriving(S) \ {t} \subseteq Arriving(S)' /\ Waiting(S)' \subseteq Waiting(S)
    BY <1>1, <1>6 DEF Arriving, Waiting
  <2>2. Cardinality(Arriving(S) \ {t}) = Cardinality(Arriving(S)) - 1
    <3>1. t \in Arriving(S)
      BY <1>6 DEF Arriving
    <3> QED BY <1>5, <3>1, FS_RemoveElement
  <2>3. Cardinality(Arriving(S) \ {t}) <= Cardinality(Arriving(S)')
        /\ Cardinality(Arriving(S)') \in Nat
    BY <1>1, <1>5, <2>1, MoreArriving
  <2>4. Cardinality(Arriving(S)) \in Nat
    BY <1>5, FS_CardinalityType
  <2> QED BY <1>4, <1>6, <2>1, <2>2, <2>3, <2>4 DEF Covered
<1>7. CASE t \notin S /\ Waiting(S) # {}
  <2>1. S = Other(t)
    BY <1>7 DEF Other, Callers
  <2>2. PICK w \in Waiting(S) : pc'[w] = "again"
    BY <1>7, <2>1 DEF OtherTold, OneWoken
  <2>3. w \in S /\ w \notin Arriving(S) /\ w \in Arriving(S)'
    BY <2>2 DEF Waiting, Arriving
  <2>4. Arriving(S) \cup {w} \subseteq Arriving(S)' /\ Arriving(S) \cup {w} \in SUBSET S
    BY <1>1, <1>5, <1>7, <2>3 DEF Arriving
  <2>5. Cardinality(Arriving(S) \cup {w}) = Cardinality(Arriving(S)) + 1
    BY <1>5, <2>3, FS_AddElement
  <2>6. Cardinality(Arriving(S) \cup {w}) <= Cardinality(Arriving(S)')
        /\ Cardinality(Arriving(S)') \in Nat
    BY <1>1, <2>4, MoreArriving
  <2>7. Cardinality(Arriving(S)) \in Nat
    BY <1>5, FS_CardinalityType
  <2> QED BY <1>4, <1>7, <2>5, <2>6, <2>7 DEF Covered
<1>8. CASE t \notin S /\ Waiting(S) = {}
  <2>1. Waiting(S)' = {}
    BY <1>1, <1>8, ThreadsAssumption DEF Waiting, Threads, Callers
  <2> QED BY <2>1 DEF Covered
<1> QED BY <1>6, <1>7, <1>8

(***************************************************************************)
(* Neither the end of the queue nor a cancellation is taken back.          *)
(***************************************************************************)
LEMMA OneWokenBefore ==
  ASSUME IInv, Next, OneWoken' PROVE OneWoken
<1>1. MonitorStep /\ version' = version /\ Cancel!CancelTypeOK
  BY NextIsMonitorStep DEF Next, IInv, TypeOK
<1>2. ~destroyed
  BY <1>1 DEF MonitorStep, QuietStep, MoveStep, EndStep, closeVars, OneWoken
<1>3. CASE version = "QueueObjCancel"
  <2>1. Cancel!Next
    BY <1>3 DEF Next, VersionNext
  <2>2. ~shutDownGet /\ ~ShutDownPut
    BY <1>1, <2>1 DEF OneWoken, Cancel!CancelTypeOK, Cancel!Next, Cancel!CallCancel,
       Cancel!EnterCancel, Cancel!Wait, Cancel!AlertableWait, Cancel!QueueShutDown,
       Cancel!ReacquireCancel, Cancel!GiveUp, Cancel!Report, Cancel!QueueUserAPC, Cancel!QueueGet,
       Cancel!QueuePut, Cancel!LoopTest, Cancel!GetRemove, Cancel!PutInsert, Cancel!cancelVars
  <2> QED BY <1>1, <1>2, <2>2 DEF OneWoken
<1>4. CASE version # "QueueObjCancel"
  BY <1>1, <1>2, <1>4 DEF OneWoken, IInv, OwnVariables
<1> QED BY <1>3, <1>4

(***************************************************************************)
(* Together they keep the balance on both sides.                           *)
(***************************************************************************)
LEMMA NextCovers ==
  ASSUME IsFiniteSet(Callers), IInv, Next, SignalsKept PROVE SignalsKept'
<1> SUFFICES ASSUME OneWoken' PROVE Covered(Consumers)' /\ Covered(Producers)'
  BY DEF SignalsKept
<1>1. OneWoken /\ MonitorInv /\ MonitorInv' /\ MonitorStep
  BY OneWokenBefore, NextIsMonitorStep, PartsOfIInv
<1>2. Covered(Consumers) /\ Covered(Producers)
  BY <1>1 DEF SignalsKept
<1>3. ASSUME NEW t \in Threads, QuietStep(t)
      PROVE  Covered(Consumers)' /\ Covered(Producers)'
  BY <1>1, <1>2, <1>3, QuietStepCovers
<1>4. ASSUME NEW t \in Callers, MoveStep(t)
      PROVE  Covered(Consumers)' /\ Covered(Producers)'
  BY <1>1, <1>2, <1>4, MoveStepCovers
<1>5. ~EndStep
  BY DEF EndStep, OneWoken
<1> QED BY <1>1, <1>3, <1>4, <1>5 DEF MonitorStep

(***************************************************************************)
(* With one thread woken per change, nobody sleeps while there is more to  *)
(* take than there are threads awake to take it.  The threads of a process *)
(* are finitely many.                                                      *)
(***************************************************************************)
THEOREM NoSignalIsLost ==
  ASSUME IsFiniteSet(Callers) PROVE Spec => []NoSignalLost
<1>1. Init => SignalsKept
  BY ThreadsAssumption
     DEF Init, QueueInitialize, SignalsKept, Covered, Waiting, Threads, Callers
<1>2. IInv /\ SignalsKept /\ [Next]_vars => SignalsKept'
  <2>1. ASSUME SignalsKept, UNCHANGED vars PROVE SignalsKept'
    BY <2>1 DEF vars, queueVars, cancelVars, SignalsKept, OneWoken, Covered, Waiting, Arriving,
       Work, Count
  <2> QED BY <2>1, NextCovers
<1>3. SignalsKept => NoSignalLost
  <2> SUFFICES ASSUME SignalsKept, OneWoken PROVE NoLostSignal
    BY DEF NoSignalLost, OneWoken, SignalVersions, NoLostSignal
  <2>1. Covered(Consumers) /\ Covered(Producers)
    BY DEF SignalsKept
  <2>2. Consumers # Producers \/ Producers = {}
    BY ThreadsAssumption
  <2> QED BY <2>1, <2>2 DEF NoLostSignal, Covered, Work, Waiting
<1> QED BY <1>1, <1>2, <1>3, Invariance, PTL DEF Spec

-----------------------------------------------------------------------------
(* The promise. *)

\* What BoundedFIFO calls status.
told == [t \in Callers |-> Told(t)]

(***************************************************************************)
(* A step of t changes what the promise sees of the calls at t only.       *)
(***************************************************************************)
LEMMA ToldChanges ==
  ASSUME NEW t \in Callers, OthersUntold(t) PROVE told' = [told EXCEPT ![t] = Told(t)']
<1>1. \A u \in Callers \ {t} : Told(u)' = Told(u)
  BY DEF OthersUntold, Told
<1> QED BY <1>1 DEF told

(***************************************************************************)
(* A step that changes neither the ring nor the results is not seen at     *)
(* all.                                                                    *)
(***************************************************************************)
LEMMA Unnoticed ==
  ASSUME UNCHANGED <<qFirst, qLast, msgArray, rcvd, told>> PROVE UNCHANGED Promise!vars
BY ContentsFramed DEF Promise!vars, told, Told

(***************************************************************************)
(* The actions of the promise, of what the calls have done.                *)
(***************************************************************************)
LEMMA PromiseKept ==
  ASSUME NEW t \in Callers
  PROVE  /\ told[t] # "pending" /\ told' = [told EXCEPT ![t] = "pending"]
            /\ UNCHANGED <<Contents, rcvd>>
            => Promise!Next
         /\ told[t] = "pending" /\ UNCHANGED <<Contents, rcvd>>
            /\ (\E f \in {"destroyed", "timeout"} : told' = [told EXCEPT ![t] = f])
            => Promise!Next
         /\ t \in Consumers /\ told[t] = "pending" /\ Contents # <<>>
            /\ rcvd' = [rcvd EXCEPT ![t] = Head(Contents)] /\ Contents' = Tail(Contents)
            => /\ told' = [told EXCEPT ![t] = "ok"] => Promise!Next
               /\ told' = [told EXCEPT ![t] = "timeout"] => Promise!TimedNext
         /\ \A m \in Msg :
            t \in Producers /\ told[t] = "pending" /\ Len(Contents) < QSize - 1
            /\ Contents' = Append(Contents, m) /\ UNCHANGED rcvd
            => /\ told' = [told EXCEPT ![t] = "ok"] => Promise!Next
               /\ told' = [told EXCEPT ![t] = "timeout"] => Promise!TimedNext
<1>1. t \in Promise!Callers
  BY DEF Promise!Callers, Callers
<1>2. ASSUME told[t] # "pending", told' = [told EXCEPT ![t] = "pending"],
             UNCHANGED <<Contents, rcvd>>
      PROVE  Promise!Next
  <2>1. Promise!Call(t)
    BY <1>2 DEF Promise!Call, told, Told
  <2> QED BY <1>1, <2>1 DEF Promise!Next
<1>3. ASSUME told[t] = "pending", UNCHANGED <<Contents, rcvd>>,
             \E f \in {"destroyed", "timeout"} : told' = [told EXCEPT ![t] = f]
      PROVE  Promise!Next
  <2>1. Promise!Fail(t)
    BY <1>3 DEF Promise!Fail, told, Told
  <2> QED BY <1>1, <2>1 DEF Promise!Next
<1>4. ASSUME t \in Consumers, told[t] = "pending", Contents # <<>>,
             rcvd' = [rcvd EXCEPT ![t] = Head(Contents)], Contents' = Tail(Contents)
      PROVE  /\ told' = [told EXCEPT ![t] = "ok"] => Promise!Next
             /\ told' = [told EXCEPT ![t] = "timeout"] => Promise!TimedNext
  <2>1. told' = [told EXCEPT ![t] = "ok"] => Promise!Get(t)
    BY <1>4 DEF Promise!Get, told, Told
  <2>2. told' = [told EXCEPT ![t] = "timeout"] => Promise!GetLate(t)
    BY <1>4 DEF Promise!GetLate, told, Told
  <2> QED BY <1>4, <2>1, <2>2 DEF Promise!Next, Promise!TimedNext
<1>5. ASSUME NEW m \in Msg, t \in Producers, told[t] = "pending", Len(Contents) < QSize - 1,
             Contents' = Append(Contents, m), UNCHANGED rcvd
      PROVE  /\ told' = [told EXCEPT ![t] = "ok"] => Promise!Next
             /\ told' = [told EXCEPT ![t] = "timeout"] => Promise!TimedNext
  <2>1. told' = [told EXCEPT ![t] = "ok"] => Promise!Put(t, m)
    BY <1>5 DEF Promise!Put, told, Told
  <2>2. told' = [told EXCEPT ![t] = "timeout"] => Promise!PutLate(t, m)
    BY <1>5 DEF Promise!PutLate, told, Told
  <2> QED BY <1>5, <2>1, <2>2 DEF Promise!Next, Promise!TimedNext
<1> QED BY <1>2, <1>3, <1>4, <1>5

(***************************************************************************)
(* A quiet step starts or fails a call, or is not seen.                    *)
(***************************************************************************)
LEMMA QuietStepRefines ==
  ASSUME MonitorInv, NEW t \in Threads, QuietStep(t) PROVE [Promise!Next]_(Promise!vars)
<1> USE DEF QuietStep
<1>1. UNCHANGED <<qFirst, qLast, msgArray, rcvd>> /\ Contents' = Contents
  BY ContentsFramed DEF ringVars
<1>2. CASE t \notin Callers
  <2>1. \A u \in Callers : Told(u)' = Told(u)
    BY <1>2 DEF OthersUntold, Told
  <2>2. told' = told
    BY <2>1 DEF told
  <2> QED BY <1>1, <2>2, Unnoticed
<1>3. CASE t \in Callers
  <2>1. told' = [told EXCEPT ![t] = Told(t)'] /\ told[t] = Told(t)
    BY <1>3, ToldChanges DEF told
  <2>2. CASE Told(t)' = Told(t)
    <3>1. told' = told
      BY <2>1, <2>2 DEF told
    <3> QED BY <1>1, <3>1, Unnoticed
  <2>3. CASE Told(t) # "pending" /\ Told(t)' = "pending"
    BY <1>1, <1>3, <2>1, <2>3, PromiseKept
  <2>4. CASE Told(t) = "pending" /\ Told(t)' \in {"destroyed", "timeout"}
    BY <1>1, <1>3, <2>1, <2>4, PromiseKept
  <2> QED BY <1>3, <2>2, <2>3, <2>4
<1> QED BY <1>2, <1>3

(***************************************************************************)
(* A thread that moves a message takes the head of the buffer or appends   *)
(* to it; only QueueObjSig_noSOAW may call that a time-out.                *)
(***************************************************************************)
LEMMA MoveStepRefines ==
  ASSUME MonitorInv, MonitorInv', NEW t \in Callers, MoveStep(t)
  PROVE  IF version = "QueueObjSig_noSOAW" THEN Promise!TimedNext ELSE Promise!Next
<1> USE DEF MoveStep
<1>1. told' = [told EXCEPT ![t] = Told(t)'] /\ told[t] = "pending"
  BY ToldChanges DEF told, Told, MonitorInv, PendingDuringCall
<1>2. MonitorTypeOK /\ MonitorTypeOK'
  BY DEF MonitorInv
<1>3. ASSUME told' = [told EXCEPT ![t] = "ok"] => Promise!Next,
             told' = [told EXCEPT ![t] = "timeout"] => Promise!TimedNext
      PROVE  IF version = "QueueObjSig_noSOAW" THEN Promise!TimedNext ELSE Promise!Next
  BY <1>1, <1>3 DEF Promise!TimedNext
<1>4. CASE t \in Consumers
  <2>1. QueueRemove(t) /\ ~QueueEmpty
    BY <1>4 DEF MustWait
  <2>2. /\ Contents # <<>> /\ rcvd' = [rcvd EXCEPT ![t] = Head(Contents)]
        /\ Contents' = Tail(Contents)
    BY <1>2, <1>4, <2>1, RemoveTakesHead
  <2> QED BY <1>1, <1>3, <1>4, <2>2, PromiseKept
<1>5. CASE t \notin Consumers
  <2>1. PICK m \in Msg : QueueInsert(m)
    BY <1>5
  <2>2. t \in Producers /\ ~QueueFull /\ UNCHANGED rcvd
    BY <1>5, <2>1 DEF MustWait, Callers, QueueInsert, ringVars
  <2>3. Len(Contents) < QSize - 1 /\ Contents' = Append(Contents, m)
    BY <1>2, <2>1, <2>2, InsertAppends
  <2> QED BY <1>1, <1>3, <2>2, <2>3, PromiseKept
<1> QED BY <1>4, <1>5

(***************************************************************************)
(* Each step of each version is a step of the promise, or is not seen.     *)
(***************************************************************************)
LEMMA NextRefines ==
  ASSUME IInv, [Next]_vars
  PROVE  [IF version = "QueueObjSig_noSOAW" THEN Promise!TimedNext ELSE Promise!Next]_(Promise!vars)
<1>1. CASE UNCHANGED vars
  BY <1>1, Unnoticed DEF vars, queueVars, cancelVars, told, Told
<1>2. CASE Next
  <2>1. MonitorInv /\ MonitorInv' /\ MonitorStep
    BY <1>2, NextIsMonitorStep, PartsOfIInv
  <2>2. ASSUME NEW t \in Threads, QuietStep(t)
        PROVE  [IF version = "QueueObjSig_noSOAW" THEN Promise!TimedNext
                ELSE Promise!Next]_(Promise!vars)
    BY <2>1, <2>2, QuietStepRefines DEF Promise!TimedNext
  <2>3. CASE EndStep
    BY <2>3, Unnoticed DEF EndStep, ringVars, told, Told
  <2> QED BY <2>1, <2>2, <2>3, MoveStepRefines DEF MonitorStep
<1> QED BY <1>1, <1>2

(***************************************************************************)
(* Every version implements the bounded first-in first-out buffer:         *)
(* messages leave in the order they came, none is lost or delivered twice, *)
(* and a call that returns 0 has moved one, for every number of threads    *)
(* and every size of the queue.                                            *)
(***************************************************************************)
THEOREM Refinement == Spec => ImplementsFIFO
<1>1. Init => Promise!Init
  <2> SUFFICES ASSUME Init PROVE Promise!Init
    OBVIOUS
  <2>1. Count = 0
    BY DEF Init, QueueInitialize, Count
  <2>2. Contents = <<>>
    BY <2>1 DEF Contents
  <2> QED BY <2>2 DEF Init, QueueInitialize, Promise!Init, Promise!Callers, Callers
<1> QED BY <1>1, NextRefines, Invariance, PTL DEF Spec, ImplementsFIFO

-----------------------------------------------------------------------------
(***************************************************************************)
(* QueueObj.c by itself.  Where the theorems above are about any of the    *)
(* versions, with the variables of all of them, these are about the module *)
(* QueueObj alone; the argument is short enough to be read on its own.     *)
(***************************************************************************)

(***************************************************************************)
(* A thread inside owns the guard while the queue exists.                  *)
(***************************************************************************)
ObjInsideOwnsGuard ==
  ~destroyed => \A t \in Threads : pc[t] \in Inside => qGuard = t

(***************************************************************************)
(* The guard's handle is closed only after msgArray has been freed.        *)
(***************************************************************************)
ClosedAfterDestroyed ==
  ~destroyed => guardOpen /\ \A d \in Destroyers : pc[d] # "closing"

(***************************************************************************)
(* A call is pending while its caller is inside the queue functions.       *)
(***************************************************************************)
ObjPending ==
  \A t \in Callers :
    pc[t] # "crashed" => (status[t] = "pending" <=> pc[t] # "out")

(***************************************************************************)
(* The inductive invariant.  NoLostWakeup alone is not inductive: that a   *)
(* thread goes to sleep for a reason needs DecisionsHold, and that no      *)
(* decision goes stale needs the guard to have one owner, which holds      *)
(* until QueueDestroy closes it.                                           *)
(***************************************************************************)
ObjInv == /\ MonitorTypeOK
          /\ ObjInsideOwnsGuard
          /\ ClosedAfterDestroyed
          /\ ObjPending
          /\ DecisionsHold
          /\ Broadcast!NoLostWakeup

LEMMA BroadcastInit == Broadcast!Init <=> QueueInitialize
BY DEF Broadcast!Init, Broadcast!QueueInitialize, QueueInitialize, Broadcast!Slots, Slots,
       Broadcast!Callers, Broadcast!Threads, Callers, Threads

-----------------------------------------------------------------------------
(* Initially. *)

LEMMA InitObjInv == Broadcast!Init => ObjInv
<1> SUFFICES ASSUME Broadcast!Init PROVE ObjInv
  OBVIOUS
<1> USE BroadcastInit DEF QueueInitialize
<1>1. MonitorTypeOK
  <2>1. 0 \in Slots
    BY SizeAssumption DEF Slots
  <2> QED
    BY <2>1, ThreadsAssumption
       DEF MonitorTypeOK, PCs, Statuses, Threads, Callers
<1>2. ObjInsideOwnsGuard
  BY DEF ObjInsideOwnsGuard, Inside
<1>3. ClosedAfterDestroyed
  BY DEF ClosedAfterDestroyed, Threads
<1>6. ObjPending
  BY DEF ObjPending, Threads, Callers
<1>4. DecisionsHold
  BY DEF DecisionsHold, DecisionsHoldFor, Threads, Callers
<1>5. Broadcast!NoLostWakeup
  BY DEF Broadcast!NoLostWakeup, Threads, Callers
<1> QED
  BY <1>1, <1>2, <1>3, <1>4, <1>5, <1>6 DEF ObjInv

-----------------------------------------------------------------------------
(* Every step preserves the invariant. *)

(***************************************************************************)
(* The steps that leave the ring alone and wake no one.                    *)
(***************************************************************************)
LEMMA CommonStepObjInv == ASSUME ObjInv, CommonStep PROVE ObjInv'
<1> USE BroadcastIsMonitor
    DEF Broadcast!Callers, Broadcast!Threads, Broadcast!Goto, Broadcast!Waiting,
        Broadcast!ringVars, Broadcast!closeVars, ObjInv, MonitorTypeOK, ObjInsideOwnsGuard,
        Inside, ClosedAfterDestroyed, ObjPending, DecisionsHold, DecisionsHoldFor,
        Broadcast!NoLostWakeup, QueueEmpty, QueueFull, Threads, Callers, ringVars, closeVars,
        Goto, PCs, Statuses
<1>1. ASSUME NEW t \in Callers, Call(t) PROVE ObjInv'
  BY <1>1, ThreadsAssumption DEF Call
<1>2. ASSUME NEW t \in Callers, Enter(t) PROVE ObjInv'
  BY <1>2, ThreadsAssumption DEF Enter, AcquireGuard
<1>3. ASSUME NEW t \in Callers, Reacquire(t) PROVE ObjInv'
  BY <1>3, ThreadsAssumption DEF Reacquire, AcquireGuard
<1>4. ASSUME NEW t \in Callers, ResumeDestroyed(t) PROVE ObjInv'
  BY <1>4, ThreadsAssumption DEF ResumeDestroyed
<1>5. ASSUME NEW d \in Destroyers, CallDestroy(d) PROVE ObjInv'
  BY <1>5, ThreadsAssumption DEF CallDestroy
<1>6. ASSUME NEW d \in Destroyers, QueueDestroy(d) PROVE ObjInv'
  BY <1>6, ThreadsAssumption DEF QueueDestroy
<1>7. ASSUME NEW d \in Destroyers, CloseGuard(d) PROVE ObjInv'
  BY <1>7, ThreadsAssumption DEF CloseGuard
<1> QED
  BY <1>1, <1>2, <1>3, <1>4, <1>5, <1>6, <1>7 DEF CommonStep, CallerStep, Destroyer

(***************************************************************************)
(* Broadcast!QueueGet.                                                               *)
(***************************************************************************)
LEMMA QueueGetObjInv ==
  ASSUME ObjInv, NEW c \in Consumers, Broadcast!QueueGet(c) PROVE ObjInv'
<1> USE BroadcastIsMonitor
    DEF Broadcast!Callers, Broadcast!Threads, Broadcast!Goto, Broadcast!Waiting,
        Broadcast!ringVars, Broadcast!closeVars, ObjInv, MonitorTypeOK, ObjInsideOwnsGuard,
        Inside, ClosedAfterDestroyed, ObjPending, DecisionsHold, DecisionsHoldFor,
        Broadcast!NoLostWakeup, Threads, Callers, ringVars, closeVars, Goto, PCs, Statuses
<1>1. CASE Broadcast!GetTest(c)
  BY <1>1, ThreadsAssumption DEF Broadcast!GetTest, Test, QueueEmpty, QueueFull
<1>2. CASE Broadcast!GetWait(c)
  BY <1>2, ThreadsAssumption DEF Broadcast!GetWait, ReleaseGuard, QueueEmpty, QueueFull
<1>3. CASE Broadcast!GetRemove(c)
  <2>1. /\ pc[c] = "act" /\ ~destroyed /\ ~QueueEmpty /\ QueueRemove(c)
        /\ pc' = Broadcast!Pulsed(c, Producers)
        /\ qGuard = c /\ qGuard' = NoThread
        /\ status' = [status EXCEPT ![c] = "ok"]
        /\ UNCHANGED <<destroyed, guardOpen>>
    BY <1>3 DEF Broadcast!GetRemove, ReleaseGuard
  <2>2. /\ qFirst' \in Slots /\ rcvd' \in [Consumers -> Msg \cup {NoMsg}]
        /\ UNCHANGED <<qLast, msgArray>>
        /\ ~QueueFull'
    BY <2>1, RemoveMakesRoom
  <2>3. \A t \in Threads :
          pc'[t] = IF t = c THEN "out"
                   ELSE IF t \in Producers /\ pc[t] = "wait"
                        THEN "again" ELSE pc[t]
    BY <2>1 DEF Broadcast!Pulsed, Waiting
  <2>4. MonitorTypeOK'
    BY <2>1, <2>2 DEF Broadcast!Pulsed
  <2>5. ObjInsideOwnsGuard' /\ ClosedAfterDestroyed' /\ ObjPending'
    BY <2>1, <2>3, ThreadsAssumption
  <2>6. \A t \in Threads : pc'[t] \notin {"sleep", "act"}
    BY <2>1, <2>3
  <2>7. DecisionsHold'
    BY <2>6
  <2>8. \A t \in Consumers : pc[t] # "wait"
    BY <2>1
  <2>9. Broadcast!NoLostWakeup'
    BY <2>3, <2>8, ThreadsAssumption
  <2> QED
    BY <2>4, <2>5, <2>7, <2>9
<1> QED
  BY <1>1, <1>2, <1>3 DEF Broadcast!QueueGet

(***************************************************************************)
(* Broadcast!QueuePut.                                                               *)
(***************************************************************************)
LEMMA QueuePutObjInv ==
  ASSUME ObjInv, NEW p \in Producers, Broadcast!QueuePut(p) PROVE ObjInv'
<1> USE BroadcastIsMonitor
    DEF Broadcast!Callers, Broadcast!Threads, Broadcast!Goto, Broadcast!Waiting,
        Broadcast!ringVars, Broadcast!closeVars, ObjInv, MonitorTypeOK, ObjInsideOwnsGuard,
        Inside, ClosedAfterDestroyed, ObjPending, DecisionsHold, DecisionsHoldFor,
        Broadcast!NoLostWakeup, Threads, Callers, ringVars, closeVars, Goto, PCs, Statuses
<1>1. CASE Broadcast!PutTest(p)
  <2>1. Test(p, QueueFull)
    BY <1>1 DEF Broadcast!PutTest, Broadcast!Test, Test
  <2> QED
    BY <2>1, ThreadsAssumption, SMTT(30) DEF Test, QueueEmpty, QueueFull
<1>2. CASE Broadcast!PutWait(p)
  BY <1>2, ThreadsAssumption DEF Broadcast!PutWait, ReleaseGuard, QueueEmpty, QueueFull
<1>3. ASSUME NEW m \in Msg, Broadcast!PutInsert(p, m) PROVE ObjInv'
  <2>1. /\ pc[p] = "act" /\ ~destroyed /\ ~QueueFull /\ QueueInsert(m)
        /\ pc' = Broadcast!Pulsed(p, Consumers)
        /\ qGuard = p /\ qGuard' = NoThread
        /\ status' = [status EXCEPT ![p] = "ok"]
        /\ UNCHANGED <<destroyed, guardOpen>>
    BY <1>3 DEF Broadcast!PutInsert, ReleaseGuard
  <2>2. /\ qLast' \in Slots /\ msgArray' \in [Slots -> Msg \cup {NoMsg}]
        /\ UNCHANGED <<qFirst, rcvd>>
        /\ ~QueueEmpty'
    BY <2>1, InsertMakesMessage
  <2>3. \A t \in Threads :
          pc'[t] = IF t = p THEN "out"
                   ELSE IF t \in Consumers /\ pc[t] = "wait"
                        THEN "again" ELSE pc[t]
    BY <2>1 DEF Broadcast!Pulsed, Waiting
  <2>4. MonitorTypeOK'
    BY <2>1, <2>2 DEF Broadcast!Pulsed
  <2>5. ObjInsideOwnsGuard' /\ ClosedAfterDestroyed' /\ ObjPending'
    BY <2>1, <2>3, ThreadsAssumption
  <2>6. \A t \in Threads : pc'[t] \notin {"sleep", "act"}
    BY <2>1, <2>3
  <2>7. DecisionsHold'
    BY <2>6
  <2>8. \A t \in Producers : pc[t] # "wait"
    BY <2>1
  <2>9. Broadcast!NoLostWakeup'
    BY <2>3, <2>8, ThreadsAssumption
  <2> QED
    BY <2>4, <2>5, <2>7, <2>9
<1> QED
  BY <1>1, <1>2, <1>3 DEF Broadcast!QueuePut

LEMMA NextObjInv == ObjInv /\ [Broadcast!Next]_(Broadcast!vars) => ObjInv'
<1> SUFFICES ASSUME ObjInv, [Broadcast!Next]_(Broadcast!vars) PROVE ObjInv'
  OBVIOUS
<1>1. CASE CommonStep
  BY <1>1, CommonStepObjInv
<1>2. ASSUME NEW c \in Consumers, Broadcast!QueueGet(c) PROVE ObjInv'
  BY <1>2, QueueGetObjInv
<1>3. ASSUME NEW p \in Producers, Broadcast!QueuePut(p) PROVE ObjInv'
  BY <1>3, QueuePutObjInv
<1>4. CASE UNCHANGED Broadcast!vars
  BY <1>4, BroadcastIsMonitor
     DEF ObjInv, MonitorTypeOK, ObjInsideOwnsGuard, ClosedAfterDestroyed, ObjPending,
         DecisionsHold, DecisionsHoldFor, Broadcast!NoLostWakeup, QueueEmpty, QueueFull,
         Broadcast!vars, Broadcast!queueVars
<1> QED
  BY <1>1, <1>2, <1>3, <1>4, BroadcastIsMonitor DEF Broadcast!Next

(***************************************************************************)
(* The invariant holds throughout.                                         *)
(***************************************************************************)
THEOREM ObjInvariance == Broadcast!Spec => []ObjInv
<1> QED
  BY InitObjInv, NextObjInv, PTL DEF Broadcast!Spec

(***************************************************************************)
(* Every variable keeps its type; in particular an index is always a slot. *)
(***************************************************************************)
THEOREM TypeCorrect == Broadcast!Spec => []MonitorTypeOK
<1>1. ObjInv => MonitorTypeOK
  BY DEF ObjInv
<1> QED
  BY <1>1, ObjInvariance, PTL

(***************************************************************************)
(* What a caller of Broadcast!QueueGet or Broadcast!QueuePut decided under the guard still     *)
(* holds when it acts on it.                                               *)
(***************************************************************************)
THEOREM DecisionsNeverStale == Broadcast!Spec => []DecisionsHold
<1>1. ObjInv => DecisionsHold
  BY DEF ObjInv
<1> QED
  BY <1>1, ObjInvariance, PTL

(***************************************************************************)
(* A thread asleep in Broadcast!QueueGet means an empty queue and one asleep in      *)
(* Broadcast!QueuePut a full one, whatever the number of threads and slots: the      *)
(* broadcast model of QueueObj.c loses no wake-up.                         *)
(***************************************************************************)
THEOREM WakeupsNeverLost == Broadcast!Spec => []Broadcast!NoLostWakeup
<1>1. ObjInv => Broadcast!NoLostWakeup
  BY DEF ObjInv
<1> QED
  BY <1>1, ObjInvariance, PTL
-----------------------------------------------------------------------------
(***************************************************************************)
(* QueueObj implements BoundedFIFO, for every number of threads and every  *)
(* size of the queue.  The refinement mapping reads the ring from qFirst   *)
(* up to qLast; everything else is the same in both.                       *)
(***************************************************************************)

-----------------------------------------------------------------------------
(***************************************************************************)
(* The initial states map to initial states.                               *)
(***************************************************************************)
LEMMA ObjInitRefines == Broadcast!Init => FIFO!Init
<1> SUFFICES ASSUME Broadcast!Init PROVE FIFO!Init
  OBVIOUS
<1>1. Count = 0
  BY BroadcastInit DEF QueueInitialize, Count
<1>2. Contents = <<>>
  BY <1>1 DEF Contents
<1> QED
  BY <1>2, BroadcastInit DEF QueueInitialize, FIFO!Init, FIFO!Callers, Callers

(***************************************************************************)
(* Every step is a step of the buffer or changes nothing of it.            *)
(***************************************************************************)
LEMMA ObjCommonStepRefines ==
  ASSUME ObjInv, CommonStep PROVE [FIFO!Next]_(FIFO!vars)
<1>1. UNCHANGED <<qFirst, qLast, msgArray, rcvd>>
  BY DEF CommonStep, CallerStep, Destroyer, Call, Enter, Reacquire, ResumeDestroyed, CallDestroy,
         QueueDestroy, CloseGuard, ringVars
<1>2. Contents' = Contents
  BY <1>1, ContentsFramed
<1>3. ASSUME NEW t \in Callers, Call(t) PROVE FIFO!Next
  <2>1. status[t] # "pending"
    BY <1>3 DEF ObjInv, ObjPending, Call
  <2> QED
    BY <1>1, <1>2, <1>3, <2>1 DEF Call, FIFO!Next, FIFO!Call, FIFO!Callers, Callers
<1>4. ASSUME NEW t \in Callers, Enter(t), destroyed PROVE FIFO!Next
  <2>1. status[t] = "pending"
    BY <1>4 DEF ObjInv, ObjPending, Enter
  <2> QED
    BY <1>1, <1>2, <1>4, <2>1 DEF Enter, FIFO!Next, FIFO!Fail, FIFO!Callers, Callers
<1>5. ASSUME UNCHANGED status PROVE UNCHANGED FIFO!vars
  BY <1>1, <1>2, <1>5 DEF FIFO!vars
<1> QED
  BY <1>3, <1>4, <1>5
     DEF CommonStep, CallerStep, Destroyer, Enter, Reacquire, ResumeDestroyed, CallDestroy,
         QueueDestroy, CloseGuard

LEMMA ObjQueueGetRefines ==
  ASSUME ObjInv, ObjInv', NEW c \in Consumers, Broadcast!QueueGet(c)
  PROVE  [FIFO!Next]_(FIFO!vars)
<1>1. CASE Broadcast!GetTest(c) \/ Broadcast!GetWait(c)
  <2>1. UNCHANGED <<qFirst, qLast, msgArray, rcvd, status>>
    BY <1>1 DEF Broadcast!GetTest, Broadcast!Test, Broadcast!GetWait, Broadcast!ringVars
  <2> QED
    BY <2>1, ContentsFramed DEF FIFO!vars
<1>2. CASE Broadcast!GetRemove(c)
  <2>1. ~QueueEmpty /\ QueueRemove(c) /\ status[c] = "pending"
    BY <1>2, BroadcastIsMonitor
       DEF Broadcast!GetRemove, ObjInv, DecisionsHold, DecisionsHoldFor,
                ObjPending, Callers
  <2>2. /\ Contents # <<>>
        /\ rcvd' = [rcvd EXCEPT ![c] = Head(Contents)]
        /\ Contents' = Tail(Contents)
    BY <2>1, RemoveTakesHead DEF ObjInv
  <2>3. FIFO!Get(c)
    BY <1>2, <2>1, <2>2 DEF Broadcast!GetRemove, FIFO!Get
  <2> QED
    BY <2>3 DEF FIFO!Next
<1> QED
  BY <1>1, <1>2 DEF Broadcast!QueueGet

LEMMA ObjQueuePutRefines ==
  ASSUME ObjInv, ObjInv', NEW p \in Producers, Broadcast!QueuePut(p)
  PROVE  [FIFO!Next]_(FIFO!vars)
<1>1. CASE Broadcast!PutTest(p) \/ Broadcast!PutWait(p)
  <2>1. UNCHANGED <<qFirst, qLast, msgArray, rcvd, status>>
    BY <1>1 DEF Broadcast!PutTest, Broadcast!Test, Broadcast!PutWait, Broadcast!ringVars
  <2> QED
    BY <2>1, ContentsFramed DEF FIFO!vars
<1>2. ASSUME NEW m \in Msg, Broadcast!PutInsert(p, m)
      PROVE  [FIFO!Next]_(FIFO!vars)
  <2>1. ~QueueFull /\ QueueInsert(m) /\ status[p] = "pending"
    BY <1>2, BroadcastIsMonitor
       DEF Broadcast!PutInsert, ObjInv, DecisionsHold, DecisionsHoldFor,
                ObjPending, Callers
  <2>2. Len(Contents) < QSize - 1 /\ Contents' = Append(Contents, m)
    BY <2>1, InsertAppends DEF ObjInv
  <2>3. UNCHANGED rcvd
    BY <2>1 DEF QueueInsert
  <2>4. FIFO!Put(p, m)
    BY <1>2, <2>1, <2>2, <2>3 DEF Broadcast!PutInsert, FIFO!Put
  <2> QED
    BY <2>4 DEF FIFO!Next
<1> QED
  BY <1>1, <1>2 DEF Broadcast!QueuePut

LEMMA ObjNextRefines ==
  ObjInv /\ ObjInv' /\ [Broadcast!Next]_(Broadcast!vars) => [FIFO!Next]_(FIFO!vars)
<1> SUFFICES ASSUME ObjInv, ObjInv', [Broadcast!Next]_(Broadcast!vars) PROVE [FIFO!Next]_(FIFO!vars)
  OBVIOUS
<1>1. CASE CommonStep
  BY <1>1, ObjCommonStepRefines
<1>2. ASSUME NEW c \in Consumers, Broadcast!QueueGet(c) PROVE [FIFO!Next]_(FIFO!vars)
  BY <1>2, ObjQueueGetRefines
<1>3. ASSUME NEW p \in Producers, Broadcast!QueuePut(p) PROVE [FIFO!Next]_(FIFO!vars)
  BY <1>3, ObjQueuePutRefines
<1>4. CASE UNCHANGED Broadcast!vars
  <2>1. UNCHANGED <<qFirst, qLast, msgArray, rcvd, status>>
    BY <1>4 DEF Broadcast!vars, Broadcast!queueVars
  <2> QED
    BY <2>1, ContentsFramed DEF FIFO!vars
<1> QED
  BY <1>1, <1>2, <1>3, <1>4, BroadcastIsMonitor DEF Broadcast!Next

(***************************************************************************)
(* QueueObj.c implements the bounded first-in first-out buffer: messages   *)
(* leave in the order they came, none is lost, none is delivered twice,    *)
(* and a call that returns 0 has moved one, for every number of threads    *)
(* and every size of the queue.                                            *)
(***************************************************************************)
THEOREM BroadcastRefinement == Broadcast!Spec => FIFO!Spec
<1> QED
  BY ObjInitRefines, ObjNextRefines, ObjInvariance, PTL
     DEF Broadcast!Spec, FIFO!Spec
=============================================================================
