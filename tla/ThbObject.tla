------------------------------ MODULE ThbObject ------------------------------
(***************************************************************************)
(* CHAPTR10/ThbObject.c: the threshold barrier.  A thread counts itself in *)
(* under the guard and waits, with SignalObjectAndWait, on a manual-reset  *)
(* event until the threshold is reached; the event is then set for good.   *)
(* CloseThresholdBarrier looks at the counter under the guard and takes    *)
(* the object apart after it has released it.                              *)
(***************************************************************************)
EXTENDS Naturals, FiniteSets

CONSTANTS ThbThreads,   \* threads that call WaitThresholdBarrier, once each
          Closer,       \* the thread that calls CloseThresholdBarrier
          NoOwner,      \* the guard's owner when it is free
          bThreshold

ASSUME BarrierAssumption ==
  /\ IsFiniteSet(ThbThreads)
  /\ Closer \notin ThbThreads
  /\ NoOwner \notin ThbThreads \cup {Closer}
  /\ bThreshold \in Nat

VARIABLES bGuard,       \* owner of the mutex
          bCount,
          bEvent,       \* the event is signalled
          open,         \* the handles not yet closed
          freed,        \* free (thb) has been called
          place

vars == <<bGuard, bCount, bEvent, open, freed, place>>

\* "start" before the call; "enter" waiting for the guard; "in" its owner, and
\* counted; "wait" on the event; "again" awake and waiting for the guard;
\* "retest" its owner again; "passed" after the call; "faulted" after the use
\* of a freed object.
ThreadPCs == {"start", "enter", "in", "wait", "again", "retest", "passed", "faulted"}
CloserPCs == {"idle", "check", "closing", "busy", "closed"}

Init ==
  /\ bGuard = NoOwner /\ bCount = 0 /\ bEvent = FALSE
  /\ open = {"bEvent", "bGuard"} /\ freed = FALSE
  /\ place = [t \in ThbThreads \cup {Closer} |-> IF t = Closer THEN "idle" ELSE "start"]

MoveTo(t, l) == place' = [place EXCEPT ![t] = l]

\* A wait for the guard fails at once when its handle has been closed, and
\* the code goes on without it.
WaitGuard(t) == \/ bGuard = NoOwner /\ bGuard' = t
                \/ "bGuard" \notin open /\ UNCHANGED bGuard

ReleaseGuard(t) == bGuard' = IF bGuard = t THEN NoOwner ELSE bGuard

-----------------------------------------------------------------------------
(* WaitThresholdBarrier.  Nobody calls it on an object that is already freed. *)

Call(t) ==
  /\ place[t] = "start" /\ ~freed
  /\ MoveTo(t, "enter")
  /\ UNCHANGED <<bGuard, bCount, bEvent, open, freed>>

\* Fault: the new arrival is counted once by itself and once by the object.
Arrive_Twice(t) ==
  /\ place[t] = "enter" /\ ~freed
  /\ WaitGuard(t)
  /\ bCount' = bCount + 2
  /\ MoveTo(t, "in")
  /\ UNCHANGED <<bEvent, open, freed>>

Arrive(t) ==
  /\ place[t] = "enter" /\ ~freed
  /\ WaitGuard(t)
  /\ bCount' = bCount + 1
  /\ MoveTo(t, "in")
  /\ UNCHANGED <<bEvent, open, freed>>

\* The loop's body as far as the wait: release the guard and sleep.
Sleep(t) ==
  /\ place[t] \in {"in", "retest"} /\ ~freed
  /\ bCount < bThreshold
  /\ ReleaseGuard(t)
  /\ MoveTo(t, "wait")
  /\ UNCHANGED <<bCount, bEvent, open, freed>>

Awake(t) ==
  /\ place[t] = "wait" /\ bEvent
  /\ MoveTo(t, "again")
  /\ UNCHANGED <<bGuard, bCount, bEvent, open, freed>>

Reacquire(t) ==
  /\ place[t] = "again" /\ ~freed
  /\ WaitGuard(t)
  /\ MoveTo(t, "retest")
  /\ UNCHANGED <<bCount, bEvent, open, freed>>

\* Fault: only a thread that has slept announces that the barrier is open.
Pass_NoSetEvent(t) ==
  /\ place[t] \in {"in", "retest"} /\ ~freed
  /\ bCount >= bThreshold
  /\ bEvent' = (bEvent \/ place[t] = "retest")
  /\ ReleaseGuard(t)
  /\ MoveTo(t, "passed")
  /\ UNCHANGED <<bCount, open, freed>>

\* Past the loop: broadcast and leave.
Pass(t) ==
  /\ place[t] \in {"in", "retest"} /\ ~freed
  /\ bCount >= bThreshold
  /\ bEvent' = IF "bEvent" \in open THEN TRUE ELSE bEvent
  /\ ReleaseGuard(t)
  /\ MoveTo(t, "passed")
  /\ UNCHANGED <<bCount, open, freed>>

\* A thread still on its way out of the call reads an object that is gone.
UseFreed(t) ==
  /\ place[t] \in {"enter", "in", "again", "retest"} /\ freed
  /\ MoveTo(t, "faulted")
  /\ UNCHANGED <<bGuard, bCount, bEvent, open, freed>>

WaitThresholdBarrier(t) ==
  Call(t) \/ Arrive(t) \/ Sleep(t) \/ Awake(t) \/ Reacquire(t) \/ Pass(t) \/ UseFreed(t)

-----------------------------------------------------------------------------
(* CloseThresholdBarrier. *)

CloseWait ==
  /\ place[Closer] = "idle"
  /\ WaitGuard(Closer)
  /\ MoveTo(Closer, "check")
  /\ UNCHANGED <<bCount, bEvent, open, freed>>

\* Fault: the counter is not looked at.
CloseCheck_NoTest ==
  /\ place[Closer] = "check"
  /\ MoveTo(Closer, "closing")
  /\ ReleaseGuard(Closer)
  /\ UNCHANGED <<bCount, bEvent, open, freed>>

CloseCheck ==
  /\ place[Closer] = "check"
  /\ MoveTo(Closer, IF bCount < bThreshold THEN "busy" ELSE "closing")
  /\ ReleaseGuard(Closer)
  /\ UNCHANGED <<bCount, bEvent, open, freed>>

CloseBEvent ==
  /\ place[Closer] = "closing" /\ "bEvent" \in open
  /\ open' = open \ {"bEvent"}
  /\ UNCHANGED <<bGuard, bCount, bEvent, freed, place>>

CloseBGuard ==
  /\ place[Closer] = "closing" /\ open = {"bGuard"}
  /\ open' = {}
  /\ UNCHANGED <<bGuard, bCount, bEvent, freed, place>>

Free ==
  /\ place[Closer] = "closing" /\ open = {}
  /\ freed' = TRUE
  /\ MoveTo(Closer, "closed")
  /\ UNCHANGED <<bGuard, bCount, bEvent, open>>

CloseThresholdBarrier ==
  CloseWait \/ CloseCheck \/ CloseBEvent \/ CloseBGuard \/ Free

-----------------------------------------------------------------------------
Next == (\E t \in ThbThreads : WaitThresholdBarrier(t)) \/ CloseThresholdBarrier

Spec == Init /\ [][Next]_vars

-----------------------------------------------------------------------------
Arrived == {t \in ThbThreads : place[t] \notin {"start", "enter"}}
Passed == {t \in ThbThreads : place[t] = "passed"}

TypeOK ==
  /\ bGuard \in ThbThreads \cup {Closer, NoOwner}
  /\ bCount \in 0 .. Cardinality(ThbThreads)
  /\ bEvent \in BOOLEAN /\ freed \in BOOLEAN
  /\ open \subseteq {"bEvent", "bGuard"}
  /\ place \in [ThbThreads \cup {Closer} -> ThreadPCs \cup CloserPCs]
  /\ place[Closer] \in CloserPCs /\ \A t \in ThbThreads : place[t] \in ThreadPCs

(***************************************************************************)
(* Nobody passes the barrier before bThreshold threads have reached it.    *)
(***************************************************************************)
BarrierHolds == Passed # {} => Cardinality(Arrived) >= bThreshold

(***************************************************************************)
(* No broadcast is lost.  Once the threshold is reached, the event is set  *)
(* or the thread that will set it is still inside, also for the threads    *)
(* that were between their test and their wait.                            *)
(***************************************************************************)
NoLostBroadcast ==
  (\E t \in ThbThreads : place[t] = "wait") /\ bCount >= bThreshold =>
     bEvent \/ \E t \in ThbThreads : place[t] = "in" \/ place[t] = "retest"

(***************************************************************************)
(* CloseThresholdBarrier returns SYNCH_OBJ_BUSY to keep an object alive    *)
(* that threads are waiting on: no waiting thread is left with one freed.  *)
(***************************************************************************)
BusyProtectsWaiters ==
  \A t \in ThbThreads : place[t] = "wait" /\ ~bEvent => ~freed

(***************************************************************************)
(* Once enough threads have come, all who have come get through, or the    *)
(* object is closed under them.                                            *)
(***************************************************************************)
ThresholdReached == Cardinality(Arrived) >= bThreshold
AllReleased == "bGuard" \notin open \/ \A t \in ThbThreads : place[t] \in {"start", "passed"}
=============================================================================
